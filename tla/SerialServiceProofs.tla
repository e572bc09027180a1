------------------------- MODULE SerialServiceProofs -------------------------
(***************************************************************************)
(* Theorems about TaskService with one worker, which is how the event loop  *)
(* runs the REST handlers: that it implements TaskFlow, and what it         *)
(* announces of what it did, whatever the crashes.                          *)
(***************************************************************************)
EXTENDS TaskServiceProofs

\* One thread runs every call.
Serial == \E w \in Workers : Workers = {w}

----------------------------------------------------------------------------
(* What a call has read still holds when it writes                          *)

\* A guard that is still to be checked, or that nothing has frozen.
Guarding(c, obj) ==
  (\E i \in DOMAIN c.guards : c.guards[i] = obj) \/ Flow!GuardFreeze(obj)

\* What the checks of a call have established so far, said of the tables as
\* they are now.
KeptMove(c) ==
  /\ c.row = task[c.t] /\ c.to \in TRANSITIONS[c.row.state]
  /\ IsHumanOnly(c.row.state, c.to) => c.actor = "human"
  /\ Guarding(c, c.t)
  /\ c.pc = "commit" => GateOpen(c)
KeptEdit(c) ==
  /\ c.row = task[c.t] /\ c.fields # {}
  /\ "body" \in c.fields =>
       ~(c.actor # "human" /\ task[c.t].state \in BodyFrozenForAgents)
  /\ "waiver" \in c.fields => c.actor = "human"
  /\ Guarding(c, c.t)
KeptTodo(c) ==
  /\ c.d \in DOMAIN todos /\ ~todos[c.d].trashed /\ todos[c.d].task = c.t
  /\ Guarding(c, c.t) /\ Guarding(c, c.d)

Kept(c) ==
  /\ c.op = "transition" => KeptMove(c)
  /\ c.op = "edit" => KeptEdit(c)
  /\ c.op \in {"add_todo", "add_proof"} => Guarding(c, c.t)
  /\ c.op \in {"tick", "trash_todo"} => KeptTodo(c)
  /\ c.op = "trash_proof" => c.p \in DOMAIN proofs /\ ~proofs[c.p].trashed
  /\ c.op = "ask" => c.obj \in Tasks \cup DOMAIN todos
  /\ c.op = "resolve" => c.q \in DOMAIN questions /\ questions[c.q].open
  /\ c.pc = "commit" /\ c \in Guarded => c.guards = <<>>
KeptInv ==
  \A w \in Workers, c \in Calls : call[w] = c /\ c.pc \in Pending => Kept(c)

\* A list of guards that starts with this one has it; without the first one it
\* has the others; and the empty list has none.
LEMMA GuardsOfCall ==
  ASSUME NEW c, c.guards \in Guards
  PROVE  /\ c.guards = <<>> => \A obj : Guarding(c, obj) => Flow!GuardFreeze(obj)
         /\ \A obj : c.guards = <<obj>> => Guarding(c, obj)
         /\ \A a, b : c.guards = <<a, b>> => Guarding(c, a) /\ Guarding(c, b)
         /\ c.guards # <<>> =>
              /\ Tail(c.guards) \in Guards
              /\ \A i \in DOMAIN c.guards :
                   i = 1 \/ (i - 1 \in DOMAIN Tail(c.guards)
                             /\ Tail(c.guards)[i - 1] = c.guards[i])
BY DEF Guarding, Guards

\* Nothing the calls rely on changes while tables and call stay.
LEMMA KeptFrame ==
  ASSUME UNCHANGED tables, NEW c, Kept(c)
  PROVE  Kept(c)'
BY DEF Kept, KeptMove, KeptEdit, KeptTodo, Guarding, GateOpen, TargetOf, tables,
       Flow!GuardFreeze, Flow!Frozen, Flow!ProofOK, Flow!TodosOutstanding

\* It does when a worker goes on with a call for which it holds.
LEMMA KeptOn ==
  ASSUME TypeInv, KeptInv, UNCHANGED tables, NEW w \in Workers, NEW c,
         call' = [call EXCEPT ![w] = c], c.pc \in Pending => Kept(c)
  PROVE  KeptInv'
<1> SUFFICES ASSUME NEW v \in Workers, NEW x \in Calls, call'[v] = x, x.pc \in Pending
             PROVE  Kept(x)'
  BY DEF KeptInv
<1>1. call \in [Workers -> Calls]
  BY DEF TypeInv
<1>2. Kept(x)
  BY <1>1 DEF KeptInv
<1> QED
  BY <1>2, KeptFrame

\* The first reads of every call establish what it relies on.
LEMMA LoadKeeps ==
  ASSUME TypeInv, KeptInv, NEW w \in Workers, Load(w)
  PROVE  KeptInv'
<1>1. ASSUME NEW c, Start(w, c), c.pc \in Pending => Kept(c) PROVE KeptInv'
  BY <1>1, KeptOn DEF Start
<1>2. ASSUME NEW t \in Tasks, NEW to \in Requests, NEW actor \in Kinds,
             NEW note \in BOOLEAN, NEW v \in BOOLEAN,
             LoadTransition(w, t, to, actor, note, v)
      PROVE  KeptInv'
  <2> DEFINE denied == [pc |-> "emit",
                        event |-> Event("task.transition_denied", t, task[t].state, to)]
             move == [pc |-> "guards", op |-> "transition", guards |-> <<t>>,
                      t |-> t, to |-> to, actor |-> actor, note |-> note,
                      versioned |-> v, row |-> task[t]]
  <2>1. denied.pc \notin Pending
    BY DEF Pending
  <2>2. ASSUME ~(IsHumanOnly(task[t].state, to) /\ actor # "human"),
               to \in TRANSITIONS[task[t].state]
        PROVE  Kept(move)
    <3>1. Guarding(move, t)
      BY DEF Guarding
    <3>2. KeptMove(move)
      BY <2>2, <3>1 DEF KeptMove
    <3>3. move.pc = "guards" /\ move.op = "transition"
      OBVIOUS
    <3> HIDE DEF move
    <3> QED
      BY <3>2, <3>3 DEF Kept
  <2> HIDE DEF denied, move
  <2> QED
    BY <1>1, <1>2, <2>1, <2>2 DEF LoadTransition, denied, move
<1>3. ASSUME NEW t \in Tasks, NEW fields \in (SUBSET {"body", "waiver", "columns"}) \ {{}},
             NEW actor \in Kinds, NEW v \in BOOLEAN, LoadEdit(w, t, fields, actor, v)
      PROVE  KeptInv'
  <2> DEFINE c == [pc |-> "guards", op |-> "edit", guards |-> <<t>>, t |-> t,
                   fields |-> fields, actor |-> actor, versioned |-> v, row |-> task[t]]
  <2>1. Guarding(c, t)
    BY DEF Guarding
  <2>2. KeptEdit(c)
    BY <1>3, <2>1 DEF KeptEdit, LoadEdit
  <2>3. c.pc = "guards" /\ c.op = "edit" /\ Start(w, c)
    BY <1>3 DEF LoadEdit
  <2> HIDE DEF c
  <2> QED
    BY <1>1, <2>2, <2>3 DEF Kept
<1>4. ASSUME NEW t \in Tasks, NEW d \in Todos, LoadAddTodo(w, t, d)
      PROVE  KeptInv'
  <2> DEFINE c == [pc |-> "guards", op |-> "add_todo", guards |-> <<t>>, t |-> t, d |-> d]
  <2>1. Guarding(c, t)
    BY DEF Guarding
  <2>2. c.pc = "guards" /\ c.op = "add_todo" /\ c.t = t /\ Start(w, c)
    BY <1>4 DEF LoadAddTodo
  <2> HIDE DEF c
  <2> QED
    BY <1>1, <2>1, <2>2 DEF Kept
<1>5. ASSUME NEW d \in Todos, NEW c, Start(w, c),
             d \in DOMAIN todos /\ ~todos[d].trashed,
             c.pc = "guards" /\ c.op \in {"tick", "trash_todo"},
             c.t = todos[d].task /\ c.d = d /\ c.guards = <<todos[d].task, d>>
      PROVE  KeptInv'
  <2>1. Guarding(c, c.t) /\ Guarding(c, c.d)
    <3> DEFINE a == todos[d].task
    <3>1. c.t = a /\ c.d = d /\ c.guards = <<a, d>>
      BY <1>5
    <3> HIDE DEF a
    <3> QED
      BY <3>1 DEF Guarding
  <2>2. KeptTodo(c)
    BY <1>5, <2>1 DEF KeptTodo
  <2> QED
    BY <1>1, <1>5, <2>2 DEF Kept
<1>6. ASSUME NEW d \in Todos, NEW done \in BOOLEAN, NEW v \in BOOLEAN,
             LoadTickTodo(w, d, done, v)
      PROVE  KeptInv'
  BY <1>5, <1>6 DEF LoadTickTodo
<1>7. ASSUME NEW d \in Todos, NEW actor \in Kinds, LoadTrashTodo(w, d, actor)
      PROVE  KeptInv'
  BY <1>5, <1>7 DEF LoadTrashTodo
<1>8. ASSUME NEW t \in Tasks, NEW p \in Proofs, NEW gate \in BOOLEAN,
             LoadAddProof(w, t, p, gate)
      PROVE  KeptInv'
  <2> DEFINE c == [pc |-> "guards", op |-> "add_proof", guards |-> <<t>>, t |-> t,
                   p |-> p, gate |-> gate]
  <2>1. Guarding(c, t)
    BY DEF Guarding
  <2>2. c.pc = "guards" /\ c.op = "add_proof" /\ c.t = t /\ Start(w, c)
    BY <1>8 DEF LoadAddProof
  <2> HIDE DEF c
  <2> QED
    BY <1>1, <2>1, <2>2 DEF Kept
<1>9. ASSUME NEW c, Start(w, c), c.pc = "commit" /\ c \notin Guarded,
             \/ /\ c.op = "trash_proof" /\ c.p \in DOMAIN proofs
                /\ ~proofs[c.p].trashed
             \/ c.op = "ask" /\ c.obj \in Tasks \cup DOMAIN todos
             \/ c.op = "resolve" /\ c.q \in DOMAIN questions /\ questions[c.q].open
      PROVE  KeptInv'
  BY <1>1, <1>9 DEF Kept
<1>10. ASSUME NEW c, c.op \in {"trash_proof", "ask", "resolve"} PROVE c \notin Guarded
  BY <1>10 DEF Guarded, Moves, Edits, NewTodos, Ticks, TrashedTodos, NewProofs
<1>11. ASSUME NEW p \in Proofs, NEW actor \in Kinds, LoadTrashProof(w, p, actor)
      PROVE  KeptInv'
  BY <1>9, <1>10, <1>11 DEF LoadTrashProof
<1>12. ASSUME NEW q \in Questions, NEW obj \in Objects, LoadAsk(w, q, obj)
      PROVE  KeptInv'
  BY <1>9, <1>10, <1>12 DEF LoadAsk
<1>13. ASSUME NEW q \in Questions, LoadResolve(w, q)
      PROVE  KeptInv'
  BY <1>9, <1>10, <1>13 DEF LoadResolve
<1> QED
  BY <1>2, <1>3, <1>4, <1>6, <1>7, <1>8, <1>11, <1>12, <1>13 DEF Load, Objects

\* A call keeps its operation and what it names while its guards are checked.
LEMMA SameButGuards ==
  ASSUME NEW c \in Guarded, NEW g \in Guards, NEW pc \in Pending
  PROVE  LET d == [c EXCEPT !.guards = g, !.pc = pc] IN
         /\ d \in Guarded /\ d.guards = g /\ d.pc = pc /\ d.op = c.op /\ d.t = c.t
         /\ c.op = "transition" => /\ d.row = c.row /\ d.to = c.to /\ d.actor = c.actor
                                  /\ d.note = c.note
         /\ c.op = "edit" => d.row = c.row /\ d.fields = c.fields /\ d.actor = c.actor
         /\ c.op \in {"tick", "trash_todo"} => d.d = c.d
         /\ c.op \notin {"trash_proof", "ask", "resolve"}
<1>1. CASE c \in Moves
  BY <1>1 DEF Guarded, Moves
<1>2. CASE c \in Edits
  BY <1>2 DEF Guarded, Edits
<1>3. CASE c \in NewTodos
  BY <1>3 DEF Guarded, NewTodos
<1>4. CASE c \in Ticks
  BY <1>4 DEF Guarded, Ticks
<1>5. CASE c \in TrashedTodos
  BY <1>5 DEF Guarded, TrashedTodos
<1>6. CASE c \in NewProofs
  BY <1>6 DEF Guarded, NewProofs
<1> QED
  BY <1>1, <1>2, <1>3, <1>4, <1>5, <1>6 DEF Guarded

\* One guard or all of them checked, and what the call relies on is still known.
LEMMA KeptWithout ==
  ASSUME NEW c \in Guarded, NEW g \in Guards, NEW pc \in Pending, Kept(c),
         \A obj : Guarding(c, obj) => Guarding([c EXCEPT !.guards = g, !.pc = pc], obj),
         pc = "commit" => g = <<>>,
         pc = "commit" /\ c.op = "transition" => GateOpen(c)
  PROVE  Kept([c EXCEPT !.guards = g, !.pc = pc])
<1> DEFINE d == [c EXCEPT !.guards = g, !.pc = pc]
<1>1. /\ d \in Guarded /\ d.guards = g /\ d.pc = pc /\ d.op = c.op /\ d.t = c.t
      /\ c.op = "transition" => /\ d.row = c.row /\ d.to = c.to /\ d.actor = c.actor
                               /\ d.note = c.note
      /\ c.op = "edit" => d.row = c.row /\ d.fields = c.fields /\ d.actor = c.actor
      /\ c.op \in {"tick", "trash_todo"} => d.d = c.d
      /\ c.op \notin {"trash_proof", "ask", "resolve"}
  BY SameButGuards
<1>2. \A obj : Guarding(c, obj) => Guarding(d, obj)
  OBVIOUS
<1> HIDE DEF d
<1>3. c.op = "transition" => KeptMove(d)
  BY <1>1, <1>2 DEF Kept, KeptMove, GateOpen, TargetOf
<1>4. c.op = "edit" => KeptEdit(d)
  BY <1>1, <1>2 DEF Kept, KeptEdit
<1>5. c.op \in {"tick", "trash_todo"} => KeptTodo(d)
  BY <1>1, <1>2 DEF Kept, KeptTodo
<1> QED
  BY <1>1, <1>2, <1>3, <1>4, <1>5 DEF Kept, d

\* The checks that read other rows keep what the call relies on.
LEMMA CheckKeeps ==
  ASSUME TypeInv, KeptInv, NEW w \in Workers, CheckFreeze(w) \/ CheckGate(w)
  PROVE  KeptInv'
<1> PICK c \in Calls : c = call[w]
  BY DEF TypeInv
<1>1. c.pc = "guards" /\ c \in Guarded /\ Kept(c)
  BY Stages DEF CheckFreeze, CheckGate, KeptInv, Pending
<1>2. c.guards \in Guards
  BY <1>1 DEF Guarded, Moves, Edits, NewTodos, Ticks, TrashedTodos, NewProofs
<1>3. Idle.pc \notin Pending
  BY DEF Idle, Pending
<1>4. CASE CheckFreeze(w)
  <2> DEFINE g == Tail(c.guards)
             d == [c EXCEPT !.guards = g, !.pc = "guards"]
  <2>1. c.guards # <<>> /\ call' = [call EXCEPT ![w] = AfterGuard(c)] /\ UNCHANGED tables
    BY <1>4 DEF CheckFreeze, TypeInv
  <2>2. /\ g \in Guards
        /\ \A i \in DOMAIN c.guards :
             i = 1 \/ (i - 1 \in DOMAIN g /\ g[i - 1] = c.guards[i])
    BY <1>2, <2>1, GuardsOfCall
  <2>3. d.guards = g /\ d = [c EXCEPT !.guards = Tail(@)]
    BY <1>1 DEF Guarded, Moves, Edits, NewTodos, Ticks, TrashedTodos, NewProofs
  <2>4. CASE Flow!GuardFreeze(Head(c.guards))
    <3>1. Head(c.guards) = c.guards[1]
      BY <1>2, <2>1 DEF Guards
    <3>2. ASSUME NEW obj, Guarding(c, obj) PROVE Guarding(d, obj)
      <4> HIDE DEF d, g
      <4> QED
        BY <2>2, <2>3, <2>4, <3>1, <3>2 DEF Guarding
    <3>3. "guards" \in Pending
      BY DEF Pending
    <3>4. Kept(d)
      <4> HIDE DEF g
      <4> QED
        BY <1>1, <2>2, <3>2, <3>3, KeptWithout
    <3>5. AfterGuard(c) = d
      BY <2>3, <2>4 DEF AfterGuard
    <3> HIDE DEF d
    <3> QED
      BY <2>1, <3>4, <3>5, KeptOn
  <2>5. CASE ~Flow!GuardFreeze(Head(c.guards))
    BY <1>3, <2>1, <2>5, KeptOn DEF AfterGuard
  <2> QED
    BY <2>4, <2>5
<1>5. CASE CheckGate(w)
  <2> DEFINE d == [c EXCEPT !.guards = <<>>, !.pc = "commit"]
  <2>1. c.guards = <<>> /\ UNCHANGED tables
    BY <1>5 DEF CheckGate
  <2>2. d = [c EXCEPT !.pc = "commit"]
    BY <1>1, <2>1 DEF Guarded, Moves, Edits, NewTodos, Ticks, TrashedTodos, NewProofs
  <2>3. call' = [call EXCEPT ![w] = IF c.op = "transition" /\ ~GateOpen(c) THEN Idle ELSE d]
    BY <1>5, <2>2 DEF CheckGate, TypeInv
  <2>4. CASE c.op = "transition" /\ ~GateOpen(c)
    BY <1>3, <2>1, <2>3, <2>4, KeptOn
  <2>5. CASE ~(c.op = "transition" /\ ~GateOpen(c))
    <3>1. ASSUME NEW obj, Guarding(c, obj) PROVE Guarding(d, obj)
      <4>1. Flow!GuardFreeze(obj)
        BY <1>2, <2>1, <3>1, GuardsOfCall
      <4> QED
        BY <4>1 DEF Guarding
    <3>2. "commit" \in Pending /\ <<>> \in Guards
      BY DEF Pending, Guards
    <3>3. Kept(d)
      BY <1>1, <2>5, <3>1, <3>2, KeptWithout
    <3> HIDE DEF d
    <3> QED
      BY <2>1, <2>3, <2>5, <3>3, KeptOn
  <2> QED
    BY <2>4, <2>5
<1> QED
  BY <1>4, <1>5

----------------------------------------------------------------------------
(* The transactions are the calls of TaskFlow                               *)

\* The workflow's data are the same in both modules.
LEMMA SharedData ==
  /\ Flow!TRANSITIONS = TRANSITIONS /\ Flow!Requests = Requests /\ Flow!Kinds = Kinds
  /\ Flow!BodyFrozenForAgents = BodyFrozenForAgents
  /\ \A a, b, c : Flow!Target(a, b, c) = Target(a, b, c)
  /\ \A a, b : Flow!PreviousState(a, b) = PreviousState(a, b)
  /\ \A a, b : Flow!IsHumanOnly(a, b) <=> IsHumanOnly(a, b)
<1>1. /\ Flow!TRANSITIONS = TRANSITIONS /\ Flow!Requests = Requests /\ Flow!Kinds = Kinds
      /\ Flow!BodyFrozenForAgents = BodyFrozenForAgents /\ Flow!NoState = NoState
      /\ Flow!Settled = Settled
  BY DEF Flow!TRANSITIONS, TRANSITIONS, Flow!Requests, Requests, Flow!States, States,
         Flow!Kinds, Kinds, Flow!BodyFrozenForAgents, BodyFrozenForAgents, Flow!NoState,
         NoState, Flow!Settled, Settled
<1>2. \A a, b, c : Flow!Target(a, b, c) = Target(a, b, c)
  BY <1>1 DEF Flow!Target, Target, Flow!DefaultPrevious, DefaultPrevious
<1>3. \A a, b : Flow!PreviousState(a, b) = PreviousState(a, b)
  BY <1>1 DEF Flow!PreviousState, PreviousState
<1>4. \A a, b : Flow!IsHumanOnly(a, b) <=> IsHumanOnly(a, b)
  BY DEF Flow!IsHumanOnly, IsHumanOnly
<1> QED
  BY <1>1, <1>2, <1>3, <1>4

\* The bound on writes, in the form TaskFlow has it.
LEMMA Bound ==
  ASSUME TypeInv, NEW t \in Tasks, task'[t].version = task[t].version + 1,
         task'[t].version <= MaxVersion
  PROVE  Flow!CanBump(t)
BY BoundAssumption DEF TypeInv, TaskRow, Flow!CanBump

\* A transition.
LEMMA TransitionRefines ==
  ASSUME TypeInv, NEW c \in Moves, Kept(c), c.pc = "commit", NEW w \in Workers,
         CommitTransition(w, c), \A t \in Tasks : task'[t].version <= MaxVersion
  PROVE  Flow!Next
<1>1. /\ c.t \in Tasks /\ c.to \in Requests /\ c.actor \in Kinds /\ c.note \in BOOLEAN
      /\ c.op = "transition" /\ c.guards \in Guards
  BY DEF Moves
<1> DEFINE row == task[c.t]
           target == Target(row.state, row.previous_state, c.to)
<1>2. KeptMove(c) /\ c.guards = <<>>
  BY <1>1 DEF Kept, Guarded
<1>3. c.row = row /\ c.to \in TRANSITIONS[row.state] /\ GateOpen(c)
  BY <1>2 DEF KeptMove
<1>4. Flow!GuardFreeze(c.t)
  BY <1>1, <1>2, GuardsOfCall DEF KeptMove
<1>5. Flow!IsHumanOnly(row.state, c.to) => c.actor = "human"
  BY <1>2, <1>3, SharedData DEF KeptMove
<1>6. TargetOf(c) = target /\ Flow!Target(row.state, row.previous_state, c.to) = target
  BY <1>3, SharedData DEF TargetOf
<1>7. Flow!GateOpen(c.t, target, c.note)
  <2>1. GateOpen(c) /\ TargetOf(c) = target /\ c.row = task[c.t]
    BY <1>3, <1>6
  <2> HIDE DEF target
  <2> QED
    BY <2>1, Zenon DEF GateOpen, Flow!GateOpen, Flow!ProofOK
<1>8. task' = [task EXCEPT ![c.t].state = target,
                 ![c.t].previous_state = Flow!PreviousState(row.state, target),
                 ![c.t].version = Flow!NextVersion(@)]
  <2>1. Flow!PreviousState(row.state, target) = PreviousState(row.state, target)
    BY SharedData
  <2> HIDE DEF target
  <2> QED
    BY <1>3, <1>6, <2>1 DEF CommitTransition, NextVersion, Flow!NextVersion
<1>9. /\ transitions' = [transitions EXCEPT ![c.t] =
                           Append(@, Flow!LogEntry(row.state, target, c.actor))]
      /\ UNCHANGED <<revisions, todos, proofs, questions, seen>>
  BY <1>3, <1>6 DEF CommitTransition, Committed
<1>10. Flow!CanBump(c.t)
  <2>1. task'[c.t].version = task[c.t].version + 1
    <3>1. task \in [Tasks -> TaskRow]
      BY DEF TypeInv
    <3> HIDE DEF target
    <3> QED
      BY <1>1, <1>8, <3>1 DEF Flow!NextVersion, TaskRow
  <2> QED
    BY <1>1, <2>1, Bound
<1>11. Flow!FreshTask(c.t, FALSE)
  BY DEF Flow!FreshTask
<1>12. Flow!Transition(c.t, c.to, c.actor, c.note, FALSE)
  <2>1. c.to \in Flow!TRANSITIONS[row.state]
    BY <1>3, SharedData
  <2>2. Flow!Target(row.state, row.previous_state, c.to) = target
    BY <1>6
  <2> HIDE DEF target
  <2> QED
    BY <1>4, <1>5, <1>7, <1>8, <1>9, <1>10, <1>11, <2>1, <2>2 DEF Flow!Transition
<1> QED
  BY <1>1, <1>12, SharedData DEF Flow!Next

\* An edit.
LEMMA EditRefines ==
  ASSUME TypeInv, NEW c \in Edits, Kept(c), c.pc = "commit", NEW w \in Workers,
         CommitEdit(w, c), \A t \in Tasks : task'[t].version <= MaxVersion
  PROVE  Flow!Next
<1>1. /\ c.t \in Tasks /\ c.fields \in Fields /\ c.actor \in Kinds
      /\ c.op = "edit" /\ c.guards \in Guards
  BY DEF Edits
<1>2. KeptEdit(c) /\ c.guards = <<>>
  BY <1>1 DEF Kept, Guarded
<1>3. Flow!GuardFreeze(c.t)
  BY <1>1, <1>2, GuardsOfCall DEF KeptEdit
<1>4. task' = [task EXCEPT
                 ![c.t].proof_waived = IF "waiver" \in c.fields THEN ~@ ELSE @,
                 ![c.t].version = Flow!NextVersion(@)]
  BY <1>2 DEF CommitEdit, NextVersion, Flow!NextVersion, KeptEdit
<1>5. Flow!CanBump(c.t)
  <2>1. task'[c.t].version = task[c.t].version + 1
    <3>1. task \in [Tasks -> TaskRow]
      BY DEF TypeInv
    <3> QED
      BY <1>1, <1>4, <3>1 DEF Flow!NextVersion, TaskRow
  <2> QED
    BY <1>1, <2>1, Bound
<1>6. Flow!EditTask(c.t, c.fields, c.actor, FALSE)
  <2>1. /\ revisions' = IF "body" \in c.fields
                        THEN [revisions EXCEPT ![c.t] = Append(@, c.actor)] ELSE revisions
        /\ UNCHANGED <<transitions, todos, proofs, questions, seen>>
    BY DEF CommitEdit, Committed
  <2>2. /\ "body" \in c.fields =>
             ~(c.actor # "human" /\ task[c.t].state \in Flow!BodyFrozenForAgents)
        /\ "waiver" \in c.fields => c.actor = "human"
    BY <1>2, SharedData DEF KeptEdit
  <2>3. Flow!FreshTask(c.t, FALSE)
    BY DEF Flow!FreshTask
  <2> QED
    BY <1>3, <1>4, <1>5, <2>1, <2>2, <2>3 DEF Flow!EditTask
<1>7. c.fields \in (SUBSET {"body", "waiver", "columns"}) \ {{}}
  BY <1>1, <1>2 DEF KeptEdit, Fields
<1> QED
  BY <1>1, <1>6, <1>7, SharedData DEF Flow!Next

\* A call on the checklist.
LEMMA TodoRefines ==
  ASSUME TypeInv, NEW c \in NewTodos \cup Ticks \cup TrashedTodos, Kept(c),
         c.pc = "commit", NEW w \in Workers,
         CommitTodo(w, c), \A t \in Tasks : task'[t].version <= MaxVersion
  PROVE  Flow!Next
<1>1. c.t \in Tasks /\ c.d \in Todos /\ c.guards \in Guards /\ c.guards = <<>>
  BY DEF NewTodos, Ticks, TrashedTodos, Kept, Guarded
<1>2. \A obj : Guarding(c, obj) => Flow!GuardFreeze(obj)
  BY <1>1, GuardsOfCall
<1>3. task' = [task EXCEPT ![c.t].version = Flow!NextVersion(@)]
  BY DEF CommitTodo, Bump, NextVersion, Flow!NextVersion
<1>4. UNCHANGED <<revisions, transitions, proofs, questions, seen>>
  BY DEF CommitTodo, Committed
<1>5. Flow!CanBump(c.t)
  BY <1>1, BumpWrites, Bound DEF CommitTodo
<1>6. CASE /\ c.op = "add_todo" /\ c.d \notin DOMAIN todos
           /\ todos' = Flow!Put(todos, c.d, [task |-> c.t, done |-> FALSE,
                                             trashed |-> FALSE, version |-> 1])
  <2>1. Flow!GuardFreeze(c.t)
    BY <1>2, <1>6 DEF Kept
  <2>2. Flow!AddTodo(c.t, c.d)
    BY <1>3, <1>4, <1>5, <1>6, <2>1 DEF Flow!AddTodo
  <2> QED
    BY <1>1, <2>2 DEF Flow!Next
<1>7. ASSUME c.op \in {"tick", "trash_todo"}
      PROVE  /\ c.d \in DOMAIN todos /\ ~todos[c.d].trashed /\ todos[c.d].task = c.t
             /\ Flow!GuardFreeze(todos[c.d].task) /\ Flow!GuardFreeze(c.d)
  BY <1>2, <1>7 DEF Kept, KeptTodo
<1>8. CASE /\ c.op = "tick"
           /\ todos' = [todos EXCEPT ![c.d].done = c.done, ![c.d].version = @ + 1]
  <2>1. c.done \in BOOLEAN
    BY <1>8 DEF NewTodos, Ticks, TrashedTodos
  <2>2. Flow!FreshTodo(c.d, FALSE)
    BY DEF Flow!FreshTodo
  <2>3. Flow!TickTodo(c.d, c.done, FALSE)
    BY <1>3, <1>4, <1>5, <1>7, <1>8, <2>2 DEF Flow!TickTodo
  <2> QED
    BY <1>1, <2>1, <2>3 DEF Flow!Next
<1>9. CASE /\ c.op = "trash_todo"
           /\ todos' = [todos EXCEPT ![c.d].trashed = TRUE]
  <2>1. "human" \in Flow!Kinds
    BY DEF Flow!Kinds
  <2>2. Flow!TrashTodo(c.d, "human")
    BY <1>3, <1>4, <1>5, <1>7, <1>9 DEF Flow!TrashTodo
  <2> QED
    BY <1>1, <2>1, <2>2 DEF Flow!Next
<1> QED
  BY <1>6, <1>8, <1>9 DEF CommitTodo

\* A call on a proof link.
LEMMA ProofRefines ==
  ASSUME NEW c \in NewProofs \cup TrashedProofs, Kept(c),
         c.pc = "commit", NEW w \in Workers, CommitProof(w, c)
  PROVE  Flow!Next
<1>1. c.t \in Tasks /\ c.p \in Proofs
  BY DEF NewProofs, TrashedProofs
<1>2. UNCHANGED <<task, revisions, transitions, todos, questions, seen>>
  BY DEF CommitProof
<1>3. CASE /\ c.op = "add_proof" /\ c.p \notin DOMAIN proofs
           /\ proofs' = Flow!Put(proofs, c.p, [task |-> c.t, gate |-> c.gate,
                                               trashed |-> FALSE])
  <2>1. c \in Guarded /\ c.gate \in BOOLEAN /\ c.guards \in Guards
    BY <1>3 DEF NewProofs, TrashedProofs, Guarded
  <2>2. Flow!GuardFreeze(c.t)
    BY <1>3, <2>1, GuardsOfCall DEF Kept
  <2>3. Flow!AddProof(c.t, c.p, c.gate)
    BY <1>2, <1>3, <2>2 DEF Flow!AddProof
  <2> QED
    BY <1>1, <2>1, <2>3 DEF Flow!Next
<1>4. CASE c.op = "trash_proof" /\ proofs' = [proofs EXCEPT ![c.p].trashed = TRUE]
  <2>1. "human" \in Flow!Kinds
    BY DEF Flow!Kinds
  <2>2. Flow!TrashProof(c.p, "human")
    BY <1>2, <1>4 DEF Flow!TrashProof, Kept
  <2> QED
    BY <1>1, <2>1, <2>2 DEF Flow!Next
<1> QED
  BY <1>3, <1>4 DEF CommitProof

\* A question asked or closed.
LEMMA QuestionRefines ==
  ASSUME NEW c \in Working, Kept(c), c.pc = "commit", NEW w \in Workers,
         CommitQuestion(w, c)
  PROVE  Flow!Next
<1>1. UNCHANGED <<task, revisions, transitions, todos, proofs, seen>>
  BY DEF CommitQuestion, Committed
<1>2. CASE /\ c.op = "ask" /\ c.q \notin DOMAIN questions
           /\ questions' = Flow!Put(questions, c.q, [on |-> c.obj, open |-> TRUE])
  <2>1. c.q \in Questions /\ c.obj \in Tasks \cup Todos
    BY <1>2, OperationKinds DEF Asks, Objects
  <2>2. Flow!Ask(c.q, c.obj)
    BY <1>1, <1>2 DEF Flow!Ask, Kept
  <2> QED
    BY <2>1, <2>2 DEF Flow!Next
<1>3. CASE c.op = "resolve" /\ questions' = [questions EXCEPT ![c.q].open = FALSE]
  <2>1. c.q \in Questions
    BY <1>3, OperationKinds DEF Resolutions
  <2>2. Flow!Resolve(c.q)
    BY <1>1, <1>3 DEF Flow!Resolve, Kept
  <2> QED
    BY <2>1, <2>2 DEF Flow!Next
<1> QED
  BY <1>2, <1>3 DEF CommitQuestion

\* Every transaction.
LEMMA CommitRefines ==
  ASSUME TypeInv, KeptInv, NEW w \in Workers, Commit(w)
  PROVE  Flow!Next
<1> PICK c \in Calls : c = call[w]
  BY DEF TypeInv
<1>1. c.pc = "commit" /\ c \in Working /\ Kept(c)
  BY Stages DEF Commit, KeptInv, Pending
<1>2. \A t \in Tasks : task'[t].version <= MaxVersion
  BY DEF Commit
<1>3. CASE CommitTransition(w, c)
  BY <1>1, <1>2, <1>3, OperationKinds, TransitionRefines DEF CommitTransition
<1>4. CASE CommitEdit(w, c)
  BY <1>1, <1>2, <1>4, OperationKinds, EditRefines DEF CommitEdit
<1>5. CASE CommitTodo(w, c)
  <2>1. c \in NewTodos \cup Ticks \cup TrashedTodos
    BY <1>1, <1>5, OperationKinds DEF CommitTodo
  <2> QED
    BY <1>1, <1>2, <1>5, <2>1, TodoRefines
<1>6. CASE CommitProof(w, c)
  <2>1. c \in NewProofs \cup TrashedProofs
    BY <1>1, <1>6, OperationKinds DEF CommitProof
  <2> QED
    BY <1>1, <1>6, <2>1, ProofRefines
<1>7. CASE CommitQuestion(w, c)
  BY <1>1, <1>7, QuestionRefines
<1> QED
  BY <1>3, <1>4, <1>5, <1>6, <1>7 DEF Commit

\* After a transaction, an event or a note the only worker relies on nothing.
LEMMA NothingKept ==
  ASSUME TypeInv, Serial, NEW w \in Workers, NEW c, call' = [call EXCEPT ![w] = c],
         c.pc \notin Pending
  PROVE  KeptInv'
<1>1. \A v \in Workers : v = w
  BY DEF Serial
<1>2. call'[w] = c
  BY DEF TypeInv
<1> QED
  BY <1>1, <1>2 DEF KeptInv

\* With one worker every step keeps what the calls rely on.
LEMMA KeptStep ==
  ASSUME TypeInv, KeptInv, Serial, [Next]_vars
  PROVE  KeptInv'
<1>1. Idle.pc \notin Pending
  BY DEF Idle, Pending
<1>2. ASSUME NEW w \in Workers, Commit(w) PROVE KeptInv'
  <2>1. ASSUME NEW e, Announces(w, e) PROVE KeptInv'
    <3> DEFINE c == [pc |-> "emit", event |-> e]
    <3>1. c.pc \notin Pending /\ call' = [call EXCEPT ![w] = c]
      BY <2>1 DEF Pending, Announces
    <3> HIDE DEF c
    <3> QED
      BY <3>1, NothingKept
  <2> QED
    BY <1>1, <1>2, <2>1, CommitKinds, NothingKept DEF Moved, Written, Linked, Asked
<1>3. ASSUME NEW w \in Workers, Emit(w) PROVE KeptInv'
  <2> DEFINE c == AfterEmit(call[w].event)
  <2>1. c.pc \notin Pending
    BY <1>1 DEF AfterEmit, Pending
  <2>2. call' = [call EXCEPT ![w] = c]
    BY <1>3 DEF Emit, TypeInv
  <2> HIDE DEF c
  <2> QED
    BY <2>1, <2>2, NothingKept
<1>4. ASSUME NEW w \in Workers, Notify(w) PROVE KeptInv'
  BY <1>1, <1>4, NothingKept DEF Notify
<1>5. CASE Crash
  BY <1>1, <1>5 DEF Crash, KeptInv
<1>6. ASSUME UNCHANGED <<tables, call>> PROVE KeptInv'
  BY <1>6, KeptFrame DEF KeptInv
<1>7. ASSUME NEW t \in Tasks, ReadTask(t) PROVE UNCHANGED <<tables, call>>
  BY <1>7 DEF ReadTask, Flow!ReadTask, tables
<1>8. UNCHANGED vars => UNCHANGED <<tables, call>>
  BY DEF vars, tables
<1> QED
  BY <1>2, <1>3, <1>4, <1>5, <1>6, <1>7, <1>8, LoadKeeps, CheckKeeps DEF Next, Step

\* One step of the split calls is one step of the atomic ones, or none.
LEMMA StepRefines ==
  ASSUME TypeInv, KeptInv, [Next]_vars
  PROVE  [Flow!Next]_(Flow!vars)
<1>1. ASSUME UNCHANGED <<tables, seen>> PROVE UNCHANGED Flow!vars
  BY <1>1 DEF tables, Flow!vars
<1>2. ASSUME NEW w \in Workers, Load(w) PROVE UNCHANGED <<tables, seen>>
  BY <1>2, LoadChecks DEF Checks
<1>3. ASSUME NEW w \in Workers, Step(w) PROVE Flow!Next \/ UNCHANGED <<tables, seen>>
  BY <1>3, CommitRefines DEF Step, CheckFreeze, CheckGate, Emit, Notify
<1>4. ASSUME NEW t \in Tasks, ReadTask(t) PROVE Flow!Next
  BY <1>4 DEF ReadTask, Flow!Next
<1>5. Crash \/ UNCHANGED vars => UNCHANGED <<tables, seen>>
  BY DEF Crash, vars, tables
<1> QED
  BY <1>1, <1>2, <1>3, <1>4, <1>5 DEF Next

\* What a call relies on holds from its reads to its transaction.
LEMMA KeptHolds ==
  ASSUME Serial
  PROVE  Spec => [](TypeInv /\ KeptInv)
<1>1. Init => KeptInv
  BY DEF Init, KeptInv, Idle, Pending
<1>2. TypeInv /\ KeptInv /\ [Next]_vars => KeptInv'
  BY KeptStep
<1> QED
  BY <1>1, <1>2, TypesHold, PTL DEF Spec

\* One worker, any tasks, any crashes: reads outside any transaction and the one
\* transaction that follows them do, together, exactly what the atomic call of
\* TaskFlow does, or nothing; so everything proved of TaskFlow holds of the service.
THEOREM ServiceImplementsTaskFlow ==
  ASSUME Serial
  PROVE  Spec => ImplementsTaskFlow
<1>1. Init => Flow!Init
  BY DEF Init
<1>2. TypeInv /\ KeptInv /\ [Next]_vars => [Flow!Next]_(Flow!vars)
  BY StepRefines
<1> QED
  BY <1>1, <1>2, KeptHolds, PTL DEF Spec, ImplementsTaskFlow, Flow!Spec

----------------------------------------------------------------------------
(* Attention                                                                *)

\* The events that call for attention to a task in a state, the calls about to,
\* and how many there are of each and of the notes.
Arriving(t, s) == {e \in Events : NeedsAttention(e) /\ e.task = t /\ e.to = s}
Raising(t, s) == {c \in Announcements : c.pc = "notify" /\ c.event \in Arriving(t, s)}
Arrivals(t, s) == Cardinality(Where(events, Arriving(t, s)))
Raised(t, s) == Cardinality(Where(notifications, {[task |-> t, state |-> s]}))
InHand(t, s) == Cardinality(CallsIn(Raising(t, s)))

\* Only what needs attention is about to be noted, every note was announced, and
\* every announcement is noted, about to be, or was cut off by a crash.
OnlyAttention ==
  \A w \in Workers : call[w].pc = "notify" => NeedsAttention(call[w].event)
AttentionCounts(t, s) ==
  /\ IsFiniteSet(CallsIn(Raising(t, s)))
  /\ Raised(t, s) + InHand(t, s) <= Arrivals(t, s)
  /\ Arrivals(t, s) <= Raised(t, s) + InHand(t, s) + crashes
AttentionInv ==
  /\ OnlyAttention
  /\ \A t \in Tasks, s \in States : AttentionCounts(t, s)

\* The counts are numbers.
LEMMA AttentionNumbers ==
  ASSUME TypeInv, NEW t, NEW s
  PROVE  Arrivals(t, s) \in Nat /\ Raised(t, s) \in Nat
BY WhereFinite DEF TypeInv, Arrivals, Raised

\* What a step adds to the announcements is what it adds to the notes and to
\* the calls about to note.
LEMMA AttentionMoves ==
  ASSUME TypeInv, TypeInv', NEW w \in Workers, NEW c, call' = [call EXCEPT ![w] = c],
         crashes' = crashes, NEW t \in Tasks, NEW s \in States, AttentionCounts(t, s),
         Arrivals(t, s)' + Raised(t, s) + Count(call[w] \in Raising(t, s))
           = Arrivals(t, s) + Raised(t, s)' + Count(c \in Raising(t, s))
  PROVE  AttentionCounts(t, s)'
<1> DEFINE S == Raising(t, s)
<1>1. Arrivals(t, s)' \in Nat /\ Raised(t, s)' \in Nat
  BY WhereFinite DEF TypeInv, Arrivals, Raised
<1>2. /\ IsFiniteSet(CallsIn(S)) /\ call \in [Workers -> Calls]
  BY DEF AttentionCounts, TypeInv
<1> HIDE DEF S
<1>3. /\ IsFiniteSet(CallsIn(S)')
      /\ Cardinality(CallsIn(S)') + Count(call[w] \in S) = Cardinality(CallsIn(S)) + Count(c \in S)
      /\ Cardinality(CallsIn(S)) \in Nat /\ Cardinality(CallsIn(S)') \in Nat
  BY <1>2, CallsMoved
<1>4. Count(call[w] \in S) \in Nat /\ Count(c \in S) \in Nat
  BY DEF Count
<1>5. /\ InHand(t, s) = Cardinality(CallsIn(S)) /\ InHand(t, s)' = Cardinality(CallsIn(S)')
  BY DEF InHand, S
<1>6. /\ Raised(t, s) + InHand(t, s) <= Arrivals(t, s)
      /\ Arrivals(t, s) <= Raised(t, s) + InHand(t, s) + crashes
      /\ crashes \in Nat /\ Arrivals(t, s) \in Nat /\ Raised(t, s) \in Nat
  BY AttentionNumbers DEF AttentionCounts, TypeInv
<1>7. /\ Raised(t, s)' + InHand(t, s)' <= Arrivals(t, s)'
      /\ Arrivals(t, s)' <= Raised(t, s)' + InHand(t, s)' + crashes
  <2>1. ASSUME NEW a \in Nat, NEW r \in Nat, NEW h \in Nat, NEW k \in Nat, NEW b \in Nat,
               NEW q \in Nat, NEW i \in Nat, NEW x \in Nat, NEW y \in Nat,
               i + x = h + y, b + r + x = a + q + y, r + h <= a, a <= r + h + k
        PROVE  q + i <= b /\ b <= q + i + k
    BY <2>1
  <2> QED
    BY <1>1, <1>3, <1>4, <1>5, <1>6, <2>1 DEF S
<1> QED
  BY <1>3, <1>7 DEF AttentionCounts, S

\* Starting, checking and committing neither announce an arrival nor note one.
LEMMA AttentionFrame ==
  ASSUME TypeInv, TypeInv', NEW w \in Workers, NEW c, call' = [call EXCEPT ![w] = c],
         UNCHANGED <<notifications, crashes>>, call[w].pc # "notify", c.pc # "notify",
         \/ UNCHANGED events
         \/ \E e \in Events : events' = Append(events, e) /\ ~NeedsAttention(e),
         AttentionInv
  PROVE  AttentionInv'
<1>1. OnlyAttention'
  BY DEF OnlyAttention, AttentionInv, TypeInv
<1>2. ASSUME NEW t \in Tasks, NEW s \in States PROVE AttentionCounts(t, s)'
  <2>1. Raised(t, s)' = Raised(t, s)
    BY DEF Raised, Where
  <2>2. Arrivals(t, s)' = Arrivals(t, s)
    <3>1. CASE UNCHANGED events
      BY <3>1 DEF Arrivals, Where
    <3>2. ASSUME NEW e \in Events, events' = Append(events, e), ~NeedsAttention(e)
          PROVE  Arrivals(t, s)' = Arrivals(t, s)
      <4>1. e \notin Arriving(t, s)
        BY <3>2 DEF Arriving
      <4>2. Cardinality(Where(events', Arriving(t, s)))
              = Cardinality(Where(events, Arriving(t, s))) + 0
        BY <3>2, <4>1, WhereAppended DEF TypeInv, Count
      <4>3. /\ Arrivals(t, s)' = Cardinality(Where(events', Arriving(t, s)))
            /\ Arrivals(t, s) = Cardinality(Where(events, Arriving(t, s)))
        BY DEF Arrivals, Where
      <4> QED
        BY <4>2, <4>3, AttentionNumbers
    <3> QED
      BY <3>1, <3>2
  <2>3. Count(call[w] \in Raising(t, s)) = 0 /\ Count(c \in Raising(t, s)) = 0
    BY DEF Raising, Count
  <2>4. AttentionCounts(t, s) /\ Arrivals(t, s) \in Nat /\ Raised(t, s) \in Nat
    BY AttentionNumbers DEF AttentionInv
  <2> QED
    BY <2>1, <2>2, <2>3, <2>4, AttentionMoves
<1> QED
  BY <1>1, <1>2 DEF AttentionInv

\* An event that needs attention is noted next.
LEMMA AttentionEmit ==
  ASSUME TypeInv, TypeInv', AttentionInv, NEW w \in Workers, Emit(w)
  PROVE  AttentionInv'
<1> PICK e \in Events : e = call[w].event /\ call[w] \in Announcements
  BY AnnouncementFacts DEF Emit
<1> DEFINE c == AfterEmit(e)
<1>1. /\ call[w].pc = "emit" /\ call' = [call EXCEPT ![w] = c]
      /\ events' = Append(events, e) /\ UNCHANGED <<notifications, crashes>>
  BY DEF Emit, TypeInv
<1>2. c.pc = "notify" => NeedsAttention(e) /\ c.event = e
  BY DEF AfterEmit, Idle
<1>3. OnlyAttention'
  <2>1. \A v \in Workers : call'[v] = IF v = w THEN c ELSE call[v]
    BY <1>1 DEF TypeInv
  <2> HIDE DEF c
  <2> QED
    BY <1>2, <2>1 DEF OnlyAttention, AttentionInv
<1>4. ASSUME NEW t \in Tasks, NEW s \in States PROVE AttentionCounts(t, s)'
  <2>1. call[w] \notin Raising(t, s)
    BY <1>1 DEF Raising
  <2>2. c \in Raising(t, s) <=> e \in Arriving(t, s)
    <3>1. CASE NeedsAttention(e)
      BY <3>1 DEF AfterEmit, Raising, Announcements
    <3>2. CASE ~NeedsAttention(e)
      BY <3>2 DEF AfterEmit, Raising, Arriving, Idle
    <3> QED
      BY <3>1, <3>2
  <2> HIDE DEF c
  <2>3. Raised(t, s)' = Raised(t, s)
    BY <1>1 DEF Raised, Where
  <2>4. Cardinality(Where(events', Arriving(t, s)))
          = Cardinality(Where(events, Arriving(t, s))) + Count(e \in Arriving(t, s))
    BY <1>1, WhereAppended DEF TypeInv
  <2>5. /\ Arrivals(t, s)' = Cardinality(Where(events', Arriving(t, s)))
        /\ Arrivals(t, s) = Cardinality(Where(events, Arriving(t, s)))
    BY DEF Arrivals, Where
  <2>6. Count(call[w] \in Raising(t, s)) = 0
        /\ Count(c \in Raising(t, s)) = Count(e \in Arriving(t, s))
        /\ Count(e \in Arriving(t, s)) \in Nat
    BY <2>1, <2>2 DEF Count
  <2>7. Arrivals(t, s)' + Raised(t, s) + Count(call[w] \in Raising(t, s))
          = Arrivals(t, s) + Raised(t, s)' + Count(c \in Raising(t, s))
    <3>1. Arrivals(t, s) \in Nat /\ Raised(t, s) \in Nat
      BY AttentionNumbers
    <3>2. ASSUME NEW a \in Nat, NEW r \in Nat, NEW k \in Nat
          PROVE  a + k + r + 0 = a + r + k
      OBVIOUS
    <3> QED
      BY <2>3, <2>4, <2>5, <2>6, <3>1, <3>2
  <2> QED
    BY <1>1, <2>7, AttentionMoves DEF AttentionInv
<1> QED
  BY <1>3, <1>4 DEF AttentionInv

\* A note is one call fewer that is about to note.
LEMMA AttentionNotify ==
  ASSUME TypeInv, TypeInv', AttentionInv, NEW w \in Workers, Notify(w)
  PROVE  AttentionInv'
<1> PICK e \in Events : e = call[w].event /\ call[w] \in Announcements
  BY AnnouncementFacts DEF Notify
<1> DEFINE note == [task |-> e.task, state |-> e.to]
<1>1. /\ call[w].pc = "notify" /\ call' = [call EXCEPT ![w] = Idle]
      /\ notifications' = Append(notifications, note) /\ UNCHANGED <<events, crashes>>
  BY DEF Notify, tables
<1>2. NeedsAttention(e)
  BY <1>1 DEF AttentionInv, OnlyAttention
<1>3. OnlyAttention'
  BY <1>1 DEF TypeInv, OnlyAttention, AttentionInv, Idle
<1>4. /\ notifications \in Seq([task : Tasks \cup {NoState}, state : Requests \cup {NoState}])
      /\ note \in [task : Tasks \cup {NoState}, state : Requests \cup {NoState}]
  BY DEF TypeInv, Events
<1>5. ASSUME NEW t \in Tasks, NEW s \in States PROVE AttentionCounts(t, s)'
  <2> DEFINE S == {[task |-> t, state |-> s]}
  <2>1. call[w] \in Raising(t, s) <=> note \in S
    BY <1>1, <1>2 DEF Raising, Arriving
  <2>2. Idle \notin Raising(t, s)
    BY DEF Raising, Idle
  <2>3. Arrivals(t, s)' = Arrivals(t, s)
    BY <1>1 DEF Arrivals, Where
  <2> HIDE DEF S, note
  <2>4. Cardinality(Where(notifications', S))
          = Cardinality(Where(notifications, S)) + Count(note \in S)
    BY <1>1, <1>4, WhereAppended
  <2>5. /\ Raised(t, s)' = Cardinality(Where(notifications', S))
        /\ Raised(t, s) = Cardinality(Where(notifications, S))
    BY DEF Raised, Where, S
  <2>6. /\ Count(Idle \in Raising(t, s)) = 0
        /\ Count(call[w] \in Raising(t, s)) = Count(note \in S)
        /\ Count(note \in S) \in Nat
    BY <2>1, <2>2 DEF Count
  <2>7. Arrivals(t, s)' + Raised(t, s) + Count(call[w] \in Raising(t, s))
          = Arrivals(t, s) + Raised(t, s)' + Count(Idle \in Raising(t, s))
    <3>1. Arrivals(t, s) \in Nat /\ Raised(t, s) \in Nat
      BY AttentionNumbers
    <3>2. ASSUME NEW a \in Nat, NEW r \in Nat, NEW k \in Nat
          PROVE  a + r + k = a + (r + k) + 0
      OBVIOUS
    <3> QED
      BY <2>3, <2>4, <2>5, <2>6, <3>1, <3>2
  <2> QED
    BY <1>1, <2>7, AttentionMoves DEF AttentionInv
<1> QED
  BY <1>3, <1>5 DEF AttentionInv

\* What one worker was about to do is at most one call.
LEMMA AtMostOneCall ==
  ASSUME Serial, NEW S
  PROVE  IsFiniteSet(CallsIn(S)) /\ Cardinality(CallsIn(S)) \in {0, 1}
<1> PICK w \in Workers : Workers = {w}
  BY DEF Serial
<1>1. CallsIn(S) = {} \/ CallsIn(S) = {w}
  BY DEF CallsIn
<1> QED
  BY <1>1, FS_EmptySet, FS_Singleton

\* A crash cuts off at most one note, and everybody is idle after it.
LEMMA AttentionCrash ==
  ASSUME TypeInv, Serial, AttentionInv, Crash
  PROVE  AttentionInv'
<1>1. /\ crashes' = crashes + 1 /\ call' = [w \in Workers |-> Idle]
      /\ UNCHANGED <<events, notifications>>
  BY DEF Crash
<1>2. OnlyAttention'
  BY <1>1 DEF OnlyAttention, Idle
<1>3. ASSUME NEW t \in Tasks, NEW s \in States PROVE AttentionCounts(t, s)'
  <2>1. CallsIn(Raising(t, s))' = {}
    BY <1>1 DEF CallsIn, Raising, Idle
  <2>2. IsFiniteSet(CallsIn(Raising(t, s))') /\ InHand(t, s)' = 0
    BY <2>1, FS_EmptySet DEF InHand
  <2>3. Arrivals(t, s)' = Arrivals(t, s) /\ Raised(t, s)' = Raised(t, s)
    BY <1>1 DEF Arrivals, Raised, Where
  <2>4. InHand(t, s) \in {0, 1}
    BY AtMostOneCall DEF InHand
  <2>5. /\ Raised(t, s) + InHand(t, s) <= Arrivals(t, s)
        /\ Arrivals(t, s) <= Raised(t, s) + InHand(t, s) + crashes
        /\ crashes \in Nat /\ Arrivals(t, s) \in Nat /\ Raised(t, s) \in Nat
    BY AttentionNumbers DEF AttentionInv, AttentionCounts, TypeInv
  <2>6. /\ Raised(t, s) + 0 <= Arrivals(t, s)
        /\ Arrivals(t, s) <= Raised(t, s) + 0 + (crashes + 1)
    BY <2>4, <2>5
  <2> QED
    BY <1>1, <2>2, <2>3, <2>6 DEF AttentionCounts
<1> QED
  BY <1>2, <1>3 DEF AttentionInv

\* With one worker every step keeps the account of the notes.
LEMMA AttentionStep ==
  ASSUME TypeInv, Serial, AttentionInv, [Next]_vars
  PROVE  AttentionInv'
<1>1. TypeInv' /\ Steps
  BY TypeStep
<1>2. Idle.pc # "notify"
  BY DEF Idle
<1>3. ASSUME NEW w \in Workers, Checks(w) PROVE AttentionInv'
  <2>1. PICK c \in Calls :
          /\ call[w].pc \in {"idle", "guards"} /\ c.pc \in {"idle", "guards", "commit", "emit"}
          /\ call' = [call EXCEPT ![w] = c] /\ UNCHANGED <<events, notifications, crashes>>
    BY <1>3 DEF Checks
  <2> QED
    BY <1>1, <2>1, AttentionFrame
<1>4. ASSUME NEW w \in Workers, Commit(w) PROVE AttentionInv'
  <2>1. call[w].pc # "notify" /\ (Moved(w) \/ Written(w) \/ Linked(w) \/ Asked(w))
    BY <1>4, CommitKinds
  <2>2. ASSUME NEW e, Announces(w, e) PROVE AttentionInv'
    <3> DEFINE c == [pc |-> "emit", event |-> e]
    <3>1. /\ c.pc # "notify" /\ call' = [call EXCEPT ![w] = c]
          /\ UNCHANGED <<events, notifications, crashes>>
      BY <2>2 DEF Announces
    <3> HIDE DEF c
    <3> QED
      BY <1>1, <2>1, <3>1, AttentionFrame
  <2>3. CASE Linked(w)
    <3>1. PICK t \in Tasks : /\ events' = Append(events, Announce("proof", t))
                             /\ call' = [call EXCEPT ![w] = Idle]
                             /\ UNCHANGED <<notifications, crashes>>
      BY <2>3 DEF Linked
    <3>2. Announce("proof", t) \in Events /\ ~NeedsAttention(Announce("proof", t))
      BY EventTypes DEF Announce, Event, Verbs, NeedsAttention
    <3> QED
      BY <1>1, <1>2, <2>1, <3>1, <3>2, AttentionFrame
  <2> QED
    BY <2>1, <2>2, <2>3 DEF Moved, Written, Asked
<1>5. ASSUME UNCHANGED <<tables, events, notifications, call, crashes>> PROVE AttentionInv'
  BY <1>5 DEF AttentionInv, OnlyAttention, AttentionCounts, Arrivals, Raised, InHand,
              Where, CallsIn
<1> QED
  BY <1>1, <1>3, <1>4, <1>5, AttentionEmit, AttentionNotify, AttentionCrash DEF Steps

\* With one worker, every announced arrival in proposed or review has called for a
\* human's attention and nothing else has, but for the call in progress and at most
\* one for every crash: the note follows its event, and is lost only between the two.
THEOREM AttentionIsAlwaysRaised ==
  ASSUME Serial
  PROVE  Spec => []AttentionIsRaised
<1>1. Init => AttentionInv
  <2> SUFFICES ASSUME Init PROVE AttentionInv
    OBVIOUS
  <2>1. OnlyAttention
    BY DEF Init, OnlyAttention, Idle
  <2>2. ASSUME NEW t \in Tasks, NEW s \in States PROVE AttentionCounts(t, s)
    <3>1. CallsIn(Raising(t, s)) = {}
      BY NobodyCalls DEF Raising, Idle
    <3>2. Arrivals(t, s) = Cardinality({}) /\ Raised(t, s) = Cardinality({})
      BY DEF Init, Arrivals, Raised, Where
    <3> QED
      BY <3>1, <3>2, FS_EmptySet DEF AttentionCounts, InHand, Init
  <2> QED
    BY <2>1, <2>2 DEF AttentionInv
<1>2. TypeInv /\ AttentionInv /\ [Next]_vars => AttentionInv'
  BY AttentionStep
<1>3. TypeInv /\ AttentionInv => AttentionIsRaised
  <2> SUFFICES ASSUME TypeInv, AttentionInv, NEW t \in Tasks, NEW s \in States
               PROVE
      LET arrivals == {i \in DOMAIN events : /\ events[i].verb = "task.transitioned"
                                             /\ events[i].task = t
                                             /\ events[i].to = s
                                             /\ s \in {"proposed", "review"}}
          raised == {i \in DOMAIN notifications :
                       notifications[i] = [task |-> t, state |-> s]}
          raising == {w \in Workers : call[w].pc = "notify"}
      IN /\ Cardinality(raised) <= Cardinality(arrivals)
         /\ Cardinality(arrivals) <=
              Cardinality(raised) + Cardinality(raising) + crashes
    BY DEF AttentionIsRaised
  <2> DEFINE arrivals == {i \in DOMAIN events : /\ events[i].verb = "task.transitioned"
                                                /\ events[i].task = t
                                                /\ events[i].to = s
                                                /\ s \in {"proposed", "review"}}
             raised == {i \in DOMAIN notifications :
                          notifications[i] = [task |-> t, state |-> s]}
             raising == {w \in Workers : call[w].pc = "notify"}
  <2>1. arrivals = Where(events, Arriving(t, s))
    <3>1. \A i \in DOMAIN events : events[i] \in Events
      BY DEF TypeInv
    <3> QED
      BY <3>1 DEF Where, Arriving, NeedsAttention
  <2>2. raised = Where(notifications, {[task |-> t, state |-> s]})
    BY DEF Where
  <2>3. IsFiniteSet(raising) /\ Cardinality(raising) \in Nat
    <3> PICK w \in Workers : Workers = {w}
      BY DEF Serial
    <3>1. raising = {} \/ raising = {w}
      OBVIOUS
    <3> HIDE DEF raising
    <3>2. /\ IsFiniteSet({}) /\ Cardinality({}) = 0
          /\ IsFiniteSet({w}) /\ Cardinality({w}) = 1
      BY FS_EmptySet, FS_Singleton
    <3> QED
      BY <3>1, <3>2
  <2>4. CallsIn(Raising(t, s)) \subseteq raising
    BY DEF CallsIn, Raising
  <2> HIDE DEF arrivals, raised, raising
  <2>5. InHand(t, s) <= Cardinality(raising) /\ InHand(t, s) \in Nat
    BY <2>3, <2>4, FS_Subset, FS_CardinalityType DEF InHand
  <2>6. /\ Cardinality(arrivals) = Arrivals(t, s) /\ Cardinality(raised) = Raised(t, s)
        /\ Arrivals(t, s) \in Nat /\ Raised(t, s) \in Nat /\ crashes \in Nat
    BY <2>1, <2>2, AttentionNumbers DEF Arrivals, Raised, TypeInv
  <2>7. /\ Raised(t, s) + InHand(t, s) <= Arrivals(t, s)
        /\ Arrivals(t, s) <= Raised(t, s) + InHand(t, s) + crashes
    BY DEF AttentionInv, AttentionCounts
  <2>8. /\ Cardinality(raised) <= Cardinality(arrivals)
        /\ Cardinality(arrivals) <= Cardinality(raised) + Cardinality(raising) + crashes
    BY <2>3, <2>5, <2>6, <2>7
  <2> QED
    BY <2>8 DEF arrivals, raised, raising
<1> QED
  BY <1>1, <1>2, <1>3, TypesHold, PTL DEF Spec

----------------------------------------------------------------------------
(* Events and log                                                           *)

\* A worker about to announce a transition announces the last entry of the log,
\* and those announced before are earlier ones.
Matches(t, f) ==
  /\ \A i \in Announced(t) : Tells(events[i], transitions[t][f[i]])
  /\ \A i, j \in Announced(t) : i < j => f[i] < f[j]
  /\ Announcing(t) # {} => \A i \in Announced(t) : f[i] < Len(transitions[t])
Follows(t) ==
  /\ \E f \in [Announced(t) -> DOMAIN transitions[t]] : Matches(t, f)
  /\ \A w \in Announcing(t) :
       /\ transitions[t] # <<>>
       /\ Tells(call[w].event, transitions[t][Len(transitions[t])])
  /\ Len(transitions[t]) <= Cardinality(Announced(t)) + Cardinality(Announcing(t)) + crashes

IsMove(t, e) == e.verb = "task.transitioned" /\ e.task = t

\* The announced transitions are finitely many, and so are those of one worker
\* about to announce one.
LEMMA AnnouncedFinite ==
  ASSUME TypeInv, NEW t
  PROVE  IsFiniteSet(Announced(t)) /\ Cardinality(Announced(t)) \in Nat
<1>1. Len(events) \in Nat /\ DOMAIN events = 1 .. Len(events)
  BY DEF TypeInv
<1>2. Announced(t) \subseteq 1 .. Len(events)
  BY <1>1 DEF Announced
<1>3. IsFiniteSet(1 .. Len(events))
  BY <1>1, FS_Interval
<1>4. IsFiniteSet(Announced(t))
  BY <1>2, <1>3, FS_Subset
<1> QED
  BY <1>4, FS_CardinalityType

\* Only one call can be announcing, and the worker that is announces that.
LEMMA AnnouncingFacts ==
  ASSUME Serial, NEW w \in Workers, NEW t
  PROVE  /\ Announcing(t) = IF call[w].pc = "emit" /\ IsMove(t, call[w].event)
                            THEN {w} ELSE {}
         /\ Cardinality(Announcing(t)) = IF call[w].pc = "emit" /\ IsMove(t, call[w].event)
                                         THEN 1 ELSE 0
<1>1. \A v \in Workers : v = w
  BY DEF Serial
<1>2. Announcing(t) = IF call[w].pc = "emit" /\ IsMove(t, call[w].event) THEN {w} ELSE {}
  BY <1>1 DEF Announcing, IsMove
<1>3. Cardinality({w}) = 1 /\ Cardinality({}) = 0
  BY FS_EmptySet, FS_Singleton
<1> QED
  BY <1>2, <1>3

\* An event more is one announced transition more, or none.
LEMMA AnnouncedAppended ==
  ASSUME TypeInv, NEW e \in Events, events' = Append(events, e), NEW t
  PROVE  LET n == Len(events) + 1 IN
         /\ Announced(t)' = IF IsMove(t, e) THEN Announced(t) \cup {n} ELSE Announced(t)
         /\ n \notin Announced(t) /\ events'[n] = e
         /\ \A i \in Announced(t) : i < n /\ events'[i] = events[i]
<1>1. /\ Len(events) \in Nat /\ DOMAIN events = 1 .. Len(events)
      /\ DOMAIN events' = DOMAIN events \cup {Len(events) + 1}
      /\ Len(events) + 1 \notin DOMAIN events
      /\ events'[Len(events) + 1] = e
      /\ \A i \in DOMAIN events : events'[i] = events[i]
  BY AppendFacts DEF TypeInv
<1>2. \A i \in DOMAIN events : i < Len(events) + 1
  BY <1>1
<1> QED
  BY <1>1, <1>2 DEF Announced, IsMove

\* Nothing is being announced any more, and nothing has been announced of t.
LEMMA FollowsQuiet ==
  ASSUME TypeInv, NEW t \in Tasks, Follows(t), transitions'[t] = transitions[t],
         Announced(t)' = Announced(t), \A i \in Announced(t) : events'[i] = events[i],
         Announcing(t)' = {}, Cardinality(Announcing(t)) \in Nat, crashes' \in Nat,
         Cardinality(Announcing(t)) + crashes <= crashes'
  PROVE  Follows(t)'
<1>1. PICK f \in [Announced(t) -> DOMAIN transitions[t]] : Matches(t, f)
  BY DEF Follows
<1>2. Matches(t, f)'
  BY <1>1 DEF Matches
<1>3. Len(transitions'[t]) <=
        Cardinality(Announced(t)') + Cardinality(Announcing(t)') + crashes'
  <2>1. /\ Cardinality(Announcing(t)') = 0 /\ Cardinality(Announced(t)) \in Nat
        /\ crashes \in Nat /\ Len(transitions[t]) \in Nat
    BY FS_EmptySet, AnnouncedFinite DEF TypeInv
  <2>2. Len(transitions[t]) <= Cardinality(Announced(t)) + Cardinality(Announcing(t)) + crashes
    BY DEF Follows
  <2> QED
    BY <2>1, <2>2
<1> QED
  BY <1>1, <1>2, <1>3 DEF Follows

\* A transition is committed, and about to be announced.
LEMMA FollowsMove ==
  ASSUME TypeInv, NEW t \in Tasks, Follows(t), NEW entry \in LogRow,
         transitions'[t] = Append(transitions[t], entry), UNCHANGED <<events, crashes>>,
         Announcing(t) = {}, NEW w \in Workers, Announcing(t)' = {w},
         Tells(call'[w].event, entry)
  PROVE  Follows(t)'
<1> DEFINE log == transitions[t]
           n == Len(log)
<1>1. /\ log \in Seq(LogRow) /\ n \in Nat /\ crashes \in Nat
      /\ Cardinality(Announced(t)) \in Nat
  BY AnnouncedFinite DEF TypeInv
<1>2. /\ Len(transitions'[t]) = n + 1 /\ DOMAIN log = 1 .. n
      /\ DOMAIN transitions'[t] = DOMAIN log \cup {n + 1}
      /\ transitions'[t][n + 1] = entry
      /\ \A i \in DOMAIN log : transitions'[t][i] = log[i]
  BY <1>1, AppendFacts
<1>3. PICK f \in [Announced(t) -> DOMAIN log] : Matches(t, f)
  BY DEF Follows
<1>4. Announced(t)' = Announced(t)
  BY DEF Announced
<1>5. Matches(t, f)'
  <2>1. \A i \in Announced(t) : f[i] \in DOMAIN log /\ f[i] < n + 1
    BY <1>1, <1>2, <1>3
  <2> HIDE DEF n, log
  <2> QED
    BY <1>2, <1>3, <1>4, <2>1 DEF Matches, log
<1>6. f \in [Announced(t)' -> DOMAIN transitions'[t]]
  BY <1>2, <1>3, <1>4
<1>7. n + 1 <= Cardinality(Announced(t)') + Cardinality(Announcing(t)') + crashes'
  <2>1. Cardinality(Announcing(t)') = 1 /\ Cardinality(Announcing(t)) = 0
    BY FS_EmptySet, FS_Singleton
  <2>2. n <= Cardinality(Announced(t)) + Cardinality(Announcing(t)) + crashes
    BY DEF Follows
  <2>3. crashes' = crashes
    OBVIOUS
  <2> HIDE DEF n
  <2> QED
    BY <1>1, <1>4, <2>1, <2>2, <2>3
<1>8. transitions'[t] # <<>>
  BY <1>1, <1>2
<1> QED
  BY <1>2, <1>5, <1>6, <1>7, <1>8 DEF Follows

\* The transition just committed is announced.
LEMMA FollowsEmit ==
  ASSUME TypeInv, NEW t \in Tasks, Follows(t), NEW w \in Workers,
         NEW e \in Events, e = call[w].event, IsMove(t, e), events' = Append(events, e),
         transitions'[t] = transitions[t], crashes' = crashes,
         Announcing(t) = {w}, Announcing(t)' = {}
  PROVE  Follows(t)'
<1> DEFINE n == Len(events) + 1
           log == transitions[t]
           last == Len(log)
<1>1. /\ Announced(t)' = Announced(t) \cup {n}
      /\ n \notin Announced(t) /\ events'[n] = e
      /\ \A i \in Announced(t) : i < n /\ events'[i] = events[i]
  BY AnnouncedAppended
<1>2. /\ log \in Seq(LogRow) /\ last \in Nat /\ crashes \in Nat
      /\ DOMAIN log = 1 .. last
      /\ IsFiniteSet(Announced(t)) /\ Cardinality(Announced(t)) \in Nat
  BY AnnouncedFinite DEF TypeInv
<1>3. log # <<>> /\ Tells(e, log[last])
  BY DEF Follows
<1>4. last \in DOMAIN log
  BY <1>2, <1>3
<1>5. PICK f \in [Announced(t) -> DOMAIN log] : Matches(t, f)
  BY DEF Follows
<1>6. /\ \A i \in Announced(t) : Tells(events[i], log[f[i]]) /\ f[i] < last
      /\ \A i, j \in Announced(t) : i < j => f[i] < f[j]
  BY <1>5 DEF Matches
<1>7. n \in Nat /\ \A i \in Announced(t) : i \in Nat
  BY DEF TypeInv, Announced
<1> HIDE DEF n, last
<1>8. PICK g \in [Announced(t) \cup {n} -> DOMAIN log] :
        g[n] = last /\ \A i \in Announced(t) : g[i] = f[i] /\ i # n
  <2> DEFINE h == [i \in Announced(t) \cup {n} |-> IF i = n THEN last ELSE f[i]]
  <2>1. h \in [Announced(t) \cup {n} -> DOMAIN log]
    BY <1>4, <1>5
  <2> QED
    BY <1>1, <2>1
<1>9. g \in [Announced(t)' -> DOMAIN transitions'[t]]
  BY <1>1
<1>10. Matches(t, g)'
  <2>1. \A i \in Announced(t)' : Tells(events'[i], transitions'[t][g[i]])
    BY <1>1, <1>3, <1>6, <1>8
  <2>2. ASSUME NEW i \in Announced(t)', NEW j \in Announced(t)', i < j
        PROVE  g[i] < g[j]
    <3>1. i # n
      BY <1>1, <1>7, <2>2
    <3> QED
      BY <1>1, <1>6, <1>8, <2>2, <3>1
  <2> QED
    BY <2>1, <2>2 DEF Matches, Tells
<1>11. last <= Cardinality(Announced(t)') + Cardinality(Announcing(t)') + crashes'
  <2>1. Cardinality(Announcing(t)') = 0 /\ Cardinality(Announcing(t)) = 1
    BY FS_EmptySet, FS_Singleton
  <2>2. Cardinality(Announced(t)') = Cardinality(Announced(t)) + 1
    BY <1>1, <1>2, FS_AddElement
  <2>3. last <= Cardinality(Announced(t)) + Cardinality(Announcing(t)) + crashes
    BY DEF Follows, last
  <2> QED
    BY <1>2, <2>1, <2>2, <2>3
<1> QED
  BY <1>9, <1>10, <1>11 DEF Follows, Tells, last

\* The same of the next state.
LEMMA AnnouncingNext ==
  ASSUME Serial, NEW w \in Workers, NEW t
  PROVE  Announcing(t)' = IF call'[w].pc = "emit" /\ IsMove(t, call'[w].event)
                          THEN {w} ELSE {}
<1>1. \A v \in Workers : v = w
  BY DEF Serial
<1> QED
  BY <1>1 DEF Announcing, IsMove

\* An event that is no transition of t is appended, or none is.
LEMMA OtherEvent ==
  ASSUME TypeInv, NEW t,
         \/ UNCHANGED events
         \/ \E e \in Events : events' = Append(events, e) /\ ~IsMove(t, e)
  PROVE  Announced(t)' = Announced(t) /\ \A i \in Announced(t) : events'[i] = events[i]
<1>1. CASE UNCHANGED events
  BY <1>1 DEF Announced
<1>2. ASSUME NEW e \in Events, events' = Append(events, e), ~IsMove(t, e)
      PROVE  Announced(t)' = Announced(t) /\ \A i \in Announced(t) : events'[i] = events[i]
  BY <1>2, AnnouncedAppended
<1> QED
  BY <1>1, <1>2

\* The worker was not announcing, and announces no transition of t.
LEMMA FollowsFrame ==
  ASSUME TypeInv, TypeInv', Serial, NEW w \in Workers, NEW c, call' = [call EXCEPT ![w] = c],
         NEW t \in Tasks, Follows(t), transitions'[t] = transitions[t], crashes' = crashes,
         \/ UNCHANGED events
         \/ \E e \in Events : events' = Append(events, e) /\ ~IsMove(t, e),
         call[w].pc = "emit" => ~IsMove(t, call[w].event),
         c.pc = "emit" => ~IsMove(t, c.event)
  PROVE  Follows(t)'
<1>1. call'[w] = c
  BY DEF TypeInv
<1>2. Announcing(t) = {} /\ Announcing(t)' = {} /\ Cardinality(Announcing(t)) = 0
  BY <1>1, AnnouncingFacts, AnnouncingNext
<1>3. crashes' \in Nat /\ Cardinality(Announcing(t)) + crashes <= crashes'
  BY <1>2 DEF TypeInv
<1>4. Announced(t)' = Announced(t) /\ \A i \in Announced(t) : events'[i] = events[i]
  BY OtherEvent
<1>5. Cardinality(Announcing(t)) \in Nat
  BY <1>2
<1> QED
  BY <1>2, <1>3, <1>4, <1>5, FollowsQuiet

\* With one worker every step keeps the events after the log.
LEMMA FollowsStep ==
  ASSUME TypeInv, Serial, NEW t \in Tasks, Follows(t), [Next]_vars
  PROVE  Follows(t)'
<1>1. TypeInv' /\ Steps
  BY TypeStep
<1>2. Idle.pc # "emit"
  BY DEF Idle
<1>3. ASSUME NEW w \in Workers, Checks(w) PROVE Follows(t)'
  <2>1. PICK c \in Calls :
          /\ call[w].pc \in {"idle", "guards"}
          /\ c.pc = "emit" => c.event.verb = "task.transition_denied"
          /\ call' = [call EXCEPT ![w] = c] /\ UNCHANGED <<tables, events, crashes>>
    BY <1>3 DEF Checks
  <2>2. c.pc = "emit" => ~IsMove(t, c.event)
    BY <2>1 DEF IsMove
  <2>3. transitions'[t] = transitions[t]
    BY <2>1 DEF tables
  <2> QED
    BY <1>1, <2>1, <2>2, <2>3, FollowsFrame
<1>4. ASSUME NEW w \in Workers, Commit(w) PROVE Follows(t)'
  <2>1. call[w].pc = "commit" /\ (Moved(w) \/ Written(w) \/ Linked(w) \/ Asked(w))
    BY <1>4, CommitKinds
  <2>2. ASSUME NEW e, Announces(w, e), ~IsMove(t, e), transitions'[t] = transitions[t]
        PROVE  Follows(t)'
    <3> DEFINE c == [pc |-> "emit", event |-> e]
    <3>1. /\ c.event = e /\ call' = [call EXCEPT ![w] = c]
          /\ UNCHANGED <<events, notifications, crashes>>
      BY <2>2 DEF Announces
    <3> HIDE DEF c
    <3> QED
      BY <1>1, <2>1, <2>2, <3>1, FollowsFrame
  <2>3. CASE Moved(w)
    <3>1. PICK x \in Tasks, entry \in LogRow :
            /\ transitions' = [transitions EXCEPT ![x] = Append(@, entry)]
            /\ Announces(w, Event("task.transitioned", x, entry.from, entry.to))
      BY <2>3 DEF Moved
    <3> DEFINE e == Event("task.transitioned", x, entry.from, entry.to)
    <3>2. /\ e.task = x /\ e.verb = "task.transitioned" /\ Tells(e, entry)
          /\ Announces(w, e)
      BY <3>1 DEF Event, Tells
    <3> HIDE DEF e
    <3>3. /\ transitions \in [Tasks -> Seq(LogRow)] /\ call \in [Workers -> Calls]
      BY DEF TypeInv
    <3>4. CASE x = t
      <4>1. transitions'[t] = Append(transitions[t], entry) /\ UNCHANGED <<events, crashes>>
        BY <3>1, <3>3, <3>4 DEF Announces
      <4>2. call'[w].pc = "emit" /\ call'[w].event = e
        BY <3>2, <3>3 DEF Announces
      <4>3. Announcing(t) = {} /\ Announcing(t)' = {w}
        BY <2>1, <3>2, <3>4, <4>2, AnnouncingFacts, AnnouncingNext DEF IsMove
      <4> QED
        BY <3>2, <4>1, <4>2, <4>3, FollowsMove
    <3>5. CASE x # t
      <4>1. transitions'[t] = transitions[t] /\ ~IsMove(t, e)
        BY <3>1, <3>2, <3>3, <3>5 DEF IsMove
      <4> QED
        BY <2>2, <3>2, <4>1
    <3> QED
      BY <3>4, <3>5
  <2>4. CASE Written(w)
    <3>1. PICK x \in Tasks, verb \in {"task.edited", "todo"} :
            UNCHANGED transitions /\ Announces(w, Announce(verb, x))
      BY <2>4 DEF Written
    <3>2. ~IsMove(t, Announce(verb, x))
      BY DEF Announce, Event, IsMove
    <3> QED
      BY <2>2, <3>1, <3>2
  <2>5. CASE Asked(w)
    <3>1. ~IsMove(t, Announce("question", NoState))
      BY DEF Announce, Event, IsMove
    <3> QED
      BY <2>2, <2>5, <3>1 DEF Asked
  <2>6. CASE Linked(w)
    <3>1. PICK x \in Tasks : /\ UNCHANGED <<task, transitions, notifications, crashes>>
                             /\ events' = Append(events, Announce("proof", x))
                             /\ call' = [call EXCEPT ![w] = Idle]
      BY <2>6 DEF Linked
    <3>2. Announce("proof", x) \in Events /\ ~IsMove(t, Announce("proof", x))
      BY EventTypes DEF Announce, Event, Verbs, IsMove
    <3> QED
      BY <1>1, <1>2, <2>1, <3>1, <3>2, FollowsFrame
  <2> QED
    BY <2>1, <2>3, <2>4, <2>5, <2>6
<1>5. ASSUME NEW w \in Workers, Emit(w) PROVE Follows(t)'
  <2> PICK e \in Events : e = call[w].event
    BY <1>5, AnnouncementFacts DEF Emit
  <2> DEFINE c == AfterEmit(e)
  <2>1. /\ call[w].pc = "emit" /\ call' = [call EXCEPT ![w] = c]
        /\ events' = Append(events, e)
        /\ transitions'[t] = transitions[t] /\ crashes' = crashes
    BY <1>5 DEF Emit, TypeInv, tables
  <2>2. c.pc # "emit"
    BY DEF AfterEmit, Idle
  <2> HIDE DEF c
  <2>3. CASE IsMove(t, e)
    <3>1. call'[w].pc # "emit"
      BY <2>1, <2>2 DEF TypeInv
    <3>2. Announcing(t) = {w} /\ Announcing(t)' = {}
      BY <2>1, <2>3, <3>1, AnnouncingFacts, AnnouncingNext
    <3> QED
      BY <2>1, <2>3, <3>2, FollowsEmit
  <2>4. CASE ~IsMove(t, e)
    BY <1>1, <2>1, <2>2, <2>4, FollowsFrame
  <2> QED
    BY <2>3, <2>4
<1>6. ASSUME NEW w \in Workers, Notify(w) PROVE Follows(t)'
  <2>1. /\ call[w].pc = "notify" /\ call' = [call EXCEPT ![w] = Idle]
        /\ UNCHANGED <<transitions, events, crashes>>
    BY <1>6 DEF Notify, tables
  <2> QED
    BY <1>1, <1>2, <2>1, FollowsFrame
<1>7. ASSUME Crash PROVE Follows(t)'
  <2> PICK w \in Workers : TRUE
    BY DEF Serial
  <2>1. /\ crashes' = crashes + 1 /\ UNCHANGED <<transitions, events>>
        /\ call'[w] = Idle
    BY <1>7 DEF Crash, tables
  <2>2. Announcing(t)' = {} /\ Cardinality(Announcing(t)) \in {0, 1}
    BY <1>2, <2>1, AnnouncingFacts, AnnouncingNext
  <2>3. /\ Cardinality(Announcing(t)) + crashes <= crashes'
        /\ crashes' \in Nat /\ Cardinality(Announcing(t)) \in Nat
    BY <2>1, <2>2 DEF TypeInv
  <2> QED
    BY <2>1, <2>2, <2>3, OtherEvent, FollowsQuiet
<1>8. ASSUME UNCHANGED <<tables, events, notifications, call, crashes>> PROVE Follows(t)'
  BY <1>8 DEF Follows, Matches, Announced, Announcing, tables
<1> QED
  BY <1>1, <1>3, <1>4, <1>5, <1>6, <1>7, <1>8 DEF Steps

\* With one worker, the events of a task's transitions are its log in the same
\* order, but for the one being announced and at most one for every crash: a reader
\* of the events never sees a transition that is not in the log, nor two swapped.
THEOREM EventsAlwaysFollowLog ==
  ASSUME Serial
  PROVE  Spec => []EventsFollowLog
<1> DEFINE Inv == \A t \in Tasks : Follows(t)
<1>1. Init => Inv
  <2> SUFFICES ASSUME Init, NEW t \in Tasks PROVE Follows(t)
    OBVIOUS
  <2>1. /\ Announced(t) = {} /\ Announcing(t) = {} /\ transitions[t] = <<>> /\ crashes = 0
    BY DEF Init, Flow!Init, Announced, Announcing, Idle
  <2>2. \E f \in [{} -> DOMAIN transitions[t]] : TRUE
    <3>1. [x \in {} |-> x] \in [{} -> DOMAIN transitions[t]]
      OBVIOUS
    <3> QED
      BY <3>1
  <2>3. Len(transitions[t]) <= Cardinality(Announced(t)) + Cardinality(Announcing(t)) + crashes
    <3>1. Len(transitions[t]) = 0 /\ Cardinality({}) = 0
      BY <2>1, FS_EmptySet
    <3> QED
      BY <2>1, <3>1
  <2>4. \E f \in [Announced(t) -> DOMAIN transitions[t]] : Matches(t, f)
    BY <2>1, <2>2 DEF Matches
  <2> QED
    BY <2>1, <2>3, <2>4 DEF Follows
<1>2. TypeInv /\ Inv /\ [Next]_vars => Inv'
  BY FollowsStep
<1>3. TypeInv /\ Inv => EventsFollowLog
  <2> SUFFICES ASSUME TypeInv, NEW t \in Tasks, Follows(t)
               PROVE  Len(transitions[t]) - Cardinality(Announced(t))
                        <= crashes + Cardinality(Announcing(t))
    BY DEF EventsFollowLog, Follows, Matches
  <2> PICK w \in Workers : TRUE
    BY DEF Serial
  <2>1. /\ Cardinality(Announced(t)) \in Nat /\ Cardinality(Announcing(t)) \in {0, 1}
        /\ Len(transitions[t]) \in Nat /\ crashes \in Nat
    BY AnnouncedFinite, AnnouncingFacts DEF TypeInv
  <2>2. Len(transitions[t]) <= Cardinality(Announced(t)) + Cardinality(Announcing(t)) + crashes
    BY DEF Follows
  <2> QED
    BY <2>1, <2>2
<1> QED
  BY <1>1, <1>2, <1>3, TypesHold, PTL DEF Spec
=============================================================================
