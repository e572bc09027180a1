--------------------------- MODULE TaskFlowProofs ---------------------------
(***************************************************************************)
(* What TaskFlow guarantees for any number of tasks, todos, proofs and     *)
(* questions and any number of writes.                                     *)
(***************************************************************************)
EXTENDS TaskFlow, TLAPS

\* What one transition does to the row and its log, and to nothing else.
LEMMA TransitionStep ==
  ASSUME TypeOK,
         NEW t \in Tasks, NEW to \in Requests, NEW actor \in Kinds,
         NEW note \in BOOLEAN, NEW v \in BOOLEAN,
         Transition(t, to, actor, note, v)
  PROVE  LET target == Target(task[t].state, task[t].previous_state, to) IN
           /\ target \in States
           /\ to \in TRANSITIONS[task[t].state]
           /\ task' \in [Tasks -> TaskRow]
           /\ task'[t].state = target
           /\ task'[t].previous_state = PreviousState(task[t].state, target)
           /\ task'[t].version = task[t].version + 1
           /\ \A x \in Tasks \ {t} : task'[x] = task[x]
           /\ transitions' = [transitions EXCEPT ![t] =
                Append(@, LogEntry(task[t].state, target, actor))]
           /\ UNCHANGED <<revisions, todos, proofs, questions, seen>>
<1> DEFINE target == Target(task[t].state, task[t].previous_state, to)
           previous == PreviousState(task[t].state, target)
<1>1. task \in [Tasks -> TaskRow] /\ task[t] \in TaskRow
  BY DEF TypeOK
<1>2. target \in States
  BY <1>1 DEF Target, DefaultPrevious, TaskRow, States, Requests, NoState
<1>3. previous \in States \cup {NoState}
  BY <1>1, <1>2 DEF PreviousState, TaskRow
<1>4. task' = [task EXCEPT ![t].state = target, ![t].previous_state = previous,
                           ![t].version = NextVersion(@)]
  BY DEF Transition
<1> HIDE DEF target, previous
<1>5. /\ task' \in [Tasks -> TaskRow]
      /\ task'[t].state = target
      /\ task'[t].previous_state = previous
      /\ task'[t].version = task[t].version + 1
      /\ \A x \in Tasks \ {t} : task'[x] = task[x]
  BY <1>1, <1>2, <1>3, <1>4 DEF NextVersion, TaskRow
<1> QED
  BY <1>2, <1>5 DEF Transition, target, previous

\* A write that only adds one to a row's version.
LEMMA BumpKeepsType ==
  ASSUME task \in [Tasks -> TaskRow], NEW t \in Tasks,
         task' = [task EXCEPT ![t].version = NextVersion(@)]
  PROVE  /\ task' \in [Tasks -> TaskRow]
         /\ task'[t].version = task[t].version + 1
         /\ \A x \in Tasks :
              /\ task'[x].state = task[x].state
              /\ task'[x].previous_state = task[x].previous_state
              /\ x # t => task'[x] = task[x]
BY DEF NextVersion, TaskRow

\* Every column keeps its type.
THEOREM TypeCorrect == Spec => []TypeOK
<1>1. Init => TypeOK
  BY DEF Init, TypeOK, EmptyTable, TaskRow, States, NoState
<1>2. TypeOK /\ [Next]_vars => TypeOK'
  <2> SUFFICES ASSUME TypeOK, [Next]_vars PROVE TypeOK'
    OBVIOUS
  <2> USE DEF TypeOK
  <2>1. ASSUME NEW t \in Tasks, NEW to \in Requests, NEW actor \in Kinds,
               NEW note \in BOOLEAN, NEW v \in BOOLEAN,
               Transition(t, to, actor, note, v)
        PROVE  TypeOK'
    <3> HIDE DEF TypeOK
    <3> DEFINE e == LogEntry(task[t].state, task'[t].state, actor)
    <3>1. /\ task' \in [Tasks -> TaskRow]
          /\ transitions' = [transitions EXCEPT ![t] = Append(@, e)]
          /\ UNCHANGED <<revisions, todos, proofs, questions, seen>>
      BY <2>1, TransitionStep
    <3>2. e \in LogRow
      BY <3>1 DEF TypeOK, LogEntry, LogRow, TaskRow
    <3> HIDE DEF e
    <3>3. transitions' \in [Tasks -> Seq(LogRow)]
      BY <3>1, <3>2 DEF TypeOK
    <3> QED
      BY <3>1, <3>3 DEF TypeOK
  <2>2. ASSUME NEW t \in Tasks,
               NEW fields \in SUBSET {"body", "waiver", "columns"},
               NEW actor \in Kinds, NEW v \in BOOLEAN,
               EditTask(t, fields, actor, v)
        PROVE  TypeOK'
    <3> DEFINE waived == IF "waiver" \in fields THEN ~task[t].proof_waived
                         ELSE task[t].proof_waived
    <3>1. task' \in [Tasks -> TaskRow]
      <4>1. waived \in BOOLEAN
        BY DEF TaskRow
      <4>2. task' = [task EXCEPT ![t].proof_waived = waived,
                                 ![t].version = NextVersion(@)]
        BY <2>2 DEF EditTask
      <4> HIDE DEF waived
      <4> QED
        BY <4>1, <4>2 DEF NextVersion, TaskRow
    <3>2. revisions' \in [Tasks -> Seq(Kinds)]
      BY <2>2 DEF EditTask
    <3> QED
      BY <2>2, <3>1, <3>2 DEF EditTask
  <2>3. ASSUME NEW t \in Tasks, NEW d \in Todos, AddTodo(t, d)
        PROVE  TypeOK'
    <3>1. task' \in [Tasks -> TaskRow]
      BY <2>3, BumpKeepsType DEF AddTodo
    <3>2. DOMAIN todos' \subseteq Todos /\ todos' \in [DOMAIN todos' -> TodoRow]
      BY <2>3 DEF AddTodo, Put, TodoRow
    <3> QED
      BY <2>3, <3>1, <3>2 DEF AddTodo
  <2>4. ASSUME NEW d \in Todos, NEW done \in BOOLEAN, NEW v \in BOOLEAN,
               TickTodo(d, done, v)
        PROVE  TypeOK'
    <3>1. task' \in [Tasks -> TaskRow]
      <4>1. todos[d].task \in Tasks
        BY <2>4 DEF TickTodo, TodoRow
      <4> QED
        BY <4>1, <2>4, BumpKeepsType DEF TickTodo
    <3>2. DOMAIN todos' \subseteq Todos /\ todos' \in [DOMAIN todos' -> TodoRow]
      <4>1. d \in DOMAIN todos /\ todos[d] \in TodoRow
        BY <2>4 DEF TickTodo
      <4> DEFINE row == [todos[d] EXCEPT !.done = done, !.version = @ + 1]
      <4>2. row \in TodoRow
        <5>1. PICK next \in Nat : next = todos[d].version + 1
          BY <4>1 DEF TodoRow
        <5> QED
          BY <4>1, <5>1 DEF TodoRow
      <4>3. todos' = [todos EXCEPT ![d] = row]
        BY <2>4, <4>1 DEF TickTodo
      <4> HIDE DEF row
      <4> QED
        BY <4>1, <4>2, <4>3
    <3> QED
      BY <2>4, <3>1, <3>2 DEF TickTodo
  <2>5. ASSUME NEW d \in Todos, NEW actor \in Kinds, TrashTodo(d, actor)
        PROVE  TypeOK'
    <3>1. task' \in [Tasks -> TaskRow]
      <4>1. todos[d].task \in Tasks
        BY <2>5 DEF TrashTodo, TodoRow
      <4> QED
        BY <4>1, <2>5, BumpKeepsType DEF TrashTodo
    <3>2. DOMAIN todos' \subseteq Todos /\ todos' \in [DOMAIN todos' -> TodoRow]
      BY <2>5 DEF TrashTodo, TodoRow
    <3> QED
      BY <2>5, <3>1, <3>2 DEF TrashTodo
  <2>6. ASSUME NEW t \in Tasks, NEW p \in Proofs, NEW gate \in BOOLEAN,
               AddProof(t, p, gate)
        PROVE  TypeOK'
    BY <2>6 DEF AddProof, Put, ProofRow
  <2>7. ASSUME NEW p \in Proofs, NEW actor \in Kinds, TrashProof(p, actor)
        PROVE  TypeOK'
    BY <2>7 DEF TrashProof, ProofRow
  <2>8. ASSUME NEW q \in Questions, NEW obj \in Tasks \cup Todos, Ask(q, obj)
        PROVE  TypeOK'
    BY <2>8 DEF Ask, Put, QuestionRow
  <2>9. ASSUME NEW q \in Questions, Resolve(q)
        PROVE  TypeOK'
    BY <2>9 DEF Resolve, QuestionRow
  <2>10. ASSUME NEW t \in Tasks, ReadTask(t)
         PROVE  TypeOK'
    BY <2>10 DEF ReadTask, Put, Snapshot
  <2>11. CASE UNCHANGED vars
    BY <2>11 DEF vars
  <2> QED
    <3> HIDE DEF TypeOK
    <3> QED
      BY <2>1, <2>2, <2>3, <2>4, <2>5, <2>6, <2>7, <2>8, <2>9, <2>10, <2>11
      DEF Next
<1> QED
  BY <1>1, <1>2, PTL DEF Spec

----------------------------------------------------------------------------
(* The log and the state column.  The four invariants are inductive         *)
(* together: a restore goes back to where the log says it came from only    *)
(* because the row remembers the last log entry.                            *)

History == LogIsWalk /\ SettledKnowsOrigin /\ RestoreReturns /\ HumanGates

\* Whatever leaves the state columns and the logs alone keeps their history.
LEMMA HistoryFrame ==
  ASSUME History, transitions' = transitions,
         \A t \in Tasks : /\ task'[t].state = task[t].state
                          /\ task'[t].previous_state = task[t].previous_state
  PROVE  History'
BY DEF History, LogIsWalk, SettledKnowsOrigin, RestoreReturns, HumanGates

\* One task's part of each invariant, as statements about a log and a row.
Walk(log, state) ==
  /\ log = <<>> => state = "idea"
  /\ log # <<>> => log[1].from = "idea" /\ log[Len(log)].to = state
  /\ \A i \in 1 .. Len(log) - 1 : log[i].to = log[i + 1].from
Origin(log, state, previous) ==
  IF state \in Settled
  THEN log # <<>> /\ previous = log[Len(log)].from /\ previous \notin Settled
  ELSE previous = NoState
Returns(log) ==
  \A i \in 1 .. Len(log) - 1 :
    log[i].to \in Settled => log[i + 1].to = log[i].from
Gated(e) ==
  (e.from = "proposed" /\ e.to = "approved") \/ e.to \in Settled \/ e.from \in Settled
    => e.actor = "human"

\* What was appended is the last element.
LEMMA AppendLast ==
  ASSUME NEW S, NEW s \in Seq(S), NEW x \in S
  PROVE  Append(s, x) # <<>> /\ Append(s, x)[Len(Append(s, x))] = x
OBVIOUS

\* A walk goes on from where it is; what follows a settling entry goes back.
LEMMA LongerLog ==
  ASSUME NEW log \in Seq(LogRow), NEW e \in LogRow,
         NEW state, NEW previous,
         Walk(log, state), Origin(log, state, previous), Returns(log),
         \A i \in DOMAIN log : Gated(log[i]),
         e.from = state, Gated(e),
         state \in Settled => e.to = previous
  PROVE  /\ Walk(Append(log, e), e.to)
         /\ Returns(Append(log, e))
         /\ \A i \in DOMAIN Append(log, e) : Gated(Append(log, e)[i])
<1> DEFINE new == Append(log, e)
<1>1. /\ Len(log) \in Nat /\ Len(new) = Len(log) + 1 /\ DOMAIN log = 1 .. Len(log)
      /\ new[Len(log) + 1] = e
      /\ \A i \in 1 .. Len(log) : new[i] = log[i]
      /\ new # <<>> /\ DOMAIN new = 1 .. Len(log) + 1
      /\ log = <<>> <=> Len(log) = 0
  OBVIOUS
<1> HIDE DEF new
<1>2. Walk(new, e.to)
  BY <1>1 DEF Walk
<1>3. Returns(new)
  BY <1>1 DEF Walk, Origin, Returns
<1>4. \A i \in DOMAIN new : Gated(new[i])
  BY <1>1
<1> QED
  BY <1>2, <1>3, <1>4 DEF new

\* Where a request from each state may lead, and what the row keeps of it.
LEMMA TargetFacts ==
  ASSUME NEW row \in TaskRow, NEW to \in TRANSITIONS[row.state],
         row.state \in Settled => row.previous_state \notin Settled \cup {NoState},
         NEW target, target = Target(row.state, row.previous_state, to)
  PROVE  /\ target = "done" => row.state = "review"
         /\ row.state \in Settled => to = "previous" /\ target = row.previous_state
                                     /\ target \notin Settled
         /\ row.state \notin Settled => to # "previous" /\ target = to
         /\ PreviousState(row.state, target) =
              IF target \in Settled THEN row.state ELSE NoState
BY DEF TRANSITIONS, States, Settled, Target, PreviousState, TaskRow, NoState

\* A transition extends the walk its log is.
LEMMA HistoryTransition ==
  ASSUME TypeOK, History,
         NEW t \in Tasks, NEW to \in Requests, NEW actor \in Kinds,
         NEW note \in BOOLEAN, NEW v \in BOOLEAN,
         Transition(t, to, actor, note, v)
  PROVE  History'
<1> DEFINE row == task[t]
           log == transitions[t]
           target == Target(row.state, row.previous_state, to)
           e == LogEntry(row.state, target, actor)
<1>1. /\ target \in States
      /\ to \in TRANSITIONS[row.state]
      /\ task'[t].state = target
      /\ task'[t].previous_state = PreviousState(row.state, target)
      /\ \A x \in Tasks \ {t} : task'[x] = task[x]
      /\ transitions' = [transitions EXCEPT ![t] = Append(@, e)]
  BY TransitionStep
<1>2. row \in TaskRow /\ log \in Seq(LogRow) /\ transitions \in [Tasks -> Seq(LogRow)]
  BY DEF TypeOK
<1>3. /\ Walk(log, row.state)
      /\ Origin(log, row.state, row.previous_state)
      /\ Returns(log)
      /\ \A i \in DOMAIN log : Gated(log[i])
  BY DEF History, LogIsWalk, SettledKnowsOrigin, RestoreReturns, HumanGates,
         Walk, Origin, Returns, Gated
<1>4. row.state \in Settled => row.previous_state \notin Settled \cup {NoState}
  <2>1. ASSUME row.state \in Settled
        PROVE  log[Len(log)] \in LogRow
    BY <1>2, <1>3, <2>1 DEF Origin
  <2> QED
    BY <1>3, <2>1 DEF Origin, LogRow, States, NoState
<1>5. IsHumanOnly(row.state, to) => actor = "human"
  BY DEF Transition
<1> HIDE DEF row, log
<1>6. /\ target = "done" => row.state = "review"
      /\ row.state \in Settled => to = "previous" /\ target = row.previous_state
                                  /\ target \notin Settled
      /\ row.state \notin Settled => to # "previous" /\ target = to
      /\ PreviousState(row.state, target) =
           IF target \in Settled THEN row.state ELSE NoState
  BY <1>1, <1>2, <1>4, TargetFacts
<1>7. e \in LogRow /\ e.from = row.state /\ e.to = target /\ e.actor = actor
  BY <1>1, <1>2 DEF LogEntry, LogRow, TaskRow
<1> HIDE DEF target, e
<1>8. Gated(e)
  BY <1>5, <1>6, <1>7 DEF Gated, IsHumanOnly, Settled
<1>9. /\ Walk(Append(log, e), target)
      /\ Returns(Append(log, e))
      /\ \A i \in DOMAIN Append(log, e) : Gated(Append(log, e)[i])
  BY <1>2, <1>3, <1>6, <1>7, <1>8, LongerLog
<1>10. Origin(Append(log, e), target, PreviousState(row.state, target))
  <2> DEFINE new == Append(log, e)
  <2>1. new # <<>> /\ new[Len(new)] = e
    BY <1>2, <1>7, AppendLast
  <2> HIDE DEF new
  <2>2. Origin(new, target, PreviousState(row.state, target))
    BY <1>6, <1>7, <2>1 DEF Origin
  <2> QED
    BY <2>2 DEF new
<1>11. transitions'[t] = Append(log, e)
       /\ \A x \in Tasks \ {t} : transitions'[x] = transitions[x]
  BY <1>1, <1>2 DEF log
<1>12. \A x \in Tasks :
         /\ Walk(transitions'[x], task'[x].state)
         /\ Origin(transitions'[x], task'[x].state, task'[x].previous_state)
         /\ Returns(transitions'[x])
         /\ \A i \in DOMAIN transitions'[x] : Gated(transitions'[x][i])
  <2>1. CASE Tasks = {t}
    BY <1>1, <1>9, <1>10, <1>11, <2>1 DEF row
  <2>2. ASSUME NEW x \in Tasks \ {t}
        PROVE  /\ Walk(transitions[x], task[x].state)
               /\ Origin(transitions[x], task[x].state, task[x].previous_state)
               /\ Returns(transitions[x])
               /\ \A i \in DOMAIN transitions[x] : Gated(transitions[x][i])
    BY DEF History, LogIsWalk, SettledKnowsOrigin, RestoreReturns, HumanGates,
           Walk, Origin, Returns, Gated
  <2> QED
    BY <1>1, <1>9, <1>10, <1>11, <2>2 DEF row
<1> QED
  BY <1>12 DEF History, LogIsWalk, SettledKnowsOrigin, RestoreReturns, HumanGates,
               Walk, Origin, Returns, Gated

\* Every step keeps the history.
LEMMA HistoryStep == TypeOK /\ History /\ [Next]_vars => History'
<1> SUFFICES ASSUME TypeOK, History, [Next]_vars PROVE History'
  OBVIOUS
<1>1. ASSUME NEW t \in Tasks, NEW to \in Requests, NEW actor \in Kinds,
             NEW note \in BOOLEAN, NEW v \in BOOLEAN,
             Transition(t, to, actor, note, v)
      PROVE  History'
  BY <1>1, HistoryTransition
<1>2. ASSUME NEW t \in Tasks,
             NEW fields \in SUBSET {"body", "waiver", "columns"},
             NEW actor \in Kinds, NEW v \in BOOLEAN,
             EditTask(t, fields, actor, v)
      PROVE  History'
  <2>1. \A x \in Tasks : /\ task'[x].state = task[x].state
                         /\ task'[x].previous_state = task[x].previous_state
    BY <1>2 DEF EditTask, TypeOK, TaskRow
  <2> QED
    BY <1>2, <2>1, HistoryFrame DEF EditTask
<1>3. ASSUME NEW t \in Tasks, transitions' = transitions, TypeOK,
             task' = [task EXCEPT ![t].version = NextVersion(@)]
      PROVE  History'
  BY <1>3, BumpKeepsType, HistoryFrame DEF TypeOK
<1>4. ASSUME NEW t \in Tasks, NEW d \in Todos, AddTodo(t, d) PROVE History'
  BY <1>3, <1>4 DEF AddTodo
<1>5. ASSUME NEW d \in Todos, NEW done \in BOOLEAN, NEW v \in BOOLEAN,
             TickTodo(d, done, v)
      PROVE  History'
  BY <1>3, <1>5 DEF TickTodo, TypeOK, TodoRow
<1>6. ASSUME NEW d \in Todos, NEW actor \in Kinds, TrashTodo(d, actor) PROVE History'
  BY <1>3, <1>6 DEF TrashTodo, TypeOK, TodoRow
<1>7. ASSUME UNCHANGED <<task, transitions>> PROVE History'
  BY <1>7, HistoryFrame
<1>8. ASSUME NEW t \in Tasks, NEW p \in Proofs, NEW gate \in BOOLEAN,
             AddProof(t, p, gate)
      PROVE  History'
  BY <1>7, <1>8 DEF AddProof
<1>9. ASSUME NEW p \in Proofs, NEW actor \in Kinds, TrashProof(p, actor)
      PROVE  History'
  BY <1>7, <1>9 DEF TrashProof
<1>10. ASSUME NEW q \in Questions, NEW obj \in Tasks \cup Todos, Ask(q, obj)
       PROVE  History'
  BY <1>7, <1>10 DEF Ask
<1>11. ASSUME NEW q \in Questions, Resolve(q) PROVE History'
  BY <1>7, <1>11 DEF Resolve
<1>12. ASSUME NEW t \in Tasks, ReadTask(t) PROVE History'
  BY <1>7, <1>12 DEF ReadTask
<1>13. CASE UNCHANGED vars
  BY <1>7, <1>13 DEF vars
<1>14. CASE \E t \in Tasks, to \in Requests, actor \in Kinds, note, v \in BOOLEAN :
              Transition(t, to, actor, note, v)
  BY <1>1, <1>14
<1>15. CASE \E t \in Tasks, fields \in (SUBSET {"body", "waiver", "columns"}) \ {{}},
              actor \in Kinds, v \in BOOLEAN : EditTask(t, fields, actor, v)
  BY <1>2, <1>15
<1>16. CASE \/ \E t \in Tasks, d \in Todos : AddTodo(t, d)
            \/ \E d \in Todos, done, v \in BOOLEAN : TickTodo(d, done, v)
            \/ \E d \in Todos, actor \in Kinds : TrashTodo(d, actor)
  BY <1>4, <1>5, <1>6, <1>16
<1>17. CASE \/ \E t \in Tasks, p \in Proofs, gate \in BOOLEAN : AddProof(t, p, gate)
            \/ \E p \in Proofs, actor \in Kinds : TrashProof(p, actor)
  BY <1>8, <1>9, <1>17
<1> QED
  BY <1>10, <1>11, <1>12, <1>13, <1>14, <1>15, <1>16, <1>17 DEF Next

\* What is said of the logs holds for ever.
LEMMA HistoryHolds == Spec => []History
<1>1. Init => History
  BY DEF Init, History, LogIsWalk, SettledKnowsOrigin, RestoreReturns, HumanGates,
         Settled, NoState
<1> QED
  BY <1>1, HistoryStep, TypeCorrect, PTL DEF Spec

\* The transition log of every task is a walk from "idea" to its state.
THEOREM LogIsAlwaysAWalk == Spec => []LogIsWalk
BY HistoryHolds, PTL DEF History

\* Exactly the done and trashed tasks remember where they came from.
THEOREM SettledAlwaysKnowsOrigin == Spec => []SettledKnowsOrigin
BY HistoryHolds, PTL DEF History

\* "Not done" and restore lead back to where the task was.
THEOREM RestoreAlwaysReturns == Spec => []RestoreReturns
BY HistoryHolds, PTL DEF History

\* No clanker ever approved a proposal, finished, trashed or restored a task.
THEOREM HumanGatesHold == Spec => []HumanGates
BY HistoryHolds, PTL DEF History

----------------------------------------------------------------------------
(* The optimistic lock and the freeze.  Both rest on one fact about steps:  *)
(* what a client can see of a task changes only together with its version,  *)
(* and only while no question on it is open.                                *)

Same(t) == Snapshot(t)' = Snapshot(t) /\ transitions'[t] = transitions[t]
Written(t) == ~Frozen(t) /\ task'[t].version = task[t].version + 1

\* A write of the row and log of one task.
LEMMA TouchesRow ==
  ASSUME NEW t \in Tasks, Written(t), UNCHANGED todos,
         \A x \in Tasks \ {t} : /\ task'[x] = task[x]
                               /\ revisions'[x] = revisions[x]
                               /\ transitions'[x] = transitions[x]
  PROVE  \A x \in Tasks : Same(x) \/ Written(x)
BY DEF Same, Snapshot

\* A write of one todo, which stays with its task.
LEMMA TouchesTodo ==
  ASSUME TypeOK, NEW t \in Tasks, NEW d \in Todos, GuardFreeze(t),
         task' = [task EXCEPT ![t].version = NextVersion(@)],
         UNCHANGED <<revisions, transitions>>,
         DOMAIN todos' = DOMAIN todos \cup {d},
         todos'[d].task = t, d \in DOMAIN todos => todos[d].task = t,
         \A x \in DOMAIN todos \ {d} : todos'[x] = todos[x]
  PROVE  \A x \in Tasks : Same(x) \/ Written(x)
<1>1. task \in [Tasks -> TaskRow]
  BY DEF TypeOK
<1>2. task'[t].version = task[t].version + 1 /\ \A x \in Tasks \ {t} : task'[x] = task[x]
  BY <1>1, BumpKeepsType
<1>3. Written(t)
  BY <1>2 DEF Written, GuardFreeze
<1>4. ASSUME NEW x \in Tasks \ {t} PROVE Same(x)
  <2>1. {y \in DOMAIN todos' : todos'[y].task = x} = {y \in DOMAIN todos : todos[y].task = x}
    OBVIOUS
  <2>2. [y \in {z \in DOMAIN todos' : todos'[z].task = x} |-> todos'[y]]
          = [y \in {z \in DOMAIN todos : todos[z].task = x} |-> todos[y]]
    BY <2>1
  <2> QED
    BY <1>2, <2>2 DEF Same, Snapshot
<1> QED
  BY <1>3, <1>4

\* Every step leaves what can be seen of a task, or finds it unfrozen and moves
\* its version on.
LEMMA StepTouches == TypeOK /\ [Next]_vars => \A t \in Tasks : Same(t) \/ Written(t)
<1> SUFFICES ASSUME TypeOK, [Next]_vars PROVE \A t \in Tasks : Same(t) \/ Written(t)
  OBVIOUS
<1>1. ASSUME NEW t \in Tasks, NEW to \in Requests, NEW actor \in Kinds,
             NEW note \in BOOLEAN, NEW v \in BOOLEAN,
             Transition(t, to, actor, note, v)
      PROVE  \A x \in Tasks : Same(x) \/ Written(x)
  <2>1. /\ task'[t].version = task[t].version + 1
        /\ \A x \in Tasks \ {t} : task'[x] = task[x]
        /\ UNCHANGED <<revisions, todos>>
        /\ \A x \in Tasks \ {t} : transitions'[x] = transitions[x]
    BY <1>1, TransitionStep DEF TypeOK
  <2> QED
    BY <1>1, <2>1, TouchesRow DEF Written, Transition, GuardFreeze
<1>2. ASSUME NEW t \in Tasks,
             NEW fields \in SUBSET {"body", "waiver", "columns"},
             NEW actor \in Kinds, NEW v \in BOOLEAN,
             EditTask(t, fields, actor, v)
      PROVE  \A x \in Tasks : Same(x) \/ Written(x)
  <2>1. task'[t].version = task[t].version + 1
        /\ \A x \in Tasks \ {t} : task'[x] = task[x]
    BY <1>2 DEF EditTask, NextVersion, TypeOK, TaskRow
  <2>2. \A x \in Tasks \ {t} : revisions'[x] = revisions[x]
    BY <1>2 DEF EditTask, TypeOK
  <2> QED
    BY <1>2, <2>1, <2>2, TouchesRow DEF Written, EditTask, GuardFreeze
<1>3. ASSUME NEW t \in Tasks, NEW d \in Todos, AddTodo(t, d)
      PROVE  \A x \in Tasks : Same(x) \/ Written(x)
  BY <1>3, TouchesTodo DEF AddTodo, Put
<1>4. ASSUME NEW d \in Todos, NEW done \in BOOLEAN, NEW v \in BOOLEAN,
             TickTodo(d, done, v)
      PROVE  \A x \in Tasks : Same(x) \/ Written(x)
  <2>1. d \in DOMAIN todos /\ todos[d] \in TodoRow /\ todos \in [DOMAIN todos -> TodoRow]
    BY <1>4 DEF TickTodo, TypeOK
  <2>2. /\ todos[d].task \in Tasks /\ GuardFreeze(todos[d].task)
        /\ task' = [task EXCEPT ![todos[d].task].version = NextVersion(@)]
        /\ UNCHANGED <<revisions, transitions>>
    BY <1>4, <2>1 DEF TickTodo, TodoRow
  <2>3. /\ DOMAIN todos' = DOMAIN todos \cup {d} /\ todos'[d].task = todos[d].task
        /\ \A x \in DOMAIN todos \ {d} : todos'[x] = todos[x]
    BY <1>4, <2>1 DEF TickTodo, TodoRow
  <2> QED
    BY <2>2, <2>3, TouchesTodo
<1>5. ASSUME NEW d \in Todos, NEW actor \in Kinds, TrashTodo(d, actor)
      PROVE  \A x \in Tasks : Same(x) \/ Written(x)
  <2>1. d \in DOMAIN todos /\ todos[d] \in TodoRow /\ todos \in [DOMAIN todos -> TodoRow]
    BY <1>5 DEF TrashTodo, TypeOK
  <2>2. /\ todos[d].task \in Tasks /\ GuardFreeze(todos[d].task)
        /\ task' = [task EXCEPT ![todos[d].task].version = NextVersion(@)]
        /\ UNCHANGED <<revisions, transitions>>
    BY <1>5, <2>1 DEF TrashTodo, TodoRow
  <2>3. /\ DOMAIN todos' = DOMAIN todos \cup {d} /\ todos'[d].task = todos[d].task
        /\ \A x \in DOMAIN todos \ {d} : todos'[x] = todos[x]
    BY <1>5, <2>1 DEF TrashTodo, TodoRow
  <2> QED
    BY <2>2, <2>3, TouchesTodo
<1>6. ASSUME UNCHANGED <<task, revisions, transitions, todos>>
      PROVE  \A x \in Tasks : Same(x) \/ Written(x)
  BY <1>6 DEF Same, Snapshot
<1>7. ASSUME NEW t \in Tasks, NEW p \in Proofs, NEW gate \in BOOLEAN,
             AddProof(t, p, gate)
      PROVE  \A x \in Tasks : Same(x) \/ Written(x)
  BY <1>6, <1>7 DEF AddProof
<1>8. ASSUME NEW p \in Proofs, NEW actor \in Kinds, TrashProof(p, actor)
      PROVE  \A x \in Tasks : Same(x) \/ Written(x)
  BY <1>6, <1>8 DEF TrashProof
<1>9. ASSUME NEW q \in Questions, NEW obj \in Tasks \cup Todos, Ask(q, obj)
      PROVE  \A x \in Tasks : Same(x) \/ Written(x)
  BY <1>6, <1>9 DEF Ask
<1>10. ASSUME NEW q \in Questions, Resolve(q)
       PROVE  \A x \in Tasks : Same(x) \/ Written(x)
  BY <1>6, <1>10 DEF Resolve
<1>11. ASSUME NEW t \in Tasks, ReadTask(t)
       PROVE  \A x \in Tasks : Same(x) \/ Written(x)
  BY <1>6, <1>11 DEF ReadTask
<1>12. CASE UNCHANGED vars
  BY <1>6, <1>12 DEF vars
<1> QED
  BY <1>1, <1>2, <1>3, <1>4, <1>5, <1>7, <1>8, <1>9, <1>10, <1>11, <1>12 DEF Next

\* The only actions that write what a client read, the proofs, or the todos.
LEMMA Writers ==
  ASSUME [Next]_vars
  PROVE  /\ (\E t \in Tasks : ReadTask(t)) \/ UNCHANGED seen
         /\ \/ \E t \in Tasks, p \in Proofs, gate \in BOOLEAN : AddProof(t, p, gate)
            \/ \E p \in Proofs, actor \in Kinds : TrashProof(p, actor)
            \/ UNCHANGED proofs
         /\ \/ \E t \in Tasks, d \in Todos : AddTodo(t, d)
            \/ \E d \in Todos, done, v \in BOOLEAN : TickTodo(d, done, v)
            \/ \E d \in Todos, actor \in Kinds : TrashTodo(d, actor)
            \/ UNCHANGED todos
<1>1. ASSUME NEW t, NEW to, NEW actor, NEW note, NEW v, Transition(t, to, actor, note, v)
      PROVE  UNCHANGED <<todos, proofs, seen>>
  BY <1>1 DEF Transition
<1>2. ASSUME NEW t, NEW fields, NEW actor, NEW v, EditTask(t, fields, actor, v)
      PROVE  UNCHANGED <<todos, proofs, seen>>
  BY <1>2 DEF EditTask
<1>3. ASSUME NEW t, NEW d, AddTodo(t, d) PROVE UNCHANGED <<proofs, seen>>
  BY <1>3 DEF AddTodo
<1>4. ASSUME NEW d, NEW done, NEW v, TickTodo(d, done, v)
      PROVE  UNCHANGED <<proofs, seen>>
  BY <1>4 DEF TickTodo
<1>5. ASSUME NEW d, NEW actor, TrashTodo(d, actor) PROVE UNCHANGED <<proofs, seen>>
  BY <1>5 DEF TrashTodo
<1>6. ASSUME NEW t, NEW p, NEW gate, AddProof(t, p, gate) PROVE UNCHANGED <<todos, seen>>
  BY <1>6 DEF AddProof
<1>7. ASSUME NEW p, NEW actor, TrashProof(p, actor) PROVE UNCHANGED <<todos, seen>>
  BY <1>7 DEF TrashProof
<1>8. ASSUME NEW q, NEW obj, Ask(q, obj) PROVE UNCHANGED <<todos, proofs, seen>>
  BY <1>8 DEF Ask
<1>9. ASSUME NEW q, Resolve(q) PROVE UNCHANGED <<todos, proofs, seen>>
  BY <1>9 DEF Resolve
<1>10. ASSUME NEW t, ReadTask(t) PROVE UNCHANGED <<todos, proofs>>
  BY <1>10 DEF ReadTask
<1>11. ASSUME UNCHANGED vars PROVE UNCHANGED <<todos, proofs, seen>>
  BY <1>11 DEF vars
<1> QED
  BY <1>1, <1>2, <1>3, <1>4, <1>5, <1>6, <1>7, <1>8, <1>9, <1>10, <1>11 DEF Next

\* What was read is never ahead of the row, and is the row where they agree.
SeenIsPast == \A t \in DOMAIN seen : seen[t].row.version <= task[t].version
Lock == SeenIsPast /\ VersionIdentifiesTask

\* A step that reads nothing keeps the lock.
LEMMA LockFrame ==
  ASSUME TypeOK, Lock, UNCHANGED seen, \A t \in Tasks : Same(t) \/ Written(t)
  PROVE  Lock'
<1>1. ASSUME NEW t \in DOMAIN seen
      PROVE  /\ seen[t].row.version <= task'[t].version
             /\ seen[t].row.version = task'[t].version => seen[t] = Snapshot(t)'
  <2>1. t \in Tasks /\ seen[t].row.version \in Nat /\ task[t].version \in Nat
    BY DEF TypeOK, TaskRow
  <2>2. /\ seen[t].row.version <= task[t].version
        /\ seen[t].row.version = task[t].version => seen[t] = Snapshot(t)
    BY DEF Lock, SeenIsPast, VersionIdentifiesTask
  <2>3. CASE Same(t)
    <3>1. task'[t] = task[t] /\ Snapshot(t)' = Snapshot(t)
      BY <2>3 DEF Same, Snapshot
    <3> QED
      BY <2>2, <3>1
  <2>4. CASE Written(t)
    BY <2>1, <2>2, <2>4 DEF Written
  <2> QED
    BY <2>1, <2>3, <2>4
<1> QED
  BY <1>1 DEF Lock, SeenIsPast, VersionIdentifiesTask

\* Every step keeps what is said of versions.
LEMMA LockStep == TypeOK /\ TypeOK' /\ Lock /\ [Next]_vars => Lock'
<1> SUFFICES ASSUME TypeOK, TypeOK', Lock, [Next]_vars PROVE Lock'
  OBVIOUS
<1>1. ASSUME NEW t \in Tasks, ReadTask(t) PROVE Lock'
  <2>1. \A x \in DOMAIN seen' : Snapshot(x)' = Snapshot(x) /\ task' = task
    BY <1>1 DEF ReadTask, Snapshot
  <2>2. \A x \in DOMAIN seen' :
          seen'[x] = Snapshot(x) \/ (x \in DOMAIN seen /\ seen'[x] = seen[x])
    BY <1>1 DEF ReadTask, Put
  <2>3. \A x \in DOMAIN seen' : Snapshot(x).row = task[x] /\ task[x].version \in Nat
    BY DEF Snapshot, TypeOK, TaskRow
  <2> QED
    BY <2>1, <2>2, <2>3 DEF Lock, SeenIsPast, VersionIdentifiesTask
<1>2. CASE UNCHANGED seen
  BY <1>2, StepTouches, LockFrame
<1>3. (\E t \in Tasks : ReadTask(t)) \/ UNCHANGED seen
  BY Writers
<1> QED
  BY <1>1, <1>2, <1>3

\* A client whose version is still current has seen the task as it is.
THEOREM VersionAlwaysIdentifiesTask == Spec => []VersionIdentifiesTask
<1>1. Init => Lock
  BY DEF Init, Lock, SeenIsPast, VersionIdentifiesTask, EmptyTable
<1> QED
  BY <1>1, LockStep, TypeCorrect, PTL DEF Spec, Lock

\* No step changes a frozen task or todo, or adds a proof to a frozen task.
THEOREM FrozenStaysUntouched == Spec => FrozenIsUntouched
<1> DEFINE Untouched ==
      /\ \A t \in Tasks : OpenOn(t) =>
           /\ Snapshot(t)' = Snapshot(t)
           /\ transitions'[t] = transitions[t]
           /\ LiveProofs(t)' \subseteq LiveProofs(t)
      /\ \A d \in DOMAIN todos : OpenOn(d) => todos'[d] = todos[d]
<1>1. TypeOK /\ [Next]_vars => Untouched
  <2> SUFFICES ASSUME TypeOK, [Next]_vars PROVE Untouched
    OBVIOUS
  <2>1. \A t \in Tasks : OpenOn(t) => Same(t)
    BY StepTouches DEF Written, Frozen, OpenOn
  <2>2. ASSUME NEW t \in Tasks, OpenOn(t)
        PROVE  LiveProofs(t)' \subseteq LiveProofs(t)
    <3>1. CASE UNCHANGED proofs
      BY <3>1 DEF LiveProofs
    <3>2. ASSUME NEW u \in Tasks, NEW p \in Proofs, NEW gate \in BOOLEAN,
                 AddProof(u, p, gate)
          PROVE  LiveProofs(t)' \subseteq LiveProofs(t)
      BY <2>2, <3>2 DEF AddProof, Put, GuardFreeze, Frozen, OpenOn, LiveProofs
    <3>3. ASSUME NEW p \in Proofs, NEW actor \in Kinds, TrashProof(p, actor)
          PROVE  LiveProofs(t)' \subseteq LiveProofs(t)
      BY <3>3 DEF TrashProof, LiveProofs, TypeOK, ProofRow
    <3> QED
      BY <3>1, <3>2, <3>3, Writers
  <2>3. ASSUME NEW d \in DOMAIN todos, OpenOn(d)
        PROVE  todos'[d] = todos[d]
    <3>1. CASE UNCHANGED todos
      BY <3>1
    <3>2. ASSUME NEW t \in Tasks, NEW x \in Todos, AddTodo(t, x)
          PROVE  todos'[d] = todos[d]
      BY <3>2 DEF AddTodo, Put
    <3>3. ASSUME NEW x \in Todos, NEW done \in BOOLEAN, NEW v \in BOOLEAN,
                 TickTodo(x, done, v)
          PROVE  todos'[d] = todos[d]
      BY <2>3, <3>3 DEF TickTodo, GuardFreeze, Frozen, OpenOn, TypeOK
    <3>4. ASSUME NEW x \in Todos, NEW actor \in Kinds, TrashTodo(x, actor)
          PROVE  todos'[d] = todos[d]
      BY <2>3, <3>4 DEF TrashTodo, GuardFreeze, Frozen, OpenOn, TypeOK
    <3> QED
      BY <3>1, <3>2, <3>3, <3>4, Writers
  <2> QED
    BY <2>1, <2>2, <2>3 DEF Same
<1>2. Spec => [][Untouched]_vars
  BY <1>1, TypeCorrect, PTL DEF Spec
<1> QED
  BY <1>2 DEF FrozenIsUntouched
=============================================================================
