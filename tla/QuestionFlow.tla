----------------------------- MODULE QuestionFlow -----------------------------
(***************************************************************************)
(* The life of questions and of the inbox rows they leave: asking,          *)
(* answering, withdrawing, reassigning, reading one's inbox; identities     *)
(* that come and identities that are revoked.                              *)
(*                                                                         *)
(* A request is authenticated first, then waits for its body, then runs its *)
(* service call: reads and checks, the transaction on the question, the     *)
(* event with its inbox rows, for a closing the marking of every inbox copy *)
(* as read, and the note to the human attention queue.  Requests served by  *)
(* the event loop run their service calls one at a time; those of the tool  *)
(* threads interleave with them and with one another.                      *)
(*                                                                         *)
(* Naming: X_Bug, just before X, is X with a plausible bug; nothing uses it.*)
(***************************************************************************)
EXTENDS Naturals, Sequences, FiniteSets

CONSTANTS
  Root,               \* the one superadmin
  Admins, Users,      \* the other humans
  Clankers,
  Present,            \* the identities there are at the start; the others come later
  GroupMax,           \* events.GROUP_MAX, the LIMIT of the query for a group's members
  Questions,          \* question ids
  Requests,           \* slots for requests in flight
  Loop,               \* the requests that the event loop serves
  MaxEvents, MaxCrashes

ASSUME LoopAssumption == Loop \subseteq Requests

Humans == {Root} \cup Admins \cup Users
Identities == Humans \cup Clankers
ASSUME KindsAssumption == Humans \cap Clankers = {}
\* The superadmin sets the instance up, before anybody can ask anything.
ASSUME PresentAssumption == Root \in Present /\ Present \subseteq Identities
ASSUME GroupMaxAssumption == GroupMax \in Nat \ {0}
Groups == {"humans", "clankers", "everyone"}

VARIABLES
  status,      \* identities.status, or "absent"
  joined,      \* identities.created_at: the number of events there were
  questions,   \* the table: asker, addressee, status, who closed it
  events,      \* the question events: verb, question, addressee
  inbox,       \* rows of the inbox table, <<identity, index in events>>
  unread,      \* those whose read_at is NULL
  attention,   \* the human attention queue: <<question, identity or group>>
  call,        \* what each request is executing
  crashes

vars == <<status, joined, questions, events, inbox, unread, attention, call, crashes>>

Idle == [pc |-> "idle"]

IsAdmin(i) == i \in {Root} \cup Admins

Members(group) == CASE group = "humans" -> Humans
                    [] group = "clankers" -> Clankers
                    [] group = "everyone" -> Identities

IsAddressee(i, q) == IF q.to \in Groups THEN i \in Members(q.to) ELSE i = q.to

IsOpen_Unchecked(q) == q \in DOMAIN questions
IsOpen(q) == q \in DOMAIN questions /\ questions[q].status = "open"

MayAnswer_Anyone(actor, q) == IsOpen(q)
MayAnswer(actor, q) == IsOpen(q) /\ IsAddressee(actor, questions[q])

\* permissions.can for REVOKE_IDENTITY, and nobody revokes himself.
MayRevoke_Root(actor, target) == IsAdmin(actor) /\ actor # target
MayRevoke(actor, target) ==
  /\ actor # target
  /\ \/ actor = Root
     \/ actor \in Admins /\ target \in Clankers

----------------------------------------------------------------------------
(* Requests *)

Operations ==
       [op : {"ask"}, to : Identities \cup Groups]
  \cup [op : {"answer", "withdraw"}, q : Questions]
  \cup [op : {"reassign"}, q : Questions, to : Identities]
  \cup [op : {"revoke"}, target : Identities]

\* The middleware finds the identity active; what it read of it is not read again.
\* What is asked for is in the body, which may take its time.
Accept(r, actor) ==
  /\ call[r] = Idle /\ status[actor] = "active"
  /\ call' = [call EXCEPT ![r] = [pc |-> "accepted", actor |-> actor]]
  /\ UNCHANGED <<status, joined, questions, events, inbox, unread, attention, crashes>>

\* The checks of questions.ask, answer, withdraw and reassign and of the revoke
\* handler, in that order.
Allowed(actor, o) ==
  \/ o.op = "ask" /\ (o.to \in Groups \/ status[o.to] = "active")
  \/ o.op = "answer" /\ MayAnswer(actor, o.q)
  \/ o.op = "withdraw" /\ IsOpen(o.q)
                       /\ (questions[o.q].asker = actor \/ IsAdmin(actor))
  \/ o.op = "reassign" /\ IsAdmin(actor) /\ IsOpen(o.q) /\ status[o.to] = "active"
  \/ o.op = "revoke" /\ status[o.target] # "absent" /\ MayRevoke(actor, o.target)

Running(r) == call[r].pc \notin {"idle", "accepted"}
LoopFree(r) == r \in Loop => \A s \in Loop \ {r} : ~Running(s)

\* The body is there: the service call makes its checks.
Begin(r, o) ==
  /\ call[r].pc = "accepted" /\ LoopFree(r)
  /\ call' = [call EXCEPT
       ![r] = IF Allowed(@.actor, o) THEN [pc |-> "commit", actor |-> @.actor, o |-> o]
              ELSE Idle]
  /\ UNCHANGED <<status, joined, questions, events, inbox, unread, attention, crashes>>

----------------------------------------------------------------------------
(* The transactions.  None looks at the status again.                      *)

\* The event of the question q is announced next, to the addressee given.
Announcing(r, verb, q, to) ==
  /\ call' = [call EXCEPT ![r] = [pc |-> "emit", actor |-> @.actor,
                                  event |-> [verb |-> verb, q |-> q, to |-> to]]]
  /\ UNCHANGED <<status, joined, events, inbox, unread, attention, crashes>>

CommitAsk(r, actor, o) ==
  \E q \in Questions \ DOMAIN questions :
    /\ questions' = [k \in DOMAIN questions \cup {q} |->
                       IF k = q THEN [asker |-> actor, to |-> o.to, status |-> "open",
                                      by |-> actor]
                       ELSE questions[k]]
    /\ Announcing(r, "asked", q, o.to)

Close(q, how, by) == questions' = [questions EXCEPT ![q].status = how, ![q].by = by]

CommitAnswer(r, actor, o) ==
  /\ Close(o.q, "answered", actor)
  /\ Announcing(r, "answered", o.q, questions[o.q].asker)

CommitWithdraw(r, actor, o) ==
  /\ Close(o.q, "withdrawn", actor)
  /\ Announcing(r, "withdrawn", o.q, "nobody")

CommitReassign(r, o) ==
  /\ questions' = [questions EXCEPT ![o.q].to = o.to]
  /\ Announcing(r, "reassigned", o.q, o.to)

CommitRevoke(r, o) ==
  /\ status' = [status EXCEPT ![o.target] = "revoked"]
  /\ call' = [call EXCEPT ![r] = Idle]
  /\ UNCHANGED <<joined, questions, events, inbox, unread, attention, crashes>>

Commit(r) ==
  LET actor == call[r].actor  o == call[r].o IN
  /\ call[r].pc = "commit"
  /\ \/ o.op = "ask" /\ CommitAsk(r, actor, o)
     \/ o.op = "answer" /\ CommitAnswer(r, actor, o)
     \/ o.op = "withdraw" /\ CommitWithdraw(r, actor, o)
     \/ o.op = "reassign" /\ CommitReassign(r, o)
     \/ o.op = "revoke" /\ CommitRevoke(r, o)

----------------------------------------------------------------------------
(* events.emit, events.resolve, notify.notify                               *)

\* A named addressee gets a row whatever became of him.  So do a group's active
\* members, or any GroupMax of them if there are more: the query names no order.
Recipients_NamedOnly(to) == {{to} \cap Identities}
Recipients(to) ==
  LET active == {i \in Members(to) : status[i] = "active"} IN
  IF to \notin Groups THEN {{to} \cap Identities}
  ELSE IF Cardinality(active) <= GroupMax THEN {active}
  ELSE {some \in SUBSET active : Cardinality(some) = GroupMax}

NextPc(event) == CASE event.verb \in {"answered", "withdrawn"} -> "resolve"
                   [] event.verb = "asked" -> "notify"
                   [] OTHER -> "idle"

Emit(r) ==
  LET event == call[r].event IN
  /\ call[r].pc = "emit" /\ Len(events) < MaxEvents
  /\ events' = Append(events, event)
  /\ \E some \in Recipients(event.to) :
       LET rows == some \X {Len(events) + 1} IN
       inbox' = inbox \cup rows /\ unread' = unread \cup rows
  /\ call' = [call EXCEPT ![r] = IF NextPc(event) = "idle" THEN Idle
                                 ELSE [@ EXCEPT !.pc = NextPc(event)]]
  /\ UNCHANGED <<status, joined, questions, attention, crashes>>

Copies_Own(actor, q) == {row \in inbox : row[1] = actor /\ events[row[2]].q = q}
Copies(actor, q) == {row \in inbox : events[row[2]].q = q}

Resolve(r) ==
  /\ call[r].pc = "resolve"
  /\ unread' = unread \ Copies(call[r].actor, call[r].event.q)
  /\ call' = [call EXCEPT ![r] = IF @.event.verb = "answered"
                                 THEN [@ EXCEPT !.pc = "notify"] ELSE Idle]
  /\ UNCHANGED <<status, joined, questions, events, inbox, attention, crashes>>

NeedsHuman_NoGroups(to) == to \in Humans
NeedsHuman(to) == to \in Humans \cup {"humans", "everyone"}

Notify(r) ==
  /\ call[r].pc = "notify"
  /\ attention' = IF NeedsHuman(call[r].event.to)
                   THEN attention \cup {<<call[r].event.q, call[r].event.to>>}
                   ELSE attention
  /\ call' = [call EXCEPT ![r] = Idle]
  /\ UNCHANGED <<status, joined, questions, events, inbox, unread, crashes>>

----------------------------------------------------------------------------
\* An identity reads its inbox: GET /api/wait or POST /api/inbox/read.
MarkRead(i, rows) ==
  /\ status[i] = "active"
  /\ rows # {} /\ rows \subseteq {row \in unread : row[1] = i}
  /\ unread' = unread \ rows
  /\ UNCHANGED <<status, joined, questions, events, inbox, attention, call, crashes>>

\* An account is created or a registration approved, by the one transaction that a
\* handler on the loop makes of it; somebody who may do so there always is.
Join(i) ==
  /\ status[i] = "absent" /\ \A r \in Loop : ~Running(r)
  /\ status' = [status EXCEPT ![i] = "active"]
  /\ joined' = [joined EXCEPT ![i] = Len(events)]
  /\ UNCHANGED <<questions, events, inbox, unread, attention, call, crashes>>

Crash ==
  /\ crashes < MaxCrashes
  /\ crashes' = crashes + 1
  /\ call' = [r \in Requests |-> Idle]
  /\ UNCHANGED <<status, joined, questions, events, inbox, unread, attention>>

Init ==
  /\ status = [i \in Identities |-> IF i \in Present THEN "active" ELSE "absent"]
  /\ joined = [i \in Identities |-> 0]
  /\ questions = <<>> /\ events = <<>>
  /\ inbox = {} /\ unread = {} /\ attention = {}
  /\ call = [r \in Requests |-> Idle]
  /\ crashes = 0

Next ==
  \/ \E r \in Requests :
       \/ \E actor \in Identities : Accept(r, actor)
       \/ \E o \in Operations : Begin(r, o)
       \/ Commit(r) \/ Emit(r) \/ Resolve(r) \/ Notify(r)
  \/ \E i \in Identities : Join(i) \/ \E rows \in SUBSET unread : MarkRead(i, rows)
  \/ Crash

Spec == Init /\ [][Next]_vars

----------------------------------------------------------------------------
(* Properties *)

Working(q) ==
  {r \in Requests : call[r].pc \in {"emit", "resolve", "notify"} /\ call[r].event.q = q}

\* On the event loop a question is answered by someone it is addressed to at
\* that moment, however requests wait for their bodies.
AnsweredByAddressee ==
  \A q \in DOMAIN questions : questions[q].status = "answered" =>
    IsAddressee(questions[q].by, questions[q])

\* And what is closed stays as it is: answer, closer and addressee.
ClosedIsFinal ==
  [][\A q \in DOMAIN questions :
       questions[q].status # "open" => questions'[q] = questions[q]]_vars

\* Every open question reached the inbox of whom it waits for: the one it is
\* addressed to now, or each member of the group who was there when it was announced
\* and has not been revoked; of a group of more than GroupMax, GroupMax members.  Who
\* comes later may answer it and has no copy of it.  Except those being announced, and
\* one for every crash.
Holders(n) == {i \in Identities : <<i, n>> \in inbox}
ToldMembers(group, n) ==
  \/ Cardinality(Holders(n)) = GroupMax
  \/ \A i \in Members(group) : status[i] = "active" /\ joined[i] < n => i \in Holders(n)
Reached(q) ==
  LET to == questions[q].to IN
  \E n \in DOMAIN events :
    /\ events[n].q = q /\ events[n].to = to
    /\ IF to \in Groups THEN ToldMembers(to, n) ELSE to \in Holders(n)
OpenIsDelivered ==
  LET missed == {q \in DOMAIN questions :
                   questions[q].status = "open" /\ Working(q) = {} /\ ~Reached(q)}
  IN Cardinality(missed) <= crashes

\* Once a question is closed nobody is left with an unread copy of it, as it was
\* asked or reassigned, except while it is being closed, and for one question for
\* every crash.  The answer is another matter: it is for the asker to read.
IsCopy(row, q) == events[row[2]].q = q /\ events[row[2]].verb # "answered"
ClosedLeavesNothingUnread ==
  LET left == {q \in DOMAIN questions :
                 /\ questions[q].status # "open" /\ Working(q) = {}
                 /\ \E row \in unread : IsCopy(row, q)}
  IN Cardinality(left) <= crashes

\* A question asked of a human, of all humans or of everyone is in the human
\* attention queue, except while it is being asked, and for one for every crash.
AskedIsNoticed ==
  LET unnoticed == {e \in DOMAIN events :
                      /\ events[e].verb = "asked" /\ Working(events[e].q) = {}
                      /\ events[e].to \in Humans \cup {"humans", "everyone"}
                      /\ <<events[e].q, events[e].to>> \notin attention}
  IN Cardinality(unnoticed) <= crashes

\* Whoever has been revoked, some active identity may still withdraw any open
\* question, so that no object stays frozen for ever.
EscapeHatch ==
  \A q \in DOMAIN questions : questions[q].status = "open" =>
    \E i \in Identities :
      status[i] = "active" /\ (questions[q].asker = i \/ IsAdmin(i))

\* The design's claim that an addressed event is unread until its addressee reads
\* it, for the answer: the asker finds it in his inbox on return.
AskerSeesAnswer ==
  [][\A row \in unread \ unread' :
       events[row[2]].verb = "answered" => \E rows \in SUBSET unread : MarkRead(row[1], rows)]_vars

\* The design's claim that an answer is terminal.
AnswerIsTerminal ==
  [][\A q \in DOMAIN questions :
       questions[q].status = "answered" => questions'[q] = questions[q]]_vars
=============================================================================
