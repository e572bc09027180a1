-------------------------- MODULE QuestionFlowProofs --------------------------
(* Theorems about QuestionFlow, for any identities, questions, requests and   *)
(* bounds: who can always withdraw; and, when the event loop serves every      *)
(* request, who answers and that what is closed stays closed.                *)
EXTENDS QuestionFlow, FiniteSetTheorems, TLAPS

----------------------------------------------------------------------------
(* Types *)

Addressees == Identities \cup Groups
Rows == [asker : Identities, to : Addressees, status : {"open", "answered", "withdrawn"},
         by : Identities]
Announcements == [verb : {"asked", "answered", "withdrawn", "reassigned"}, q : Questions,
                  to : Addressees \cup {"nobody"}]
Accepted == [pc : {"accepted"}, actor : Identities]
Checked == [pc : {"commit"}, actor : Identities, o : Operations]
Announced == [pc : {"emit", "resolve", "notify"}, actor : Identities, event : Announcements]
Calls == {Idle} \cup Accepted \cup Checked \cup Announced

Statuses == {"absent", "active", "revoked"}

TypeInv ==
  /\ status \in [Identities -> Statuses]
  /\ DOMAIN questions \subseteq Questions
  /\ questions \in [DOMAIN questions -> Rows]
  /\ call \in [Requests -> Calls]

\* The four stages of a call can be told apart.
LEMMA Stages ==
  ASSUME NEW c \in Calls
  PROVE  /\ c.pc = "idle" => c = Idle
         /\ c.pc = "accepted" => c \in Accepted
         /\ c.pc = "commit" => c \in Checked
         /\ c.pc \in {"emit", "resolve", "notify"} => c \in Announced
         /\ c.pc \in {"idle", "accepted", "commit", "emit", "resolve", "notify"}
BY DEF Calls, Idle, Accepted, Checked, Announced

\* What an operation names, by its kind.
LEMMA OperationKinds ==
  ASSUME NEW o \in Operations
  PROVE  /\ o.op = "ask" => o.to \in Addressees
         /\ o.op \in {"answer", "withdraw"} => o.q \in Questions
         /\ o.op = "reassign" => o.q \in Questions /\ o.to \in Identities
         /\ o.op = "revoke" => o.target \in Identities
BY DEF Operations, Addressees

----------------------------------------------------------------------------
(* What the transactions do *)

\* A request announces the event of what it has committed.
LEMMA Announces ==
  ASSUME TypeInv, NEW r \in Requests, call[r].pc = "commit",
         NEW verb \in {"asked", "answered", "withdrawn", "reassigned"},
         NEW q \in Questions, NEW to \in Addressees \cup {"nobody"},
         Announcing(r, verb, q, to)
  PROVE  /\ call' \in [Requests -> Calls] /\ status' = status
         /\ call'[r].pc = "emit" /\ \A s \in Requests \ {r} : call'[s] = call[s]
<1> DEFINE c == [pc |-> "emit", actor |-> call[r].actor,
                 event |-> [verb |-> verb, q |-> q, to |-> to]]
<1>1. call[r] \in Checked
  BY Stages DEF TypeInv
<1>2. c \in Announced
  BY <1>1 DEF Announced, Announcements, Checked
<1>3. call' = [call EXCEPT ![r] = c] /\ status' = status
  BY DEF Announcing
<1>4. c \in Calls /\ c.pc = "emit"
  BY <1>2 DEF Calls
<1> HIDE DEF c
<1> QED
  BY <1>3, <1>4 DEF TypeInv

\* Closing changes the status and the closer of one row.
LEMMA Closes ==
  ASSUME TypeInv, NEW q \in DOMAIN questions, NEW how \in {"answered", "withdrawn"},
         NEW by \in Identities, Close(q, how, by)
  PROVE  /\ DOMAIN questions' = DOMAIN questions /\ questions' \in [DOMAIN questions -> Rows]
         /\ questions'[q].status = how /\ questions'[q].by = by
         /\ questions'[q].to = questions[q].to
         /\ \A k \in DOMAIN questions \ {q} : questions'[k] = questions[k]
<1>1. questions' = [questions EXCEPT ![q] = [questions[q] EXCEPT !.status = how, !.by = by]]
  BY DEF Close
<1>2. questions[q] \in Rows
  BY DEF TypeInv
<1> DEFINE row == [questions[q] EXCEPT !.status = how, !.by = by]
<1>3. row \in Rows /\ row.status = how /\ row.by = by /\ row.to = questions[q].to
  BY <1>2 DEF Rows
<1> HIDE DEF row
<1>4. questions' = [questions EXCEPT ![q] = row]
  BY <1>1 DEF row
<1> QED
  BY <1>3, <1>4 DEF TypeInv

\* What a call has checked and nothing undoes: its question is there, and the
\* identity it revokes may be revoked by its actor.
CallsFit ==
  \A r \in Requests : call[r].pc = "commit" =>
    LET o == call[r].o IN
    /\ o.op \in {"answer", "withdraw", "reassign"} => o.q \in DOMAIN questions
    /\ o.op = "revoke" => MayRevoke(call[r].actor, o.target)

\* The transaction of a call, as far as it concerns questions, identities and calls.
Transaction(r, actor, o) ==
  /\ DOMAIN questions \subseteq DOMAIN questions' /\ DOMAIN questions' \subseteq Questions
  /\ questions' \in [DOMAIN questions' -> Rows]
  /\ \A k \in DOMAIN questions' \ DOMAIN questions : questions'[k].status = "open"
  /\ \A k \in DOMAIN questions : \/ questions'[k] = questions[k]
                                 \/ o.op \in {"answer", "withdraw", "reassign"} /\ k = o.q
  /\ o.op = "answer" => /\ questions'[o.q].by = actor
                        /\ questions'[o.q].to = questions[o.q].to
  /\ o.op = "withdraw" => questions'[o.q].status = "withdrawn"
  /\ o.op = "reassign" => questions'[o.q].status = questions[o.q].status
  /\ \/ status' = status
     \/ o.op = "revoke" /\ status' = [status EXCEPT ![o.target] = "revoked"]
  /\ call' \in [Requests -> Calls] /\ call'[r].pc \in {"emit", "idle"}
  /\ \A s \in Requests \ {r} : call'[s] = call[s]

\* Every commit is such a transaction.
LEMMA CommitIsTransaction ==
  ASSUME TypeInv, CallsFit, NEW r \in Requests, Commit(r)
  PROVE  Transaction(r, call[r].actor, call[r].o)
<1> DEFINE actor == call[r].actor
           o == call[r].o
<1>1. call[r].pc = "commit" /\ call[r] \in Checked
  BY Stages DEF Commit, TypeInv
<1>2. actor \in Identities /\ o \in Operations
  BY <1>1 DEF Checked
<1> HIDE DEF actor, o
<1>3. CASE o.op = "ask" /\ CommitAsk(r, actor, o)
  <2>0. o.to \in Addressees
    BY <1>2, <1>3, OperationKinds
  <2>1. PICK q \in Questions \ DOMAIN questions :
          /\ questions' = [k \in DOMAIN questions \cup {q} |->
                             IF k = q THEN [asker |-> actor, to |-> o.to, status |-> "open",
                                            by |-> actor]
                             ELSE questions[k]]
          /\ Announcing(r, "asked", q, o.to)
    BY <1>3 DEF CommitAsk
  <2>2. [asker |-> actor, to |-> o.to, status |-> "open", by |-> actor] \in Rows
    BY <1>2, <2>0 DEF Rows
  <2>3. /\ DOMAIN questions' = DOMAIN questions \cup {q}
        /\ questions' \in [DOMAIN questions' -> Rows]
        /\ questions'[q].status = "open"
        /\ \A k \in DOMAIN questions : questions'[k] = questions[k]
    BY <2>1, <2>2 DEF TypeInv
  <2>4. /\ call' \in [Requests -> Calls] /\ status' = status
        /\ call'[r].pc = "emit" /\ \A s \in Requests \ {r} : call'[s] = call[s]
    BY <1>1, <2>0, <2>1, Announces
  <2> QED
    BY <1>3, <2>3, <2>4 DEF Transaction, TypeInv, actor, o
<1>4. CASE o.op = "answer" /\ CommitAnswer(r, actor, o)
  <2>1. o.q \in DOMAIN questions /\ o.q \in Questions
    BY <1>1, <1>4 DEF CallsFit, TypeInv, o
  <2>2. questions[o.q].asker \in Addressees
    BY <2>1 DEF TypeInv, Rows, Addressees
  <2>3. /\ DOMAIN questions' = DOMAIN questions /\ questions' \in [DOMAIN questions -> Rows]
        /\ questions'[o.q].by = actor /\ questions'[o.q].to = questions[o.q].to
        /\ \A k \in DOMAIN questions \ {o.q} : questions'[k] = questions[k]
    BY <1>2, <1>4, <2>1, Closes DEF CommitAnswer
  <2>4. /\ call' \in [Requests -> Calls] /\ status' = status
        /\ call'[r].pc = "emit" /\ \A s \in Requests \ {r} : call'[s] = call[s]
    BY <1>1, <1>4, <2>1, <2>2, Announces DEF CommitAnswer
  <2> QED
    BY <1>4, <2>1, <2>3, <2>4 DEF Transaction, TypeInv, actor, o
<1>5. CASE o.op = "withdraw" /\ CommitWithdraw(r, actor, o)
  <2>1. o.q \in DOMAIN questions /\ o.q \in Questions
    BY <1>1, <1>5 DEF CallsFit, TypeInv, o
  <2>3. /\ DOMAIN questions' = DOMAIN questions /\ questions' \in [DOMAIN questions -> Rows]
        /\ questions'[o.q].status = "withdrawn"
        /\ \A k \in DOMAIN questions \ {o.q} : questions'[k] = questions[k]
    BY <1>2, <1>5, <2>1, Closes DEF CommitWithdraw
  <2>4. /\ call' \in [Requests -> Calls] /\ status' = status
        /\ call'[r].pc = "emit" /\ \A s \in Requests \ {r} : call'[s] = call[s]
    BY <1>1, <1>5, <2>1, Announces DEF CommitWithdraw
  <2> QED
    BY <1>5, <2>1, <2>3, <2>4 DEF Transaction, TypeInv, actor, o
<1>6. CASE o.op = "reassign" /\ CommitReassign(r, o)
  <2>1. o.q \in DOMAIN questions /\ o.q \in Questions
    BY <1>1, <1>6 DEF CallsFit, TypeInv, o
  <2>2. o.to \in Identities /\ o.to \in Addressees
    BY <1>2, <1>6, OperationKinds DEF Addressees
  <2>3. questions[o.q] \in Rows
    BY <2>1 DEF TypeInv
  <2> DEFINE row == [questions[o.q] EXCEPT !.to = o.to]
  <2>4. row \in Rows /\ row.status = questions[o.q].status
    BY <2>2, <2>3 DEF Rows
  <2>5. questions' = [questions EXCEPT ![o.q] = row]
    BY <1>6 DEF CommitReassign
  <2> HIDE DEF row
  <2>6. /\ DOMAIN questions' = DOMAIN questions /\ questions' \in [DOMAIN questions -> Rows]
        /\ questions'[o.q].status = questions[o.q].status
        /\ \A k \in DOMAIN questions \ {o.q} : questions'[k] = questions[k]
    BY <2>1, <2>4, <2>5 DEF TypeInv
  <2>7. /\ call' \in [Requests -> Calls] /\ status' = status
        /\ call'[r].pc = "emit" /\ \A s \in Requests \ {r} : call'[s] = call[s]
    BY <1>1, <1>6, <2>1, <2>2, Announces DEF CommitReassign
  <2> QED
    BY <1>6, <2>1, <2>6, <2>7 DEF Transaction, TypeInv, actor, o
<1>7. CASE o.op = "revoke" /\ CommitRevoke(r, o)
  <2>1. /\ status' = [status EXCEPT ![o.target] = "revoked"]
        /\ call' = [call EXCEPT ![r] = Idle] /\ questions' = questions
    BY <1>7 DEF CommitRevoke
  <2>2. call' \in [Requests -> Calls] /\ call'[r].pc = "idle"
    BY <2>1 DEF TypeInv, Calls, Idle
  <2>3. \A s \in Requests \ {r} : call'[s] = call[s]
    BY <2>1 DEF TypeInv
  <2> QED
    BY <1>7, <2>1, <2>2, <2>3 DEF Transaction, TypeInv, actor, o
<1> QED
  BY <1>3, <1>4, <1>5, <1>6, <1>7 DEF Commit, actor, o

----------------------------------------------------------------------------
(* What the other steps do *)

\* A call passes its checks.
Begins(r) ==
  /\ call[r].pc = "accepted" /\ LoopFree(r)
  /\ call'[r].pc = "commit" /\ Allowed(call'[r].actor, call'[r].o)
  /\ \A s \in Requests \ {r} : call'[s] = call[s]

\* A call goes on that does not start to run.
GoesOn(r) ==
  \/ call'[r] = call[r]
  \/ call'[r].pc \in {"idle", "accepted"}
  \/ Running(r) /\ call'[r].pc \in {"resolve", "notify"}

\* One request replaces its call.
LEMMA Replaces ==
  ASSUME TypeInv, NEW r \in Requests, NEW c \in Calls, call' = [call EXCEPT ![r] = c]
  PROVE  /\ call' \in [Requests -> Calls] /\ call'[r] = c
         /\ \A s \in Requests \ {r} : call'[s] = call[s]
BY DEF TypeInv

\* Nobody who is there becomes another.
NobodyChanges ==
  /\ status' \in [Identities -> Statuses]
  /\ \A i \in Identities : status[i] # "absent" => status'[i] = status[i]

\* No other step changes questions or the identities there are; at most one call begins.
LEMMA OtherSteps ==
  ASSUME TypeInv, Next, \A r \in Requests : ~Commit(r)
  PROVE  /\ NobodyChanges /\ questions' = questions /\ call' \in [Requests -> Calls]
         /\ \/ \E r \in Requests : Begins(r)
            \/ \A r \in Requests : GoesOn(r)
<1> DEFINE Goal == /\ NobodyChanges /\ questions' = questions /\ call' \in [Requests -> Calls]
                   /\ \/ \E r \in Requests : Begins(r)
                      \/ \A r \in Requests : GoesOn(r)
<1>0. UNCHANGED status => NobodyChanges
  BY DEF TypeInv, NobodyChanges
<1>1. ASSUME NEW r \in Requests, NEW actor \in Identities, Accept(r, actor) PROVE Goal
  <2> DEFINE c == [pc |-> "accepted", actor |-> actor]
  <2>1. c \in Calls /\ c.pc = "accepted"
    BY DEF Calls, Accepted
  <2>2. call' = [call EXCEPT ![r] = c] /\ UNCHANGED <<status, questions>>
    BY <1>1 DEF Accept
  <2> HIDE DEF c
  <2> QED
    BY <1>0, <2>1, <2>2, Replaces DEF GoesOn
<1>2. ASSUME NEW r \in Requests, NEW o \in Operations, Begin(r, o) PROVE Goal
  <2> DEFINE c == [pc |-> "commit", actor |-> call[r].actor, o |-> o]
  <2>1. call[r] \in Accepted /\ call[r].pc = "accepted" /\ LoopFree(r)
    BY <1>2, Stages DEF Begin, TypeInv
  <2>2. UNCHANGED <<status, questions>>
    BY <1>2 DEF Begin
  <2>3. CASE Allowed(call[r].actor, o)
    <3>1. call' = [call EXCEPT ![r] = c]
      BY <1>2, <2>3 DEF Begin
    <3>2. c \in Calls /\ c.pc = "commit" /\ c.actor = call[r].actor /\ c.o = o
      BY <2>1 DEF Calls, Checked, Accepted
    <3> HIDE DEF c
    <3>3. /\ call' \in [Requests -> Calls] /\ call'[r] = c
          /\ \A s \in Requests \ {r} : call'[s] = call[s]
      BY <3>1, <3>2, Replaces
    <3>4. Begins(r)
      BY <2>1, <2>3, <3>2, <3>3 DEF Begins
    <3> QED
      BY <1>0, <2>2, <3>3, <3>4
  <2>4. CASE ~Allowed(call[r].actor, o)
    <3>1. call' = [call EXCEPT ![r] = Idle]
      BY <1>2, <2>4 DEF Begin
    <3>2. Idle \in Calls /\ Idle.pc = "idle"
      BY DEF Calls, Idle
    <3> QED
      BY <1>0, <2>2, <3>1, <3>2, Replaces DEF GoesOn
  <2> QED
    BY <2>3, <2>4
<1>3. ASSUME NEW r \in Requests, Emit(r) \/ Resolve(r) \/ Notify(r) PROVE Goal
  <2>1. call[r] \in Announced /\ Running(r)
    BY <1>3, Stages DEF Emit, Resolve, Notify, TypeInv, Running
  <2>2. Idle \in Calls /\ Idle.pc = "idle"
    BY DEF Calls, Idle
  <2>3. \A pc \in {"resolve", "notify"} : /\ [call[r] EXCEPT !.pc = pc] \in Calls
                                        /\ [call[r] EXCEPT !.pc = pc].pc = pc
    BY <2>1 DEF Announced, Calls
  <2>4. UNCHANGED <<status, questions>>
    BY <1>3 DEF Emit, Resolve, Notify
  <2>5. \E c \in Calls : /\ c.pc \in {"idle", "resolve", "notify"}
                         /\ call' = [call EXCEPT ![r] = c]
    <3>1. CASE Emit(r)
      <4>1. NextPc(call[r].event) \in {"idle", "resolve", "notify"}
        BY DEF NextPc
      <4>2. CASE NextPc(call[r].event) = "idle"
        BY <2>2, <3>1, <4>2 DEF Emit
      <4>3. CASE NextPc(call[r].event) # "idle"
        <5>1. call' = [call EXCEPT ![r] = [call[r] EXCEPT !.pc = NextPc(call[r].event)]]
          BY <3>1, <4>3 DEF Emit
        <5> QED
          BY <2>3, <4>1, <4>3, <5>1
      <4> QED
        BY <4>2, <4>3
    <3>2. CASE Resolve(r)
      <4>1. CASE call[r].event.verb = "answered"
        <5>1. call' = [call EXCEPT ![r] = [call[r] EXCEPT !.pc = "notify"]]
          BY <3>2, <4>1 DEF Resolve
        <5> QED
          BY <2>3, <5>1
      <4>2. CASE call[r].event.verb # "answered"
        BY <2>2, <3>2, <4>2 DEF Resolve
      <4> QED
        BY <4>1, <4>2
    <3>3. CASE Notify(r)
      BY <2>2, <3>3 DEF Notify
    <3> QED
      BY <1>3, <3>1, <3>2, <3>3
  <2> QED
    BY <1>0, <2>1, <2>4, <2>5, Replaces DEF GoesOn
<1>4. ASSUME NEW i \in Identities, NEW S, MarkRead(i, S) PROVE Goal
  BY <1>0, <1>4 DEF MarkRead, TypeInv, GoesOn
<1>5. ASSUME Crash PROVE Goal
  BY <1>0, <1>5 DEF Crash, TypeInv, GoesOn, Calls, Idle
<1>6. ASSUME NEW i \in Identities, Join(i) PROVE Goal
  <2>1. NobodyChanges
    BY <1>6 DEF Join, TypeInv, NobodyChanges, Statuses
  <2> QED
    BY <1>6, <2>1 DEF Join, TypeInv, GoesOn
<1> QED
  BY <1>1, <1>2, <1>3, <1>4, <1>5, <1>6 DEF Next

----------------------------------------------------------------------------
(* The superadmin stays, whoever runs on whichever thread                   *)

RootInv == TypeInv /\ CallsFit /\ status[Root] = "active"

\* The superadmin is there from the start.
LEMMA Initially == ASSUME Init PROVE RootInv
<1>1. TypeInv
  BY DEF Init, TypeInv, Calls, Statuses
<1>2. CallsFit
  BY DEF Init, CallsFit, Idle
<1> QED
  BY <1>1, <1>2, PresentAssumption DEF Init, RootInv, Identities, Humans

\* Nobody may revoke the superadmin.
LEMMA RootIsSafe == ASSUME NEW actor, NEW o, MayRevoke(actor, o) PROVE o # Root
BY KindsAssumption DEF MayRevoke, Humans

\* No commit revokes the superadmin.
LEMMA RootInvTransaction ==
  ASSUME RootInv, NEW r \in Requests, Commit(r)
  PROVE  RootInv'
<1> DEFINE actor == call[r].actor
           o == call[r].o
<1>1. Transaction(r, actor, o)
  BY CommitIsTransaction DEF RootInv
<1>2. call[r].pc = "commit"
  BY DEF Commit
<1>3. status' \in [Identities -> Statuses]
  BY <1>1 DEF Transaction, RootInv, TypeInv, Statuses
<1>4. TypeInv'
  BY <1>1, <1>3 DEF Transaction, TypeInv
<1>5. CallsFit'
  <2> SUFFICES ASSUME NEW s \in Requests, call'[s].pc = "commit" PROVE CallsFit!(s)'
    BY DEF CallsFit
  <2>1. call'[s] = call[s]
    BY <1>1 DEF Transaction
  <2> QED
    BY <1>1, <2>1 DEF Transaction, RootInv, CallsFit
<1>6. status'[Root] = "active"
  <2>1. o.op = "revoke" => o.target # Root
    BY <1>2, RootIsSafe DEF RootInv, CallsFit
  <2>2. Root \in Identities
    BY DEF Identities, Humans
  <2> QED
    BY <1>1, <2>1, <2>2 DEF Transaction, RootInv, TypeInv
<1> QED
  BY <1>4, <1>5, <1>6 DEF RootInv

\* A call that has just passed its checks fits.
LEMMA AllowedFits ==
  ASSUME NEW actor, NEW o, Allowed(actor, o)
  PROVE  /\ o.op \in {"answer", "withdraw", "reassign"} => IsOpen(o.q)
         /\ o.op = "answer" => MayAnswer(actor, o.q)
         /\ o.op = "revoke" => MayRevoke(actor, o.target)
BY DEF Allowed, MayAnswer

\* No other step does.
LEMMA RootInvOther ==
  ASSUME RootInv, Next, \A r \in Requests : ~Commit(r)
  PROVE  RootInv'
<1>1. /\ NobodyChanges /\ questions' = questions /\ call' \in [Requests -> Calls]
      /\ \/ \E r \in Requests : Begins(r)
         \/ \A r \in Requests : GoesOn(r)
  BY OtherSteps DEF RootInv
<1>2. TypeInv'
  BY <1>1 DEF RootInv, TypeInv, NobodyChanges
<1>3. CallsFit'
  <2> SUFFICES ASSUME NEW s \in Requests, call'[s].pc = "commit" PROVE CallsFit!(s)'
    BY DEF CallsFit
  <2>1. CASE call'[s] = call[s]
    BY <1>1, <2>1 DEF RootInv, CallsFit
  <2>2. CASE call'[s] # call[s]
    <3>1. Allowed(call'[s].actor, call'[s].o)
      BY <1>1, <2>2 DEF Begins, GoesOn
    <3> QED
      BY <1>1, <3>1, AllowedFits DEF IsOpen
  <2> QED
    BY <2>1, <2>2
<1>4. status'[Root] = "active"
  BY <1>1 DEF RootInv, NobodyChanges, Identities, Humans
<1> QED
  BY <1>2, <1>3, <1>4 DEF RootInv

\* The superadmin stays active for ever, for any Loop.
LEMMA RootInvariant == Spec => []RootInv
<1>1. ASSUME RootInv, [Next]_vars PROVE RootInv'
  <2>1. CASE UNCHANGED vars
    BY <1>1, <2>1 DEF vars, RootInv, TypeInv, CallsFit
  <2>2. CASE Next
    BY <1>1, <2>2, RootInvTransaction, RootInvOther
  <2> QED
    BY <1>1, <2>1, <2>2
<1> QED
  BY <1>1, Initially, PTL DEF Spec

\* However many are revoked, and on whichever threads, somebody active may withdraw
\* any open question.
THEOREM EscapeHatchStaysOpen == Spec => []EscapeHatch
<1>1. RootInv => EscapeHatch
  BY DEF RootInv, EscapeHatch, IsAdmin, Identities, Humans
<1> QED
  BY <1>1, RootInvariant, PTL

----------------------------------------------------------------------------
(* The event loop serves every request                                      *)

OneRuns == \A r, s \in Requests : Running(r) /\ Running(s) => r = s

\* What was checked holds still when it is committed.
StillAllowed ==
  \A r \in Requests : call[r].pc = "commit" =>
    LET o == call[r].o IN
    /\ o.op \in {"answer", "withdraw", "reassign"} => IsOpen(o.q)
    /\ o.op = "answer" => MayAnswer(call[r].actor, o.q)

LoopInv == OneRuns /\ StillAllowed /\ AnsweredByAddressee

\* What a call on the loop has checked holds still when it commits, so that
\* it changes open questions only.
LEMMA LoopInvTransaction ==
  ASSUME RootInv, LoopInv, NEW r \in Requests, Commit(r)
  PROVE  /\ LoopInv'
         /\ \A q \in DOMAIN questions : questions[q].status # "open" => questions'[q] = questions[q]
<1> DEFINE actor == call[r].actor
           o == call[r].o
<1>1. Transaction(r, actor, o)
  BY CommitIsTransaction DEF RootInv
<1>2. call[r].pc = "commit" /\ Running(r)
  BY DEF Commit, Running
<1>3. \A s \in Requests \ {r} : ~Running(s) /\ call'[s] = call[s]
  BY <1>1, <1>2 DEF LoopInv, OneRuns, Transaction
<1>4. OneRuns'
  BY <1>3 DEF OneRuns, Running
<1>5. StillAllowed'
  <2>1. \A s \in Requests : call'[s].pc # "commit"
    BY <1>1, <1>3 DEF Transaction, Running
  <2> QED
    BY <2>1 DEF StillAllowed
<1>6. \A q \in DOMAIN questions : questions[q].status # "open" => questions'[q] = questions[q]
  <2>1. o.op \in {"answer", "withdraw", "reassign"} => IsOpen(o.q)
    BY <1>2 DEF LoopInv, StillAllowed
  <2> QED
    BY <1>1, <2>1 DEF Transaction, IsOpen
<1>7. AnsweredByAddressee'
  <2> SUFFICES ASSUME NEW q \in DOMAIN questions', questions'[q].status = "answered"
               PROVE  IsAddressee(questions'[q].by, questions'[q])
    BY DEF AnsweredByAddressee, IsAddressee
  <2>1. q \in DOMAIN questions
    BY <1>1 DEF Transaction
  <2>2. CASE questions'[q] = questions[q]
    BY <2>1, <2>2 DEF LoopInv, AnsweredByAddressee
  <2>3. CASE questions'[q] # questions[q]
    <3>1. o.op \in {"answer", "withdraw", "reassign"} /\ q = o.q
      BY <1>1, <2>1, <2>3 DEF Transaction
    <3>2. questions[q].status = "open"
      BY <1>2, <3>1 DEF LoopInv, StillAllowed, IsOpen
    <3>3. o.op = "answer"
      BY <1>1, <3>1, <3>2 DEF Transaction
    <3>4. questions'[q].by = actor /\ questions'[q].to = questions[q].to
      BY <1>1, <3>1, <3>3 DEF Transaction
    <3>5. IsAddressee(actor, questions[q])
      BY <1>2, <3>1, <3>3 DEF LoopInv, StillAllowed, MayAnswer
    <3> QED
      BY <3>4, <3>5 DEF IsAddressee
  <2> QED
    BY <2>2, <2>3
<1> QED
  BY <1>4, <1>5, <1>6, <1>7 DEF LoopInv

\* No other step of the loop undoes what a call has checked.
LEMMA LoopInvOther ==
  ASSUME RootInv, LoopInv, Loop = Requests, Next, \A r \in Requests : ~Commit(r)
  PROVE  LoopInv' /\ questions' = questions
<1>1. /\ NobodyChanges /\ questions' = questions /\ call' \in [Requests -> Calls]
      /\ \/ \E r \in Requests : Begins(r)
         \/ \A r \in Requests : GoesOn(r)
  BY OtherSteps DEF RootInv
<1>2. OneRuns'
  <2>1. CASE \A r \in Requests : GoesOn(r)
    <3>1. \A r \in Requests : Running(r)' => Running(r)
      BY <2>1 DEF GoesOn, Running
    <3> QED
      BY <3>1 DEF LoopInv, OneRuns
  <2>2. ASSUME NEW r \in Requests, Begins(r) PROVE OneRuns'
    <3>1. \A s \in Requests \ {r} : ~Running(s)'
      BY <2>2 DEF Begins, LoopFree, Running
    <3> QED
      BY <3>1 DEF OneRuns
  <2> QED
    BY <1>1, <2>1, <2>2
<1>3. StillAllowed'
  <2> SUFFICES ASSUME NEW s \in Requests, call'[s].pc = "commit" PROVE StillAllowed!(s)'
    BY DEF StillAllowed
  <2>1. CASE call'[s] = call[s]
    BY <1>1, <2>1 DEF LoopInv, StillAllowed, IsOpen, MayAnswer
  <2>2. CASE call'[s] # call[s]
    <3>1. Allowed(call'[s].actor, call'[s].o)
      BY <1>1, <2>2 DEF Begins, GoesOn
    <3> QED
      BY <1>1, <3>1, AllowedFits DEF IsOpen, MayAnswer
  <2> QED
    BY <2>1, <2>2
<1>4. AnsweredByAddressee'
  BY <1>1 DEF LoopInv, AnsweredByAddressee
<1> QED
  BY <1>1, <1>2, <1>3, <1>4 DEF LoopInv

\* Every step keeps the loop's invariant, and leaves closed questions alone.
LEMMA LoopStep ==
  ASSUME Loop = Requests, RootInv, LoopInv, [Next]_vars
  PROVE  /\ LoopInv'
         /\ \A q \in DOMAIN questions : questions[q].status # "open" => questions'[q] = questions[q]
<1>1. CASE UNCHANGED vars
  BY <1>1 DEF vars, LoopInv, OneRuns, StillAllowed, AnsweredByAddressee, Running, IsOpen, MayAnswer
<1>2. CASE Next
  BY <1>2, LoopInvTransaction, LoopInvOther
<1> QED
  BY <1>1, <1>2

\* The loop's invariant holds for ever.
LEMMA LoopInvariant == ASSUME Loop = Requests PROVE Spec => []LoopInv
<1>1. Init => LoopInv
  BY DEF Init, LoopInv, OneRuns, StillAllowed, AnsweredByAddressee, Running, Idle
<1>2. RootInv /\ LoopInv /\ [Next]_vars => LoopInv'
  BY LoopStep
<1> QED
  BY <1>1, <1>2, RootInvariant, PTL DEF Spec

\* On the event loop a question is answered by one whom it is addressed to, however
\* long requests wait for their bodies.
THEOREM AlwaysAnsweredByAddressee ==
  ASSUME Loop = Requests PROVE Spec => []AnsweredByAddressee
<1>1. LoopInv => AnsweredByAddressee
  BY DEF LoopInv
<1> QED
  BY <1>1, LoopInvariant, PTL

\* On the event loop no call changes a question that is closed.
THEOREM ClosedIsAlwaysFinal == ASSUME Loop = Requests PROVE Spec => ClosedIsFinal
<1>1. ASSUME RootInv, LoopInv, [Next]_vars
      PROVE  \A q \in DOMAIN questions :
               questions[q].status # "open" => questions'[q] = questions[q]
  BY <1>1, LoopStep
<1> QED
  BY <1>1, RootInvariant, LoopInvariant, PTL DEF Spec, ClosedIsFinal

----------------------------------------------------------------------------
(* What a call on the loop leaves behind                                    *)

Telling == {"emit", "resolve", "notify"}

\* Events, inbox rows and unread rows are what they seem.
Typed ==
  /\ events \in Seq(Announcements)
  /\ inbox \subseteq Identities \X DOMAIN events /\ unread \subseteq inbox
  /\ joined \in [Identities -> Nat] /\ crashes \in Nat

\* What a call that has committed announces is true until it is done; a question
\* about to be noted has reached everybody, one whose answer is about to be has
\* left nobody with an unread copy.
Fits(pc, e) ==
  /\ e.q \in DOMAIN questions
  /\ e.verb \in {"asked", "reassigned"} =>
       questions[e.q].status = "open" /\ questions[e.q].to = e.to
  /\ e.verb \in {"answered", "withdrawn"} => questions[e.q].status # "open"
  /\ pc = "resolve" => e.verb \in {"answered", "withdrawn"}
  /\ pc = "notify" => \/ e.verb = "asked" /\ Reached(e.q)
                      \/ e.verb = "answered" /\ \A row \in unread : events[row[2]].q # e.q

\* A question is asked once: until then it has no event, and then one of these.
FirstTime(pc, e) ==
  e.verb = "asked" =>
    /\ pc = "emit" => \A i \in DOMAIN events : events[i].q # e.q
    /\ pc = "notify" => \A i \in DOMAIN events :
                          events[i].verb = "asked" /\ events[i].q = e.q => events[i] = e
AskedOnce ==
  /\ \A i \in DOMAIN events : events[i].q \in DOMAIN questions
  /\ \A i, j \in DOMAIN events :
       events[i].verb = "asked" /\ events[j].verb = "asked" /\ events[i].q = events[j].q => i = j
AllFit ==
  \A r \in Requests, pc \in Telling, e \in Announcements :
    call[r].pc = pc /\ call[r].event = e => Fits(pc, e) /\ FirstTime(pc, e)

\* What crashes have cost.  A note is only missing for good if the question is not
\* being asked any more, whatever else is being done with it.
Missed == {q \in DOMAIN questions :
             questions[q].status = "open" /\ Working(q) = {} /\ ~Reached(q)}
Left == {q \in DOMAIN questions :
           /\ questions[q].status # "open" /\ Working(q) = {}
           /\ \E row \in unread : IsCopy(row, q)}
Asking(q) == {r \in Working(q) : call[r].event.verb = "asked"}
Unnoted == {i \in DOMAIN events :
              /\ events[i].verb = "asked" /\ Asking(events[i].q) = {}
              /\ NeedsHuman(events[i].to)
              /\ <<events[i].q, events[i].to>> \notin attention}

\* At most one of each for every crash.
Bounded(S) == IsFiniteSet(S) /\ Cardinality(S) <= crashes
Losses == Bounded(Missed) /\ Bounded(Left) /\ Bounded(Unnoted)
Told == Typed /\ AskedOnce /\ AllFit

\* A step that costs nothing.
Keeps == Told' /\ Missed' \subseteq Missed /\ Left' \subseteq Left /\ Unnoted' \subseteq Unnoted

----------------------------------------------------------------------------
\* While one call runs no other is telling.
LEMMA RunsAlone ==
  ASSUME LoopInv, NEW r \in Requests, Running(r), NEW s \in Requests \ {r}
  PROVE  call[s].pc \in {"idle", "accepted"}
BY DEF LoopInv, OneRuns, Running

\* Whoever is new is later than every event there is.
NobodyBack ==
  \A i \in Identities, n \in DOMAIN events :
    status'[i] = "active" /\ joined'[i] < n => status[i] = "active" /\ joined[i] < n

\* The log and the inbox rows of its events stay what they are.
LogStays ==
  \A n \in DOMAIN events :
    n \in DOMAIN events' /\ events'[n] = events[n] /\ Holders(n)' = Holders(n)

\* Who has been reached stays reached.
LEMMA ReachedStays ==
  ASSUME NEW q, Reached(q), questions'[q].to = questions[q].to, NobodyBack, LogStays
  PROVE  Reached(q)'
<1> PICK to : to = questions[q].to
  OBVIOUS
<1>1. PICK n \in DOMAIN events :
        /\ events[n].q = q /\ events[n].to = to
        /\ IF to \in Groups THEN ToldMembers(to, n) ELSE to \in Holders(n)
  BY DEF Reached
<1>2. (to \in Groups /\ ToldMembers(to, n)) => ToldMembers(to, n)'
  <2>1. \A i \in Members(to) : i \in Identities \/ to \notin Groups
    BY DEF Members, Identities, Groups
  <2> QED
    BY <2>1 DEF ToldMembers, NobodyBack, LogStays
<1>3. /\ n \in DOMAIN events' /\ events'[n].q = q /\ events'[n].to = questions'[q].to
      /\ IF to \in Groups THEN ToldMembers(to, n)' ELSE to \in Holders(n)'
  BY <1>1, <1>2 DEF LogStays
<1> QED
  BY <1>3 DEF Reached

\* Nothing of the kind changes.
LEMMA Untouched ==
  ASSUME UNCHANGED <<status, joined, events, inbox>>
  PROVE  NobodyBack /\ LogStays
BY DEF NobodyBack, LogStays, Holders

\* Steps that tell nothing: a request accepted, checked or refused, a reader, somebody
\* who comes, a revocation.
LEMMA KeepsWhenQuiet ==
  ASSUME Told, UNCHANGED <<questions, events, inbox, attention, crashes>>,
         unread' \subseteq unread, NobodyBack, joined' \in [Identities -> Nat],
         \A s \in Requests : \/ call'[s] = call[s]
                             \/ call[s].pc \notin Telling /\ call'[s].pc \notin Telling
  PROVE  Keeps
<1>0. LogStays
  BY DEF LogStays, Holders
<1>1. \A q : Reached(q) => Reached(q)'
  BY <1>0, ReachedStays
<1>2. \A q : Working(q)' = Working(q) /\ Asking(q)' = Asking(q)
  BY DEF Working, Asking, Telling
<1>3. Typed' /\ AskedOnce'
  BY DEF Told, Typed, AskedOnce
<1>4. AllFit'
  <2> SUFFICES ASSUME NEW r \in Requests, NEW pc \in Telling, NEW e \in Announcements,
                      call'[r].pc = pc, call'[r].event = e
               PROVE  Fits(pc, e)' /\ FirstTime(pc, e)'
    BY DEF AllFit
  <2>1. Fits(pc, e) /\ FirstTime(pc, e)
    BY DEF Told, AllFit
  <2> QED
    BY <1>1, <2>1 DEF Fits, FirstTime
<1>5. Missed' \subseteq Missed /\ Left' \subseteq Left /\ Unnoted' \subseteq Unnoted
  BY <1>1, <1>2 DEF Missed, Left, Unnoted, IsCopy
<1> QED
  BY <1>3, <1>4, <1>5 DEF Keeps, Told

\* A transaction on a question, and the event it leaves to be told.
Tells(r) ==
  \E e \in Announcements :
    /\ DOMAIN questions' = DOMAIN questions \cup {e.q}
    /\ \A k \in DOMAIN questions \ {e.q} : questions'[k] = questions[k]
    /\ e.verb \in {"asked", "reassigned"} =>
         questions'[e.q].status = "open" /\ questions'[e.q].to = e.to
    /\ e.verb \in {"answered", "withdrawn"} => questions'[e.q].status # "open"
    /\ e.verb = "asked" => e.q \notin DOMAIN questions
    /\ call' = [call EXCEPT ![r] = [pc |-> "emit", actor |-> call[r].actor, event |-> e]]
    /\ UNCHANGED <<status, joined, events, inbox, unread, attention, crashes>>

\* On the loop every transaction is one of these, or revokes an identity.
LEMMA CommitTells ==
  ASSUME RootInv, LoopInv, NEW r \in Requests, Commit(r)
  PROVE  Tells(r) \/ CommitRevoke(r, call[r].o)
<1> DEFINE actor == call[r].actor
           o == call[r].o
<1>1. call[r].pc = "commit" /\ call[r] \in Checked
  BY Stages DEF Commit, RootInv, TypeInv
<1>2. actor \in Identities /\ o \in Operations
  BY <1>1 DEF Checked
<1>3. /\ o.op \in {"answer", "withdraw", "reassign"} =>
           o.q \in DOMAIN questions /\ questions[o.q].status = "open" /\ questions[o.q] \in Rows
      /\ questions \in [DOMAIN questions -> Rows] /\ DOMAIN questions \subseteq Questions
  BY <1>1 DEF LoopInv, StillAllowed, IsOpen, RootInv, TypeInv
<1> HIDE DEF o
<1>4. CASE o.op = "ask" /\ CommitAsk(r, actor, o)
  <2>1. o.to \in Addressees
    BY <1>2, <1>4, OperationKinds
  <2>2. PICK q \in Questions \ DOMAIN questions :
          /\ questions' = [k \in DOMAIN questions \cup {q} |->
                             IF k = q THEN [asker |-> actor, to |-> o.to, status |-> "open",
                                            by |-> actor]
                             ELSE questions[k]]
          /\ Announcing(r, "asked", q, o.to)
    BY <1>4 DEF CommitAsk
  <2> DEFINE e == [verb |-> "asked", q |-> q, to |-> o.to]
  <2>3. e \in Announcements /\ e.verb = "asked" /\ e.q = q /\ e.to = o.to
    BY <2>1 DEF Announcements
  <2>4. /\ DOMAIN questions' = DOMAIN questions \cup {q}
        /\ questions'[q].status = "open" /\ questions'[q].to = o.to
        /\ \A k \in DOMAIN questions \ {q} : questions'[k] = questions[k]
    BY <2>2
  <2>5. /\ call' = [call EXCEPT ![r] = [pc |-> "emit", actor |-> call[r].actor, event |-> e]]
        /\ UNCHANGED <<status, joined, events, inbox, unread, attention, crashes>>
    BY <2>2 DEF Announcing
  <2> HIDE DEF e
  <2> QED
    BY <2>3, <2>4, <2>5 DEF Tells
<1>5. ASSUME NEW verb \in {"answered", "withdrawn", "reassigned"},
             NEW to \in Addressees \cup {"nobody"},
             o.op \in {"answer", "withdraw", "reassign"}, Announcing(r, verb, o.q, to),
             DOMAIN questions' = DOMAIN questions,
             \A k \in DOMAIN questions \ {o.q} : questions'[k] = questions[k],
             verb = "reassigned" => questions'[o.q].status = "open" /\ questions'[o.q].to = to,
             verb # "reassigned" => questions'[o.q].status # "open"
      PROVE  Tells(r)
  <2> DEFINE e == [verb |-> verb, q |-> o.q, to |-> to]
  <2>1. e \in Announcements /\ e.verb = verb /\ e.q = o.q /\ e.to = to
    BY <1>3, <1>5 DEF Announcements
  <2>2. /\ call' = [call EXCEPT ![r] = [pc |-> "emit", actor |-> call[r].actor, event |-> e]]
        /\ UNCHANGED <<status, joined, events, inbox, unread, attention, crashes>>
    BY <1>5 DEF Announcing
  <2>3. DOMAIN questions' = DOMAIN questions \cup {o.q}
    BY <1>3, <1>5
  <2> HIDE DEF e
  <2> QED
    BY <1>5, <2>1, <2>2, <2>3 DEF Tells
<1>6. CASE o.op = "answer" /\ CommitAnswer(r, actor, o)
  <2>1. /\ DOMAIN questions' = DOMAIN questions /\ questions'[o.q].status # "open"
        /\ \A k \in DOMAIN questions \ {o.q} : questions'[k] = questions[k]
    BY <1>2, <1>3, <1>6, Closes DEF CommitAnswer, RootInv
  <2>2. questions[o.q].asker \in Addressees
    BY <1>3, <1>6 DEF Rows, Addressees
  <2>3. Announcing(r, "answered", o.q, questions[o.q].asker)
    BY <1>6 DEF CommitAnswer
  <2> QED
    BY <1>5, <1>6, <2>1, <2>2, <2>3
<1>7. CASE o.op = "withdraw" /\ CommitWithdraw(r, actor, o)
  <2>1. /\ DOMAIN questions' = DOMAIN questions /\ questions'[o.q].status # "open"
        /\ \A k \in DOMAIN questions \ {o.q} : questions'[k] = questions[k]
    BY <1>2, <1>3, <1>7, Closes DEF CommitWithdraw, RootInv
  <2>2. Announcing(r, "withdrawn", o.q, "nobody")
    BY <1>7 DEF CommitWithdraw
  <2> QED
    BY <1>5, <1>7, <2>1, <2>2
<1>8. CASE o.op = "reassign" /\ CommitReassign(r, o)
  <2> DEFINE changed == [questions[o.q] EXCEPT !.to = o.to]
  <2>1. questions' = [questions EXCEPT ![o.q] = changed]
        /\ changed.status = "open" /\ changed.to = o.to
    BY <1>3, <1>8 DEF CommitReassign, Rows
  <2> HIDE DEF changed
  <2>2. /\ DOMAIN questions' = DOMAIN questions
        /\ \A k \in DOMAIN questions \ {o.q} : questions'[k] = questions[k]
        /\ questions'[o.q].status = "open" /\ questions'[o.q].to = o.to
    BY <1>3, <1>8, <2>1
  <2>3. Announcing(r, "reassigned", o.q, o.to)
    BY <1>8 DEF CommitReassign
  <2>4. o.to \in Addressees
    BY <1>2, <1>8, OperationKinds DEF Addressees
  <2> QED
    BY <1>5, <1>8, <2>2, <2>3, <2>4
<1> QED
  BY <1>4, <1>6, <1>7, <1>8 DEF Commit, o

\* A transaction on a question costs nothing: it is being told now.
LEMMA KeepsWhenCommitting ==
  ASSUME RootInv, LoopInv, Told, NEW r \in Requests, call[r].pc = "commit", Tells(r)
  PROVE  Keeps
<1> PICK e \in Announcements :
      /\ DOMAIN questions' = DOMAIN questions \cup {e.q}
      /\ \A k \in DOMAIN questions \ {e.q} : questions'[k] = questions[k]
      /\ e.verb \in {"asked", "reassigned"} =>
           questions'[e.q].status = "open" /\ questions'[e.q].to = e.to
      /\ e.verb \in {"answered", "withdrawn"} => questions'[e.q].status # "open"
      /\ e.verb = "asked" => e.q \notin DOMAIN questions
      /\ call' = [call EXCEPT ![r] = [pc |-> "emit", actor |-> call[r].actor, event |-> e]]
      /\ UNCHANGED <<status, joined, events, inbox, unread, attention, crashes>>
  BY DEF Tells
<1> DEFINE c == [pc |-> "emit", actor |-> call[r].actor, event |-> e]
<1>1. /\ call'[r] = c /\ c.pc = "emit" /\ c.event = e
      /\ \A s \in Requests \ {r} : call'[s] = call[s] /\ call[s].pc \notin Telling
  <2>1. Running(r)
    BY DEF Running
  <2> QED
    BY <2>1, RunsAlone DEF RootInv, TypeInv, Telling
<1> HIDE DEF c
<1>2. Typed' /\ AskedOnce'
  BY DEF Told, Typed, AskedOnce
<1>3. AllFit'
  <2> SUFFICES ASSUME NEW s \in Requests, NEW pc \in Telling, NEW x \in Announcements,
                      call'[s].pc = pc, call'[s].event = x
               PROVE  Fits(pc, x)' /\ FirstTime(pc, x)'
    BY DEF AllFit
  <2>1. s = r /\ pc = "emit" /\ x = e
    BY <1>1
  <2>2. e.verb = "asked" => \A i \in DOMAIN events : events[i].q # e.q
    BY DEF Told, AskedOnce
  <2> QED
    BY <2>1, <2>2 DEF Fits, FirstTime
<1>4. r \in Working(e.q)'
  BY <1>1 DEF Working
<1>5. \A q : /\ q # e.q => Working(q)' = Working(q)
             /\ Asking(q) = {}
  BY <1>1 DEF Working, Asking, Telling
<1>6. Missed' \subseteq Missed /\ Left' \subseteq Left
  <2>1. ASSUME NEW q \in DOMAIN questions', Working(q)' = {}
        PROVE  /\ q \in DOMAIN questions /\ questions'[q] = questions[q] /\ Working(q) = {}
               /\ Reached(q) => Reached(q)'
    BY <1>4, <1>5, <2>1, Untouched, ReachedStays
  <2> QED
    BY <2>1 DEF Missed, Left, IsCopy
<1>7. Unnoted' \subseteq Unnoted
  BY <1>5 DEF Unnoted
<1> QED
  BY <1>2, <1>3, <1>6, <1>7 DEF Keeps, Told

\* A call that tells is the only one, and what it tells is true.
LEMMA TellingFacts ==
  ASSUME RootInv, LoopInv, Told, NEW r \in Requests, call[r].pc \in Telling
  PROVE  /\ call[r] \in Announced /\ call[r].event \in Announcements
         /\ Fits(call[r].pc, call[r].event) /\ FirstTime(call[r].pc, call[r].event)
         /\ \A s \in Requests \ {r} : call[s].pc \notin Telling
<1>1. call[r] \in Announced
  BY Stages DEF RootInv, TypeInv, Telling
<1>2. call[r].event \in Announcements
  BY <1>1 DEF Announced
<1>3. Running(r)
  BY DEF Running, Telling
<1>4. \A s \in Requests \ {r} : call[s].pc \notin Telling
  BY <1>3, RunsAlone DEF Telling
<1> QED
  BY <1>1, <1>2, <1>4 DEF Told, AllFit

\* The only call that tells goes on or ends: who else works on a question.
LEMMA TellingMoves ==
  ASSUME RootInv, NEW r \in Requests, \A s \in Requests \ {r} : call[s].pc \notin Telling,
         call[r].pc \in Telling, NEW e, call[r].event = e,
         NEW c, call' = [call EXCEPT ![r] = c], c.pc \in Telling => c.event = e
  PROVE  /\ call'[r] = c /\ \A s \in Requests \ {r} : call'[s].pc \notin Telling
         /\ \A q : q # e.q => Working(q) = {} /\ Working(q)' = {}
         /\ \A q : q # e.q \/ e.verb # "asked" => Asking(q) = {} /\ Asking(q)' = {}
         /\ c.pc \in Telling => r \in Working(e.q)'
         /\ c.pc \in Telling /\ e.verb = "asked" => r \in Asking(e.q)'
<1>1. /\ call'[r] = c
      /\ \A s \in Requests \ {r} : call'[s] = call[s] /\ call'[s].pc \notin Telling
  BY DEF RootInv, TypeInv
<1> QED
  BY <1>1 DEF Working, Asking, Telling

\* The event and its inbox rows: whom the question waits for is reached.
LEMMA EmitReaches ==
  ASSUME RootInv, Told, NEW e \in Announcements, e.to \in Addressees, questions[e.q].to = e.to,
         NEW some \in Recipients(e.to), events' = Append(events, e),
         inbox' = inbox \cup (some \X {Len(events) + 1}), UNCHANGED <<status, joined, questions>>
  PROVE  Reached(e.q)'
<1> PICK n : n = Len(events) + 1
  OBVIOUS
<1>1. events'[n] = e /\ n \in DOMAIN events' /\ n \notin DOMAIN events
  BY DEF Told, Typed
<1>2. some \subseteq Identities
  BY DEF Recipients, Members, Identities, Groups
<1>3. Holders(n)' = some
  <2>1. \A i : <<i, n>> \notin inbox
    BY <1>1 DEF Told, Typed
  <2>2. \A i : <<i, n>> \in inbox' <=> i \in some
    BY <2>1
  <2> QED
    BY <1>2, <2>2 DEF Holders
<1>4. e.to \in Identities /\ e.to \notin Groups => e.to \in some
  BY DEF Recipients
<1>5. e.to \in Groups =>
        \/ Cardinality(some) = GroupMax
        \/ \A i \in Members(e.to) : status[i] = "active" => i \in some
  BY DEF Recipients
<1>6. e.to \in Groups => ToldMembers(e.to, n)'
  BY <1>3, <1>5 DEF ToldMembers
<1>7. IF e.to \in Groups THEN ToldMembers(e.to, n)' ELSE e.to \in Holders(n)'
  BY <1>3, <1>4, <1>6 DEF Announcements, Addressees
<1> QED
  BY <1>1, <1>7 DEF Reached

\* Telling an event costs nothing.
LEMMA KeepsWhenEmitting ==
  ASSUME RootInv, LoopInv, Told, NEW r \in Requests, Emit(r)
  PROVE  Keeps
<1> PICK e \in Announcements : e = call[r].event
  BY TellingFacts DEF Emit, Telling
<1> DEFINE n == Len(events) + 1
<1>0. PICK some \in Recipients(e.to) : inbox' = inbox \cup (some \X {n})
                                      /\ unread' = unread \cup (some \X {n})
  BY DEF Emit
<1> DEFINE rows == some \X {n}
           pc == NextPc(e)
           c == IF pc = "idle" THEN Idle ELSE [call[r] EXCEPT !.pc = pc]
<1>1. /\ call[r].pc = "emit" /\ call[r] \in Announced /\ Fits("emit", e) /\ FirstTime("emit", e)
      /\ call[r].pc \in Telling /\ \A s \in Requests \ {r} : call[s].pc \notin Telling
  BY TellingFacts DEF Emit, Telling
<1>2. /\ events' = Append(events, e) /\ inbox' = inbox \cup rows /\ unread' = unread \cup rows
      /\ call' = [call EXCEPT ![r] = c]
      /\ UNCHANGED <<status, joined, questions, attention, crashes>>
  BY <1>0 DEF Emit, RootInv, TypeInv
<1>3. /\ events \in Seq(Announcements) /\ inbox \subseteq Identities \X DOMAIN events
      /\ unread \subseteq inbox
  BY DEF Told, Typed
<1>4. /\ DOMAIN events' = DOMAIN events \cup {n} /\ n \notin DOMAIN events
      /\ events'[n] = e /\ \A i \in DOMAIN events : events'[i] = events[i]
      /\ events' \in Seq(Announcements)
  BY <1>2, <1>3
<1>5. /\ pc = "idle" => e.verb = "reassigned"
      /\ pc = "resolve" => e.verb \in {"answered", "withdrawn"}
      /\ pc = "notify" => e.verb = "asked"
      /\ pc \in {"idle", "resolve", "notify"}
  BY DEF NextPc, Announcements
<1>6. /\ c.pc = pc
      /\ c.pc \in Telling => c.event = e
      /\ c.pc \in Telling <=> pc # "idle"
  BY <1>1, <1>5 DEF Idle, Announced, Telling
<1>7. some \subseteq Identities
  BY DEF Recipients, Members, Identities, Groups
<1>8. \A row \in inbox : row[2] \in DOMAIN events /\ events'[row[2]] = events[row[2]]
  BY <1>3, <1>4
<1>9. \A row \in rows : row[2] = n
  OBVIOUS
<1>10. e.verb \in {"asked", "reassigned"} => Reached(e.q)'
  <2>1. e.verb \in {"asked", "reassigned"} => e.to \in Addressees
    BY <1>1 DEF Fits, RootInv, TypeInv, Rows
  <2> QED
    BY <1>1, <1>2, <2>1, EmitReaches DEF Fits
<1>18. NobodyBack /\ LogStays
  <2>1. \A i \in Identities, k \in DOMAIN events : <<i, k>> \notin rows
    BY <1>4
  <2> QED
    BY <1>2, <1>4, <2>1 DEF NobodyBack, LogStays, Holders
<1> HIDE DEF n, pc, c
<1>11. /\ call'[r] = c /\ \A s \in Requests \ {r} : call'[s].pc \notin Telling
       /\ \A q : q # e.q => Working(q) = {} /\ Working(q)' = {}
       /\ \A q : q # e.q \/ e.verb # "asked" => Asking(q) = {} /\ Asking(q)' = {}
       /\ c.pc \in Telling => r \in Working(e.q)'
       /\ c.pc \in Telling /\ e.verb = "asked" => r \in Asking(e.q)'
  BY <1>1, <1>2, <1>6, TellingMoves
<1>12. Typed'
  <2>1. rows \subseteq Identities \X DOMAIN events'
    BY <1>4, <1>7
  <2> HIDE DEF rows
  <2> QED
    BY <1>2, <1>3, <1>4, <2>1 DEF Typed, Told
<1> HIDE DEF rows
<1>13. AskedOnce'
  <2>1. \A i \in DOMAIN events' : events'[i].q \in DOMAIN questions'
    BY <1>1, <1>2, <1>4 DEF Told, AskedOnce, Fits
  <2>2. ASSUME NEW i \in DOMAIN events', NEW j \in DOMAIN events', events'[i].verb = "asked",
               events'[j].verb = "asked", events'[i].q = events'[j].q
        PROVE  i = j
    <3>1. CASE i \in DOMAIN events /\ j \in DOMAIN events
      BY <1>4, <2>2, <3>1 DEF Told, AskedOnce
    <3>2. CASE i = n \/ j = n
      <4>1. e.verb = "asked" => \A k \in DOMAIN events : events'[k].q # e.q
        BY <1>1, <1>4 DEF FirstTime
      <4> QED
        BY <1>4, <2>2, <3>2, <4>1
    <3> QED
      BY <1>4, <3>1, <3>2
  <2> QED
    BY <2>1, <2>2 DEF AskedOnce
<1>14. AllFit'
  <2> SUFFICES ASSUME NEW s \in Requests, NEW p \in Telling, NEW x \in Announcements,
                      call'[s].pc = p, call'[s].event = x
               PROVE  Fits(p, x)' /\ FirstTime(p, x)'
    BY DEF AllFit
  <2>1. s = r /\ p = pc /\ x = e /\ p \in {"resolve", "notify"}
    BY <1>5, <1>6, <1>11
  <2>2. Fits(p, e)'
    BY <1>1, <1>2, <1>5, <1>10, <2>1 DEF Fits
  <2>3. FirstTime(p, e)'
    BY <1>1, <1>4, <2>1 DEF FirstTime
  <2> QED
    BY <2>1, <2>2, <2>3
<1>15. Missed' \subseteq Missed
  <2> SUFFICES ASSUME NEW q \in Missed' PROVE q \in Missed
    OBVIOUS
  <2>1. q \in DOMAIN questions /\ questions[q].status = "open" /\ Working(q)' = {} /\ ~Reached(q)'
    BY <1>2 DEF Missed
  <2>2. q # e.q
    BY <1>1, <1>5, <1>6, <1>10, <1>11, <2>1 DEF Fits, Announcements
  <2>3. ~Reached(q)
    BY <1>2, <1>18, <2>1, ReachedStays
  <2> QED
    BY <1>11, <2>1, <2>2, <2>3 DEF Missed
<1>16. Left' \subseteq Left
  <2> SUFFICES ASSUME NEW q \in Left' PROVE q \in Left
    OBVIOUS
  <2>1. /\ q \in DOMAIN questions /\ questions[q].status # "open" /\ Working(q)' = {}
        /\ \E row \in unread' : IsCopy(row, q)'
    BY <1>2 DEF Left
  <2>2. q # e.q
    BY <1>1, <1>5, <1>6, <1>11, <2>1 DEF Fits, Announcements
  <2>3. PICK row \in unread' : IsCopy(row, q)'
    BY <2>1
  <2>4. row \in unread /\ IsCopy(row, q)
    BY <1>2, <1>3, <1>4, <1>8, <1>9, <2>2, <2>3 DEF IsCopy
  <2> QED
    BY <1>11, <2>1, <2>2, <2>4 DEF Left
<1>17. Unnoted' \subseteq Unnoted
  <2> SUFFICES ASSUME NEW i \in Unnoted' PROVE i \in Unnoted
    OBVIOUS
  <2> PICK q : q = events'[i].q
    OBVIOUS
  <2>1. /\ i \in DOMAIN events' /\ events'[i].verb = "asked" /\ Asking(q)' = {}
        /\ NeedsHuman(events'[i].to) /\ <<q, events'[i].to>> \notin attention
    BY <1>2 DEF Unnoted, NeedsHuman
  <2>2. q # e.q \/ e.verb # "asked"
    BY <1>5, <1>6, <1>11, <2>1
  <2>3. i \in DOMAIN events /\ events'[i] = events[i]
    BY <1>4, <2>1, <2>2
  <2>4. Asking(q) = {}
    BY <1>11, <2>2
  <2> QED
    BY <2>1, <2>3, <2>4 DEF Unnoted
<1> QED
  BY <1>12, <1>13, <1>14, <1>15, <1>16, <1>17 DEF Keeps, Told

\* Marking every copy read: the one question whose announcement goes on or ends has
\* no unread copy left.
LEMMA KeepsWhenResolving ==
  ASSUME RootInv, LoopInv, Told, NEW r \in Requests, Resolve(r)
  PROVE  Keeps
<1> PICK e \in Announcements : e = call[r].event
  BY TellingFacts DEF Resolve, Telling
<1> DEFINE c == IF e.verb = "answered" THEN [call[r] EXCEPT !.pc = "notify"] ELSE Idle
<1>1. /\ call[r].pc = "resolve" /\ call[r] \in Announced /\ Fits("resolve", e)
      /\ call[r].pc \in Telling /\ \A s \in Requests \ {r} : call[s].pc \notin Telling
  BY TellingFacts DEF Resolve, Telling
<1>2. /\ unread' = unread \ {row \in inbox : events[row[2]].q = e.q}
      /\ call' = [call EXCEPT ![r] = c]
      /\ UNCHANGED <<status, joined, questions, events, inbox, attention, crashes>>
  BY DEF Resolve, Copies, RootInv, TypeInv
<1>3. /\ c.pc \in Telling => c.event = e /\ c.pc = "notify" /\ e.verb = "answered"
      /\ c.pc = "notify" \/ c.pc = "idle"
  BY <1>1 DEF Idle, Announced, Telling
<1>4. e.verb \in {"answered", "withdrawn"} /\ questions[e.q].status # "open"
  BY <1>1 DEF Fits
<1> HIDE DEF c
<1>5. /\ call'[r] = c /\ \A s \in Requests \ {r} : call'[s].pc \notin Telling
      /\ \A q : q # e.q => Working(q) = {} /\ Working(q)' = {}
      /\ \A q : q # e.q \/ e.verb # "asked" => Asking(q) = {} /\ Asking(q)' = {}
  BY <1>1, <1>2, <1>3, TellingMoves
<1>6. /\ unread' \subseteq unread
      /\ \A row \in unread' : events[row[2]].q # e.q
  BY <1>2 DEF Told, Typed
<1>7. Typed' /\ AskedOnce'
  BY <1>2, <1>6 DEF Told, Typed, AskedOnce
<1>8. AllFit'
  <2> SUFFICES ASSUME NEW s \in Requests, NEW p \in Telling, NEW x \in Announcements,
                      call'[s].pc = p, call'[s].event = x
               PROVE  Fits(p, x)' /\ FirstTime(p, x)'
    BY DEF AllFit
  <2>1. s = r /\ x = e /\ p = "notify" /\ e.verb = "answered"
    BY <1>3, <1>5
  <2>2. Fits(p, e)'
    BY <1>1, <1>2, <1>6, <2>1 DEF Fits
  <2> QED
    BY <2>1, <2>2 DEF FirstTime
<1>9. Missed' \subseteq Missed
  <2> SUFFICES ASSUME NEW q \in Missed' PROVE q \in Missed
    OBVIOUS
  <2>1. q \in DOMAIN questions /\ questions[q].status = "open" /\ ~Reached(q)'
    BY <1>2 DEF Missed
  <2>2. q # e.q
    BY <1>4, <2>1
  <2>3. ~Reached(q)
    BY <1>2, <2>1, Untouched, ReachedStays
  <2> QED
    BY <1>5, <2>1, <2>2, <2>3 DEF Missed
<1>10. Left' \subseteq Left
  <2> SUFFICES ASSUME NEW q \in Left' PROVE q \in Left
    OBVIOUS
  <2>1. /\ q \in DOMAIN questions /\ questions[q].status # "open"
        /\ \E row \in unread' : IsCopy(row, q)
    BY <1>2 DEF Left, IsCopy
  <2>2. q # e.q
    BY <1>6, <2>1 DEF IsCopy
  <2> QED
    BY <1>5, <1>6, <2>1, <2>2 DEF Left
<1>11. Unnoted' \subseteq Unnoted
  <2> SUFFICES ASSUME NEW i \in Unnoted' PROVE i \in Unnoted
    OBVIOUS
  <2> PICK q : q = events[i].q
    OBVIOUS
  <2>1. Asking(q) = {}
    BY <1>4, <1>5
  <2> QED
    BY <1>2, <2>1 DEF Unnoted
<1> QED
  BY <1>7, <1>8, <1>9, <1>10, <1>11 DEF Keeps, Told

\* The note to the human attention queue ends a call: everything it has to do is done.
LEMMA KeepsWhenNoting ==
  ASSUME RootInv, LoopInv, Told, NEW r \in Requests, Notify(r)
  PROVE  Keeps
<1> PICK e \in Announcements : e = call[r].event
  BY TellingFacts DEF Notify, Telling
<1>1. /\ call[r].pc = "notify" /\ Fits("notify", e) /\ FirstTime("notify", e)
      /\ call[r].pc \in Telling /\ \A s \in Requests \ {r} : call[s].pc \notin Telling
  BY TellingFacts DEF Notify, Telling
<1>2. /\ attention \subseteq attention'
      /\ NeedsHuman(e.to) => <<e.q, e.to>> \in attention'
      /\ call' = [call EXCEPT ![r] = Idle]
      /\ UNCHANGED <<status, joined, questions, events, inbox, unread, crashes>>
  BY DEF Notify
<1>3. Idle.pc \notin Telling
  BY DEF Idle, Telling
<1>4. /\ call'[r] = Idle /\ \A s \in Requests \ {r} : call'[s].pc \notin Telling
      /\ \A q : q # e.q => Working(q) = {} /\ Working(q)' = {}
      /\ \A q : q # e.q \/ e.verb # "asked" => Asking(q) = {} /\ Asking(q)' = {}
  BY <1>1, <1>2, <1>3, TellingMoves
<1>5. Typed' /\ AskedOnce'
  BY <1>2 DEF Told, Typed, AskedOnce
<1>6. AllFit'
  BY <1>3, <1>4 DEF AllFit
<1>7. Missed' \subseteq Missed
  <2> SUFFICES ASSUME NEW q \in Missed' PROVE q \in Missed
    OBVIOUS
  <2>1. q \in DOMAIN questions /\ questions[q].status = "open" /\ ~Reached(q)'
    BY <1>2 DEF Missed
  <2>2. ~Reached(q)
    BY <1>2, <2>1, Untouched, ReachedStays
  <2>3. q # e.q
    BY <1>1, <2>1, <2>2 DEF Fits
  <2> QED
    BY <1>4, <2>1, <2>2, <2>3 DEF Missed
<1>8. Left' \subseteq Left
  <2> SUFFICES ASSUME NEW q \in Left' PROVE q \in Left
    OBVIOUS
  <2>1. /\ q \in DOMAIN questions /\ questions[q].status # "open"
        /\ \E row \in unread : IsCopy(row, q)
    BY <1>2 DEF Left, IsCopy
  <2>2. q # e.q
    BY <1>1, <2>1 DEF Fits, IsCopy
  <2> QED
    BY <1>4, <2>1, <2>2 DEF Left
<1>9. Unnoted' \subseteq Unnoted
  <2> SUFFICES ASSUME NEW i \in Unnoted' PROVE i \in Unnoted
    OBVIOUS
  <2> PICK q : q = events[i].q
    OBVIOUS
  <2>1. /\ i \in DOMAIN events /\ events[i].verb = "asked" /\ NeedsHuman(events[i].to)
        /\ <<q, events[i].to>> \notin attention'
    BY <1>2 DEF Unnoted, NeedsHuman
  <2>2. q # e.q \/ e.verb # "asked"
    BY <1>1, <1>2, <2>1 DEF FirstTime
  <2>3. Asking(q) = {}
    BY <1>4, <2>2
  <2> QED
    BY <1>2, <2>1, <2>3 DEF Unnoted
<1> QED
  BY <1>5, <1>6, <1>7, <1>8, <1>9 DEF Keeps, Told

\* A crash loses what the one call that was telling had still to do.
LEMMA CrashCosts ==
  ASSUME RootInv, LoopInv, Told, Crash
  PROVE  /\ Told'
         /\ \E q, n : /\ Missed' \subseteq Missed \cup {q} /\ Left' \subseteq Left \cup {q}
                      /\ Unnoted' \subseteq Unnoted \cup {n}
<1>1. /\ \A r \in Requests : call'[r].pc = "idle"
      /\ crashes' = crashes + 1
      /\ UNCHANGED <<status, joined, questions, events, inbox, unread, attention>>
  BY DEF Crash, Idle
<1>2. Told'
  <2>1. Typed' /\ AskedOnce'
    BY <1>1 DEF Told, Typed, AskedOnce
  <2>2. AllFit'
    BY <1>1 DEF AllFit, Telling
  <2> QED
    BY <2>1, <2>2 DEF Told
<1>3. \A q : Reached(q) => Reached(q)'
  BY <1>1, Untouched, ReachedStays
<1>4. CASE \A r \in Requests : call[r].pc \notin Telling
  <2>1. \A q : Working(q) = {} /\ Asking(q) = {}
    BY <1>4 DEF Working, Asking, Telling
  <2>2. Missed' \subseteq Missed /\ Left' \subseteq Left /\ Unnoted' \subseteq Unnoted
    BY <1>1, <1>3, <2>1 DEF Missed, Left, Unnoted, NeedsHuman, IsCopy
  <2> QED
    BY <1>2, <2>2
<1>5. ASSUME NEW r \in Requests, call[r].pc \in Telling
      PROVE  \E q, n : /\ Missed' \subseteq Missed \cup {q} /\ Left' \subseteq Left \cup {q}
                       /\ Unnoted' \subseteq Unnoted \cup {n}
  <2> PICK e \in Announcements : e = call[r].event
    BY <1>5, TellingFacts
  <2>1. /\ Fits(call[r].pc, e) /\ FirstTime(call[r].pc, e)
        /\ \A s \in Requests \ {r} : call[s].pc \notin Telling
    BY <1>5, TellingFacts
  <2>2. /\ \A q : q # e.q => Working(q) = {}
        /\ \A q : q # e.q \/ e.verb # "asked" => Asking(q) = {}
    BY <2>1 DEF Working, Asking, Telling
  <2>3. Missed' \subseteq Missed \cup {e.q} /\ Left' \subseteq Left \cup {e.q}
    BY <1>1, <1>3, <2>2 DEF Missed, Left, IsCopy
  <2> DEFINE n == CHOOSE i \in DOMAIN events : events[i].verb = "asked" /\ events[i].q = e.q
  <2>4. \A i \in DOMAIN events : events[i].verb = "asked" /\ events[i].q = e.q => i = n
    BY DEF Told, AskedOnce
  <2> HIDE DEF n
  <2>5. Unnoted' \subseteq Unnoted \cup {n}
    <3> SUFFICES ASSUME NEW i \in Unnoted', i # n PROVE i \in Unnoted
      OBVIOUS
    <3> PICK q : q = events[i].q
      OBVIOUS
    <3>1. i \in DOMAIN events /\ events[i].verb = "asked"
      BY <1>1 DEF Unnoted
    <3>2. Asking(q) = {}
      BY <2>2, <2>4, <3>1
    <3> QED
      BY <1>1, <3>2 DEF Unnoted, NeedsHuman
  <2> QED
    BY <2>3, <2>5
<1> QED
  BY <1>2, <1>4, <1>5

----------------------------------------------------------------------------
\* Every other step costs nothing.
LEMMA StepKeeps ==
  ASSUME RootInv, LoopInv, Told, [Next]_vars, ~Crash
  PROVE  Keeps
<1> DEFINE QuietCalls == \A s \in Requests : \/ call'[s] = call[s]
                                             \/ call[s].pc \notin Telling /\ call'[s].pc \notin Telling
<1>0. joined \in [Identities -> Nat]
  BY DEF Told, Typed
<1>1. CASE UNCHANGED vars
  BY <1>0, <1>1, Untouched, KeepsWhenQuiet DEF vars
<1>2. ASSUME NEW r \in Requests, NEW actor \in Identities, Accept(r, actor) PROVE Keeps
  <2>1. QuietCalls
    BY <1>2 DEF Accept, RootInv, TypeInv, Telling, Idle
  <2> QED
    BY <1>0, <1>2, <2>1, Untouched, KeepsWhenQuiet DEF Accept
<1>3. ASSUME NEW r \in Requests, NEW o \in Operations, Begin(r, o) PROVE Keeps
  <2> DEFINE c == IF Allowed(call[r].actor, o)
                  THEN [pc |-> "commit", actor |-> call[r].actor, o |-> o] ELSE Idle
  <2>1. c.pc \in {"commit", "idle"} /\ call' = [call EXCEPT ![r] = c]
    BY <1>3 DEF Begin, Idle
  <2> HIDE DEF c
  <2>2. QuietCalls
    BY <1>3, <2>1 DEF Begin, RootInv, TypeInv, Telling
  <2> QED
    BY <1>0, <1>3, <2>2, Untouched, KeepsWhenQuiet DEF Begin
<1>4. ASSUME NEW r \in Requests, Commit(r) PROVE Keeps
  <2>1. call[r].pc = "commit"
    BY <1>4 DEF Commit
  <2>2. CASE Tells(r)
    BY <2>1, <2>2, KeepsWhenCommitting
  <2>3. CASE CommitRevoke(r, call[r].o)
    <3>1. QuietCalls
      BY <2>1, <2>3 DEF CommitRevoke, RootInv, TypeInv, Telling, Idle
    <3>2. NobodyBack
      BY <2>3 DEF CommitRevoke, RootInv, TypeInv, NobodyBack
    <3> QED
      BY <1>0, <2>3, <3>1, <3>2, KeepsWhenQuiet DEF CommitRevoke
  <2> QED
    BY <1>4, <2>2, <2>3, CommitTells
<1>5. ASSUME NEW r \in Requests, Emit(r) \/ Resolve(r) \/ Notify(r) PROVE Keeps
  BY <1>5, KeepsWhenEmitting, KeepsWhenResolving, KeepsWhenNoting
<1>6. ASSUME NEW i \in Identities, NEW S, MarkRead(i, S) PROVE Keeps
  BY <1>0, <1>6, Untouched, KeepsWhenQuiet DEF MarkRead
<1>7. ASSUME NEW i \in Identities, Join(i) PROVE Keeps
  <2>1. NobodyBack /\ joined' \in [Identities -> Nat]
    BY <1>0, <1>7 DEF Join, NobodyBack, RootInv, TypeInv, Told, Typed
  <2> QED
    BY <1>7, <2>1, KeepsWhenQuiet DEF Join
<1> QED
  BY <1>1, <1>2, <1>3, <1>4, <1>5, <1>6, <1>7 DEF Next

\* At most one more for one more crash.
LEMMA BoundGrows ==
  ASSUME NEW S, NEW n \in Nat, IsFiniteSet(S), Cardinality(S) <= n, NEW x,
         NEW T, T \subseteq S \cup {x}
  PROVE  IsFiniteSet(T) /\ Cardinality(T) <= n + 1
<1>1. Cardinality(S) \in Nat
  BY FS_CardinalityType
<1>2. /\ IsFiniteSet(S \cup {x})
      /\ Cardinality(S \cup {x}) = IF x \in S THEN Cardinality(S) ELSE Cardinality(S) + 1
  BY FS_AddElement
<1>3. Cardinality(S \cup {x}) \in Nat /\ Cardinality(S \cup {x}) <= n + 1
  BY <1>1, <1>2
<1>4. IsFiniteSet(T) /\ Cardinality(T) <= Cardinality(S \cup {x})
  BY <1>2, FS_Subset
<1>5. Cardinality(T) \in Nat
  BY <1>4, FS_CardinalityType
<1> QED
  BY <1>3, <1>4, <1>5

\* And no more without one.
LEMMA BoundStays ==
  ASSUME NEW S, NEW n \in Nat, IsFiniteSet(S), Cardinality(S) <= n, NEW T, T \subseteq S
  PROVE  IsFiniteSet(T) /\ Cardinality(T) <= n
<1>1. IsFiniteSet(T) /\ Cardinality(T) <= Cardinality(S)
  BY FS_Subset
<1> QED
  BY <1>1, FS_CardinalityType

\* Whatever is told on the event loop is told to the end, but for one call for every
\* crash.
LEMMA LossesAreBounded ==
  ASSUME Loop = Requests PROVE Spec => [](Told /\ Losses)
<1>1. Init => Told /\ Losses
  <2> SUFFICES ASSUME Init PROVE Told /\ Losses
    OBVIOUS
  <2>1. /\ events = <<>> /\ inbox = {} /\ unread = {} /\ crashes = 0 /\ DOMAIN questions = {}
        /\ joined \in [Identities -> Nat]
        /\ \A r \in Requests : call[r].pc = "idle"
    BY DEF Init, Idle
  <2>2. Told
    BY <2>1 DEF Told, Typed, AskedOnce, AllFit, Telling
  <2>3. Missed = {} /\ Left = {} /\ Unnoted = {}
    BY <2>1 DEF Missed, Left, Unnoted
  <2>4. IsFiniteSet({}) /\ Cardinality({}) = 0
    BY FS_EmptySet
  <2> QED
    BY <2>1, <2>2, <2>3, <2>4 DEF Losses, Bounded
<1>2. ASSUME RootInv, LoopInv, Told, Losses, [Next]_vars PROVE Told' /\ Losses'
  <2>1. CASE Crash
    <3>1. PICK q, n : /\ Missed' \subseteq Missed \cup {q} /\ Left' \subseteq Left \cup {q}
                      /\ Unnoted' \subseteq Unnoted \cup {n}
      BY <1>2, <2>1, CrashCosts
    <3>2. crashes \in Nat /\ crashes' = crashes + 1
      BY <1>2, <2>1 DEF Crash, Told, Typed
    <3>3. /\ IsFiniteSet(Missed') /\ Cardinality(Missed') <= crashes'
          /\ IsFiniteSet(Left') /\ Cardinality(Left') <= crashes'
          /\ IsFiniteSet(Unnoted') /\ Cardinality(Unnoted') <= crashes'
      BY <1>2, <3>1, <3>2, BoundGrows DEF Losses, Bounded
    <3> QED
      BY <1>2, <2>1, <3>3, CrashCosts DEF Losses, Bounded
  <2>2. CASE ~Crash
    <3>1. Keeps
      BY <1>2, <2>2, StepKeeps
    <3>2. crashes \in Nat /\ crashes' = crashes
      BY <1>2, <2>2 DEF Told, Typed, Next, vars, Accept, Begin, Commit, CommitAsk, CommitAnswer,
        CommitWithdraw, CommitReassign, CommitRevoke, Announcing, Emit, Resolve, Notify, MarkRead, Join
    <3>3. /\ IsFiniteSet(Missed') /\ Cardinality(Missed') <= crashes'
          /\ IsFiniteSet(Left') /\ Cardinality(Left') <= crashes'
          /\ IsFiniteSet(Unnoted') /\ Cardinality(Unnoted') <= crashes'
      BY <1>2, <3>1, <3>2, BoundStays DEF Losses, Bounded, Keeps
    <3> QED
      BY <3>1, <3>3 DEF Losses, Bounded, Keeps
  <2> QED
    BY <2>1, <2>2
<1> QED
  BY <1>1, <1>2, RootInvariant, LoopInvariant, PTL DEF Spec

\* On the event loop every open question has reached the inbox of the one it is
\* addressed to, or of each member the group had when it was announced, as far as
\* GroupMax goes; but for those being announced and for one for every crash.
THEOREM OpenIsAlwaysDelivered == ASSUME Loop = Requests PROVE Spec => []OpenIsDelivered
<1>1. Losses => OpenIsDelivered
  BY DEF Losses, Bounded, Missed, OpenIsDelivered
<1> QED
  BY <1>1, LossesAreBounded, PTL

\* On the event loop nobody is left with an unread copy of a closed question, as it was
\* asked or reassigned, but for one question for every crash.
THEOREM ClosedAlwaysLeavesNothingUnread ==
  ASSUME Loop = Requests PROVE Spec => []ClosedLeavesNothingUnread
<1>1. Losses => ClosedLeavesNothingUnread
  BY DEF Losses, Bounded, Left, ClosedLeavesNothingUnread
<1> QED
  BY <1>1, LossesAreBounded, PTL

\* On the event loop a question put to a human is in the attention queue, but for
\* those being worked on and for one for every crash.
THEOREM AskedIsAlwaysNoticed == ASSUME Loop = Requests PROVE Spec => []AskedIsNoticed
<1>1. ASSUME Told, Losses PROVE AskedIsNoticed
  <2> DEFINE unnoticed == {e \in DOMAIN events :
                             /\ events[e].verb = "asked" /\ Working(events[e].q) = {}
                             /\ events[e].to \in Humans \cup {"humans", "everyone"}
                             /\ <<events[e].q, events[e].to>> \notin attention}
  <2>1. unnoticed \subseteq Unnoted
    BY DEF Unnoted, Asking, NeedsHuman
  <2>2. Cardinality(unnoticed) <= crashes
    BY <1>1, <2>1, BoundStays DEF Losses, Bounded, Told, Typed
  <2> QED
    BY <2>2 DEF AskedIsNoticed
<1> QED
  BY <1>1, LossesAreBounded, PTL
=============================================================================
