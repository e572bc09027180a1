------------------------------- MODULE Realtime -------------------------------
(***************************************************************************)
(* How events reach those who wait for them: the persisted log, the durable *)
(* inbox of one identity, the in-process bus with a bounded queue for each  *)
(* subscriber, the long poll (realtime.wait_for) and the event stream       *)
(* (GET /api/stream).                                                      *)
(*                                                                         *)
(* The event loop runs the handlers of requests, the waiters and the        *)
(* streams, one at a time and each to its next await.  Threads also emit    *)
(* events: between their commit and their publication the loop may run.     *)
(*                                                                         *)
(* Naming: X_Bug, just before X, is X with a plausible bug; nothing uses it.*)
(***************************************************************************)
EXTENDS Naturals, Sequences, FiniteSets

CONSTANTS
  Waiters,      \* long polls
  ToMe,         \* those with to_me, the others wait for any event
  Streams,      \* event streams, of any event
  Threads,      \* threads that emit events
  MaxQueue,     \* bus.MAX_QUEUE
  Page,         \* the limit of one query of the log
  MaxEvents     \* bounds the log

ASSUME ToMeAssumption == ToMe \subseteq Waiters
ASSUME RolesAssumption == Waiters \cap Streams = {}
ASSUME BoundsAssumption == MaxQueue \in Nat \ {0} /\ Page \in Nat \ {0}

\* What an event is for the identity whose waiters these are: addressed to it
\* by name, to a group that it is in, or to neither.
Kinds == {"direct", "group", "other"}
Subscribers == Waiters \cup Streams

VARIABLES
  events,      \* the log: kinds of events
  unread,      \* the identity's inbox: events with no read_at
  undelivered, \* history: those marked read by something else than a wait, or by a
               \* wait whose reply got lost
  publishing,  \* the event each thread has committed and not published, or 0
  subs,        \* subscribers of the bus
  queue,       \* their queues
  pc,          \* where each waiter and stream is
  cursor,      \* since: the last event that the client has
  reply,       \* events a waiter is about to return, those left of a backlog
  got,         \* events that a wait with to_me brought to the identity
  sent,        \* the frames of a stream, in the order in which they were sent
  overflowed   \* subscriptions that dropped an event

vars == <<events, unread, undelivered, publishing, subs, queue, pc, cursor, reply, got,
          sent, overflowed>>

\* Inbox rows are written for the named addressee and for members of the group.
Addressed(e) == events[e] \in {"direct", "group"}

\* Filters.matches: a to_me waiter compares the event's to_identity_id.
Matches(s, e) == s \in ToMe => events[e] = "direct"

\* wait_for subscribes before it looks in the database: between these no other
\* handler runs.
LoopFree == \A w \in Waiters : pc[w] # "subscribed"

----------------------------------------------------------------------------
(* events.emit and the bus                                                  *)

Put_Unbounded(q, e) == Append(q, e)
Put(q, e) == IF Len(q) < MaxQueue THEN Append(q, e) ELSE Append(Tail(q), e)

Publish(e) ==
  /\ queue' = [s \in Subscribers |-> IF s \in subs THEN Put(queue[s], e) ELSE queue[s]]
  /\ overflowed' = overflowed \cup {s \in subs : Len(queue[s]) = MaxQueue}

Log(kind) ==
  /\ Len(events) < MaxEvents
  /\ events' = Append(events, kind)
  /\ unread' = IF kind = "other" THEN unread ELSE unread \cup {Len(events) + 1}

\* A handler on the loop commits and publishes with no await between.
Emit(kind) ==
  /\ LoopFree
  /\ Log(kind) /\ Publish(Len(events) + 1)
  /\ UNCHANGED <<undelivered, publishing, subs, pc, cursor, reply, got, sent>>

CommitInThread(t, kind) ==
  /\ publishing[t] = 0
  /\ Log(kind)
  /\ publishing' = [publishing EXCEPT ![t] = Len(events) + 1]
  /\ UNCHANGED <<undelivered, subs, queue, pc, cursor, reply, got, sent, overflowed>>

PublishInThread(t) ==
  /\ publishing[t] # 0
  /\ Publish(publishing[t])
  /\ publishing' = [publishing EXCEPT ![t] = 0]
  /\ UNCHANGED <<events, unread, undelivered, subs, pc, cursor, reply, got, sent>>

\* bus.unsubscribe; the queue is forgotten with the subscription.
Leave(s) ==
  /\ subs' = subs \ {s}
  /\ queue' = [queue EXCEPT ![s] = <<>>]
  /\ overflowed' = overflowed \ {s}

----------------------------------------------------------------------------
(* What marks inbox rows as read besides a wait                             *)

Clear(rows) ==
  /\ rows # {} /\ rows \subseteq unread
  /\ unread' = unread \ rows
  /\ undelivered' = undelivered \cup rows
  /\ UNCHANGED <<events, publishing, subs, queue, pc, cursor, reply, got, sent,
                 overflowed>>

\* events.resolve: somebody answers or withdraws a question, and a thread may do it.
Resolve(rows) == Clear(rows)

\* events.mark_read for POST /api/inbox/read: the identity names the rows.
ReadInbox(rows) == LoopFree /\ Clear(rows)

----------------------------------------------------------------------------
(* The long poll                                                            *)

Subscribe_Forgotten(w) == subs
Subscribe(w) == subs \cup {w}

\* A client calls wait; one that does not wait for itself passes its cursor.
StartWait(w) ==
  /\ pc[w] = "idle" /\ LoopFree
  /\ pc' = [pc EXCEPT ![w] = "subscribed"]
  /\ subs' = Subscribe(w)
  /\ UNCHANGED <<events, unread, undelivered, publishing, queue, cursor, reply, got, sent,
                 overflowed>>

\* events.unread_for, newest first, and events.feed, oldest first: a page each.
Newest(S) == {e \in S : Cardinality({f \in S : f > e}) < Page}
Oldest(S) == {e \in S : Cardinality({f \in S : f < e}) < Page}
After(c) == {e \in DOMAIN events : e > c}

Pending_Direct(w) == IF w \in ToMe THEN Newest({e \in unread : events[e] = "direct"})
                     ELSE Oldest(After(cursor[w]))
Pending(w) == IF w \in ToMe THEN Newest(unread) ELSE Oldest(After(cursor[w]))

MarkRead_All(w, rows) == IF w \in ToMe THEN {} ELSE unread
MarkRead(w, rows) == IF w \in ToMe THEN unread \ rows ELSE unread

\* The waiter is about to return these rows and leaves the bus.
Return(w, rows) ==
  /\ pc' = [pc EXCEPT ![w] = "reply"]
  /\ reply' = [reply EXCEPT ![w] = rows]
  /\ unread' = MarkRead(w, rows)
  /\ Leave(w)
  /\ UNCHANGED <<events, undelivered, publishing, cursor, got, sent>>

Check(w) ==
  /\ pc[w] = "subscribed"
  /\ \/ /\ Pending(w) # {}
        /\ Return(w, Pending(w))
     \/ /\ Pending(w) = {}
        /\ pc' = [pc EXCEPT ![w] = "waiting"]
        /\ UNCHANGED <<events, unread, undelivered, publishing, subs, queue, cursor, reply,
                       got, sent, overflowed>>

\* The next event on its queue wakes a waiter.  A thread that put it there does not
\* wake the loop: this may come as late as the deadline or after it.
Receive(w) ==
  /\ pc[w] = "waiting" /\ queue[w] # <<>> /\ LoopFree
  /\ IF Matches(w, Head(queue[w]))
     THEN Return(w, {Head(queue[w])})
     ELSE /\ queue' = [queue EXCEPT ![w] = Tail(@)]
          /\ UNCHANGED <<events, unread, undelivered, publishing, subs, pc, cursor, reply,
                         got, sent, overflowed>>

\* The deadline passes, perhaps with an event just put on the queue.
Timeout(w) ==
  /\ pc[w] = "waiting" /\ LoopFree
  /\ Return(w, {})

\* The client keeps the id of the latest event it has, for its next call.
Latest(w, rows) ==
  LET seen == rows \cup {cursor[w]} IN
  [cursor EXCEPT ![w] = IF w \in ToMe THEN @
                        ELSE CHOOSE e \in seen : \A f \in seen : f <= e]

Reply(w) ==
  /\ pc[w] = "reply" /\ LoopFree
  /\ got' = IF w \in ToMe THEN got \cup reply[w] ELSE got
  /\ cursor' = Latest(w, reply[w])
  /\ pc' = [pc EXCEPT ![w] = "idle"]
  /\ reply' = [reply EXCEPT ![w] = {}]
  /\ UNCHANGED <<events, unread, undelivered, publishing, subs, queue, sent, overflowed>>

\* The client has gone or the process stops before the reply is sent.
LoseReply(w) ==
  /\ pc[w] = "reply" /\ reply[w] # {}
  /\ undelivered' = IF w \in ToMe THEN undelivered \cup reply[w] ELSE undelivered
  /\ pc' = [pc EXCEPT ![w] = "idle"]
  /\ reply' = [reply EXCEPT ![w] = {}]
  /\ UNCHANGED <<events, unread, publishing, subs, queue, cursor, got, sent, overflowed>>

----------------------------------------------------------------------------
(* The stream: gen() of GET /api/stream.  After each frame it yields.       *)

Join(s) ==
  /\ subs' = subs \cup {s}
  /\ pc' = [pc EXCEPT ![s] = "live"]
  /\ UNCHANGED <<queue, overflowed>>

\* The client has this frame; its id is the stream's `last` as well.
Frame(s, e) ==
  /\ sent' = [sent EXCEPT ![s] = Append(@, e)]
  /\ cursor' = [cursor EXCEPT ![s] = e]

\* The first of these rows is sent, the others wait.
SendFirst(s, rows) ==
  LET first == CHOOSE e \in rows : \A f \in rows : e <= f IN
  /\ Frame(s, first)
  /\ reply' = [reply EXCEPT ![s] = rows \ {first}]
  /\ pc' = [pc EXCEPT ![s] = "backlog"]
  /\ UNCHANGED <<subs, queue, overflowed>>

\* The stream goes on with the rows of the log, and then with the bus.
Proceed(s, rows) ==
  /\ IF rows = {} THEN Join(s) /\ UNCHANGED <<reply, sent, cursor>>
     ELSE SendFirst(s, rows)
  /\ UNCHANGED <<events, unread, undelivered, publishing, got>>

\* A client connects, with the id of the last event it has.
OpenStream(s) ==
  /\ pc[s] = "idle" /\ LoopFree
  /\ Proceed(s, Oldest(After(cursor[s])))

NextFrame(s) ==
  /\ pc[s] = "backlog" /\ LoopFree
  /\ Proceed(s, reply[s])

Stale_Older(s, e) == e < cursor[s]
Stale(s, e) == e <= cursor[s]

Relay(s) ==
  /\ pc[s] = "live" /\ queue[s] # <<>> /\ LoopFree
  /\ queue' = [queue EXCEPT ![s] = Tail(@)]
  /\ IF Stale(s, Head(queue[s])) THEN UNCHANGED <<sent, cursor>>
     ELSE Frame(s, Head(queue[s]))
  /\ UNCHANGED <<events, unread, undelivered, publishing, subs, pc, reply, got, overflowed>>

Disconnect(s) ==
  /\ pc[s] \in {"backlog", "live"} /\ LoopFree
  /\ pc' = [pc EXCEPT ![s] = "idle"]
  /\ Leave(s)
  /\ reply' = [reply EXCEPT ![s] = {}]
  /\ UNCHANGED <<events, unread, undelivered, publishing, cursor, got, sent>>

----------------------------------------------------------------------------
Init ==
  /\ events = <<>> /\ unread = {} /\ undelivered = {}
  /\ publishing = [t \in Threads |-> 0]
  /\ subs = {} /\ overflowed = {}
  /\ queue = [s \in Subscribers |-> <<>>]
  /\ pc = [s \in Subscribers |-> "idle"]
  /\ cursor = [s \in Subscribers |-> 0]
  /\ reply = [s \in Subscribers |-> {}]
  /\ got = {}
  /\ sent = [s \in Streams |-> <<>>]

Next ==
  \/ \E kind \in Kinds : Emit(kind) \/ \E t \in Threads : CommitInThread(t, kind)
  \/ \E t \in Threads : PublishInThread(t)
  \/ \E rows \in SUBSET unread : Resolve(rows) \/ ReadInbox(rows)
  \/ \E w \in Waiters : \/ StartWait(w) \/ Check(w) \/ Receive(w) \/ Timeout(w)
                        \/ Reply(w) \/ LoseReply(w)
  \/ \E s \in Streams : OpenStream(s) \/ NextFrame(s) \/ Relay(s) \/ Disconnect(s)

\* The loop resumes what is ready in turn, so that a waiter that can go on again and
\* again does: its deadline comes, its reply is sent, and its agent calls wait once
\* more, as the instructions of agents tell it.  A thread goes on as well.  That an
\* event on its queue wakes a waiter before its deadline is not assumed.
GoesOn(w) == StartWait(w) \/ Timeout(w) \/ Reply(w)

Fairness ==
  /\ \A w \in Waiters : WF_vars(Check(w)) /\ SF_vars(GoesOn(w))
  /\ \A t \in Threads : WF_vars(PublishInThread(t))

Spec == Init /\ [][Next]_vars
FairSpec == Spec /\ Fairness

----------------------------------------------------------------------------
(* Properties *)

TypeOK ==
  /\ unread \subseteq {e \in DOMAIN events : Addressed(e)}
  /\ subs \subseteq Subscribers
  /\ \A s \in Subscribers : Len(queue[s]) <= MaxQueue
  /\ \A s \in Subscribers : s \in subs <=> pc[s] \in {"subscribed", "waiting", "live"}
  /\ \A s \in Subscribers : cursor[s] \in 0 .. Len(events)

Published(e) == \A t \in Threads : publishing[t] # e

\* A waiter whose queue is empty sleeps only while there is nothing for it that
\* names it (for a to_me waiter, in the inbox) or follows its cursor (for the
\* others): what threads have not published yet, and what its own queue dropped,
\* excepted.
SleeperHasNothing ==
  \A w \in Waiters :
    pc[w] = "waiting" /\ queue[w] = <<>> /\ w \notin overflowed =>
      \A e \in DOMAIN events : Published(e) =>
        IF w \in ToMe THEN ~(e \in unread /\ events[e] = "direct")
        ELSE e <= cursor[w]

\* What a wait marks as read is brought to the identity, by this reply or one that
\* was sent, if its reply is not lost: so is whatever left the inbox and was not
\* marked by the identity itself or with the question that it is about.
ReadWasDelivered ==
  \A e \in DOMAIN events : Addressed(e) /\ e \notin unread \cup undelivered =>
    e \in got \/ \E w \in ToMe : e \in reply[w]

\* A stream sends frames in the order of the log and none twice, backlog, bus and
\* later connections together, whatever the order in which threads publish.
StreamIsOrdered ==
  \A s \in Streams : \A i, j \in DOMAIN sent[s] : i < j => sent[s][i] < sent[s][j]

\* Whatever is in the inbox is read in the end, group events too: the wait that
\* they do not wake times out and the next one finds them.
InboxDrains == \A e \in 1 .. MaxEvents : e \in unread ~> e \notin unread

\* The claim about streams that they recover by the cursor: a client that has an
\* event has those before it.
StreamHasNoGaps ==
  \A s \in Streams : \A e \in DOMAIN events :
    e <= cursor[s] => \E i \in DOMAIN sent[s] : sent[s][i] = e
=============================================================================
