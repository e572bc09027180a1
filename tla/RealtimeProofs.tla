---------------------------- MODULE RealtimeProofs ----------------------------
(* Theorems about Realtime, for any waiters, streams, threads and bounds: what   *)
(* the queues and cursors hold, that a waiter asleep has nothing to wait for,      *)
(* that what left the inbox was delivered and that a stream keeps the log's order. *)
EXTENDS Realtime, FiniteSetTheorems, WellFoundedInduction, TLAPS

----------------------------------------------------------------------------
(* The first and the last of a set of events, and pages of it               *)

\* A set of natural numbers has a least one.
LEMMA Least ==
  ASSUME NEW T \in SUBSET Nat, T # {}
  PROVE  \E x \in T : \A y \in T : x <= y
<1> DEFINE R == OpToRel(<, Nat)
<1>1. IsWellFoundedOn(R, Nat)
  BY NatLessThanWellFounded
<1>2. \A x, y \in Nat : y < x => <<y, x>> \in R
  BY DEF OpToRel
<1> HIDE DEF R
<1>3. PICK x \in T : \A y \in T : ~(<<y, x>> \in R)
  BY <1>1, WFMin
<1>4. ASSUME NEW y \in T PROVE x <= y
  <2>1. x \in Nat /\ y \in Nat
    OBVIOUS
  <2>2. ~(y < x)
    BY <1>2, <1>3, <2>1, Zenon
  <2> QED
    BY <2>1, <2>2
<1> QED
  BY <1>4

\* One that is bounded has a greatest.
LEMMA Greatest ==
  ASSUME NEW T \in SUBSET Nat, T # {}, NEW n \in Nat, \A y \in T : y <= n
  PROVE  \E x \in T : \A y \in T : y <= x
<1> DEFINE D == {d \in Nat : n - d \in T}
<1>1. \A y \in T : n - y \in D
  OBVIOUS
<1>2. D \in SUBSET Nat /\ D # {}
  BY <1>1
<1>3. PICK d \in D : \A x \in D : d <= x
  <2> HIDE DEF D
  <2> QED
    BY <1>2, Least
<1>4. n - d \in T /\ d \in Nat
  OBVIOUS
<1>5. ASSUME NEW y \in T PROVE y <= n - d
  <2>1. d <= n - y /\ y \in Nat
    BY <1>1, <1>3
  <2> QED
    BY <1>4, <2>1
<1> QED
  BY <1>4, <1>5

\* A page is empty only if there is nothing.
LEMMA Pages ==
  ASSUME NEW n \in Nat, NEW S \in SUBSET (1 .. n)
  PROVE  /\ Oldest(S) \subseteq S /\ Newest(S) \subseteq S
         /\ S # {} => Oldest(S) # {} /\ Newest(S) # {}
<1>0. S \in SUBSET Nat /\ \A y \in S : y <= n
  OBVIOUS
<1>1. Oldest(S) \subseteq S /\ Newest(S) \subseteq S
  BY DEF Oldest, Newest
<1>2. Cardinality({}) = 0 /\ 0 < Page
  BY FS_EmptySet, BoundsAssumption
<1>3. ASSUME S # {} PROVE Oldest(S) # {}
  <2>1. PICK x \in S : \A y \in S : x <= y
    BY <1>0, <1>3, Least
  <2>2. \A y \in S : ~(y < x)
    BY <1>0, <2>1
  <2>3. {f \in S : f < x} = {}
    BY <2>2
  <2> QED
    BY <1>2, <2>3 DEF Oldest
<1>4. ASSUME S # {} PROVE Newest(S) # {}
  <2>1. PICK x \in S : \A y \in S : y <= x
    BY <1>0, <1>4, Greatest
  <2>2. \A y \in S : ~(y > x)
    BY <1>0, <2>1
  <2>3. {f \in S : f > x} = {}
    BY <2>2
  <2> QED
    BY <1>2, <2>3 DEF Newest
<1> QED
  BY <1>1, <1>3, <1>4

----------------------------------------------------------------------------
(* Queues                                                                   *)

Elements(q) == {q[i] : i \in DOMAIN q}

\* A queue with room takes the event, a full one drops its oldest for it.
LEMMA PutFacts ==
  ASSUME NEW S, NEW q \in Seq(S), Len(q) <= MaxQueue, NEW e \in S
  PROVE  /\ Put(q, e) \in Seq(S) /\ Len(Put(q, e)) <= MaxQueue
         /\ Len(q) # MaxQueue => Elements(Put(q, e)) = Elements(q) \cup {e}
<1>1. MaxQueue \in Nat /\ MaxQueue > 0 /\ Len(q) \in Nat
  BY BoundsAssumption
<1>2. CASE Len(q) < MaxQueue
  <2>1. Put(q, e) = Append(q, e)
    BY <1>2 DEF Put
  <2>2. /\ Append(q, e) \in Seq(S) /\ Len(Append(q, e)) = Len(q) + 1
        /\ Append(q, e)[Len(q) + 1] = e /\ \A i \in 1 .. Len(q) : Append(q, e)[i] = q[i]
    OBVIOUS
  <2>3. Elements(Append(q, e)) = Elements(q) \cup {e}
    BY <1>1, <2>2 DEF Elements
  <2> QED
    BY <1>1, <1>2, <2>1, <2>2, <2>3
<1>3. CASE Len(q) = MaxQueue
  <2>1. Put(q, e) = Append(Tail(q), e) /\ q # <<>>
    BY <1>1, <1>3 DEF Put
  <2>2. Tail(q) \in Seq(S) /\ Len(Tail(q)) = Len(q) - 1
    BY <2>1
  <2> QED
    BY <1>1, <1>3, <2>1, <2>2
<1> QED
  BY <1>1, <1>2, <1>3

\* A queue of some events is one of more events.
LEMMA QueueOfMore ==
  ASSUME NEW S, NEW T, S \subseteq T, NEW q \in Seq(S)
  PROVE  q \in Seq(T)
<1>1. \A i \in 1 .. Len(q) : q[i] \in T
  OBVIOUS
<1> QED
  BY <1>1

\* Taking the head of a queue leaves the rest.
LEMMA TakeFacts ==
  ASSUME NEW S, NEW q \in Seq(S), q # <<>>
  PROVE  /\ Head(q) \in S /\ Tail(q) \in Seq(S) /\ Len(Tail(q)) <= Len(q)
         /\ Elements(q) \subseteq {Head(q)} \cup Elements(Tail(q))
<1>1. /\ Head(q) \in S /\ Tail(q) \in Seq(S) /\ Len(Tail(q)) = Len(q) - 1 /\ Len(q) \in Nat
      /\ Head(q) = q[1] /\ \A i \in 1 .. Len(q) - 1 : Tail(q)[i] = q[i + 1]
  OBVIOUS
<1>2. ASSUME NEW i \in 1 .. Len(q), i # 1 PROVE q[i] \in Elements(Tail(q))
  <2> PICK j : j = i - 1
    OBVIOUS
  <2>1. j \in 1 .. Len(q) - 1 /\ j + 1 = i
    BY <1>1, <1>2
  <2>2. Tail(q)[j] = q[i] /\ j \in DOMAIN Tail(q)
    BY <1>1, <2>1
  <2> QED
    BY <2>2 DEF Elements
<1> QED
  BY <1>1, <1>2 DEF Elements

----------------------------------------------------------------------------
(* The invariant                                                            *)

Last == Len(events)

\* What a waiter asleep must not miss is on its queue.
Awake(w) ==
  pc[w] = "waiting" /\ w \notin overflowed =>
    \A e \in 1 .. Last : Published(e) =>
      IF w \in ToMe THEN e \in unread /\ events[e] = "direct" => e \in Elements(queue[w])
      ELSE e <= cursor[w] \/ e \in Elements(queue[w])

\* The frames of a stream come in the order of the log and none is newer than the
\* client's last.
Framed(s) ==
  /\ sent[s] \in Seq(Nat)
  /\ \A i \in DOMAIN sent[s] : sent[s][i] <= cursor[s]
  /\ \A i, j \in DOMAIN sent[s] : i < j => sent[s][i] < sent[s][j]

\* Where a subscriber is, and what it holds there.  The rows left of a backlog
\* follow what the client has.
Fits(s) ==
  /\ queue[s] \in Seq(1 .. Last) /\ Len(queue[s]) <= MaxQueue
  /\ s \in Waiters => pc[s] \in {"idle", "subscribed", "waiting", "reply"}
  /\ s \in Streams => pc[s] \in {"idle", "backlog", "live"}
  /\ s \in subs <=> pc[s] \in {"subscribed", "waiting", "live"}
  /\ cursor[s] \in 0 .. Last
  /\ reply[s] \subseteq 1 .. Last
  /\ reply[s] # {} => pc[s] \in {"reply", "backlog"}
  /\ s \in Streams => \A e \in reply[s] : e > cursor[s]
  /\ s \in Waiters => Awake(s)
  /\ s \in Streams => Framed(s)

Tables ==
  /\ DOMAIN queue = Subscribers /\ DOMAIN pc = Subscribers /\ DOMAIN cursor = Subscribers
  /\ DOMAIN reply = Subscribers /\ DOMAIN sent = Streams
  /\ subs \subseteq Subscribers

Logged ==
  /\ events \in Seq(Kinds)
  /\ unread \subseteq {e \in 1 .. Last : Addressed(e)}
  /\ publishing \in [Threads -> 0 .. Last]

DeliveryInv == Tables /\ Logged /\ ReadWasDelivered /\ \A s \in Subscribers : Fits(s)

\* A step of one waiter or stream, which others do not notice.
Moves(s) ==
  /\ UNCHANGED <<events, publishing>> /\ unread' \subseteq unread /\ Tables'
  /\ undelivered \subseteq undelivered' /\ got \subseteq got'
  /\ \A x \in Subscribers \ {s} :
       /\ pc'[x] = pc[x] /\ queue'[x] = queue[x] /\ cursor'[x] = cursor[x]
       /\ reply'[x] = reply[x] /\ (x \in Streams => sent'[x] = sent[x])
       /\ x \in subs' <=> x \in subs
       /\ x \in overflowed' <=> x \in overflowed
  /\ Fits(s)'
  /\ unread \ unread' \subseteq IF s \in ToMe THEN reply'[s] ELSE {}
  /\ s \in ToMe => reply[s] \subseteq got' \cup undelivered' \cup reply'[s]

----------------------------------------------------------------------------
\* Such a step keeps the invariant.
LEMMA MovesKeep ==
  ASSUME DeliveryInv, NEW s \in Subscribers, Moves(s)
  PROVE  DeliveryInv'
<1>1. Last' = Last
  BY DEF Moves, Last
<1>2. Tables' /\ Logged'
  BY <1>1 DEF Moves, DeliveryInv, Logged, Addressed
<1>3. ReadWasDelivered'
  <2> SUFFICES ASSUME NEW e \in DOMAIN events', Addressed(e)', e \notin unread' \cup undelivered'
               PROVE  e \in got' \/ \E w \in ToMe : e \in reply'[w]
    BY DEF ReadWasDelivered
  <2>1. e \in DOMAIN events /\ Addressed(e) /\ e \notin undelivered
    BY DEF Moves, Addressed
  <2>2. CASE e \in unread
    BY <2>2 DEF Moves
  <2>3. CASE e \notin unread
    <3>1. CASE e \in got
      BY <3>1 DEF Moves
    <3>2. ASSUME NEW w \in ToMe, e \in reply[w] PROVE e \in got' \/ e \in reply'[w]
      <4>1. w \in Subscribers
        BY ToMeAssumption DEF Subscribers
      <4> QED
        BY <3>2, <4>1 DEF Moves
    <3> QED
      BY <2>1, <2>3, <3>1, <3>2 DEF DeliveryInv, ReadWasDelivered
  <2> QED
    BY <2>2, <2>3
<1>4. \A x \in Subscribers : Fits(x)'
  <2> SUFFICES ASSUME NEW x \in Subscribers, x # s PROVE Fits(x)'
    BY DEF Moves
  <2>1. /\ pc'[x] = pc[x] /\ queue'[x] = queue[x] /\ cursor'[x] = cursor[x]
        /\ reply'[x] = reply[x] /\ (x \in subs' <=> x \in subs)
        /\ (x \in overflowed' <=> x \in overflowed)
        /\ unread' \subseteq unread /\ events' = events /\ publishing' = publishing
    BY DEF Moves
  <2>2. Fits(x)
    BY DEF DeliveryInv
  <2>3. Awake(x) => Awake(x)'
    BY <1>1, <2>1 DEF Awake, Published
  <2>4. x \in Streams => Framed(x)'
    BY <2>1, <2>2 DEF Fits, Framed, Moves
  <2> QED
    BY <1>1, <2>1, <2>2, <2>3, <2>4 DEF Fits
<1> QED
  BY <1>2, <1>3, <1>4 DEF DeliveryInv

\* A waiter or a stream leaves the bus, with what it holds then.
LEMMA LeaveFacts ==
  ASSUME Tables, NEW s \in Subscribers, Leave(s)
  PROVE  /\ DOMAIN queue' = Subscribers /\ queue'[s] = <<>> /\ subs' \subseteq Subscribers
         /\ s \notin subs' /\ s \notin overflowed'
         /\ \A x \in Subscribers \ {s} : /\ queue'[x] = queue[x]
                                         /\ x \in subs' <=> x \in subs
                                         /\ x \in overflowed' <=> x \in overflowed
BY DEF Tables, Leave

\* A waiter returns rows, those that leave the inbox among them.
LEMMA ReturnMoves ==
  ASSUME DeliveryInv, NEW w \in Waiters, pc[w] \in {"subscribed", "waiting"},
         NEW rows \in SUBSET (1 .. Last), Return(w, rows)
  PROVE  Moves(w)
<1>1. /\ pc' = [pc EXCEPT ![w] = "reply"] /\ reply' = [reply EXCEPT ![w] = rows]
      /\ unread' = MarkRead(w, rows) /\ Leave(w)
      /\ UNCHANGED <<events, undelivered, publishing, cursor, got, sent>>
  BY DEF Return
<1>2. w \in Subscribers /\ w \notin Streams /\ Fits(w) /\ Tables /\ Last' = Last
  BY <1>1, RolesAssumption DEF Subscribers, DeliveryInv, Last
<1>3. Tables'
  BY <1>1, <1>2, LeaveFacts DEF Tables
<1>4. /\ unread' \subseteq unread
      /\ unread \ unread' \subseteq IF w \in ToMe THEN reply'[w] ELSE {}
  BY <1>1, <1>2 DEF MarkRead, Tables
<1>5. Fits(w)'
  <2>1. /\ pc'[w] = "reply" /\ reply'[w] = rows /\ cursor'[w] = cursor[w]
        /\ queue'[w] = <<>> /\ w \notin subs'
    BY <1>1, <1>2, LeaveFacts DEF Tables
  <2>2. <<>> \in Seq(1 .. Last) /\ Len(<<>>) <= MaxQueue
    BY BoundsAssumption
  <2> QED
    BY <1>2, <2>1, <2>2 DEF Fits, Awake
<1>6. reply[w] = {}
  BY <1>1, <1>2 DEF Fits
<1>7. \A x \in Subscribers \ {w} :
       /\ pc'[x] = pc[x] /\ queue'[x] = queue[x] /\ cursor'[x] = cursor[x]
       /\ reply'[x] = reply[x] /\ (x \in Streams => sent'[x] = sent[x])
       /\ x \in subs' <=> x \in subs
       /\ x \in overflowed' <=> x \in overflowed
  BY <1>1, <1>2, LeaveFacts DEF Tables
<1> QED
  BY <1>1, <1>2, <1>3, <1>4, <1>5, <1>6, <1>7 DEF Moves

----------------------------------------------------------------------------
(* The steps of a waiter                                                    *)

\* What a query of the database misses is not there.
LEMMA PendingFacts ==
  ASSUME DeliveryInv, NEW w \in Waiters
  PROVE  /\ Pending(w) \subseteq 1 .. Last
         /\ Pending(w) = {} => IF w \in ToMe THEN unread = {}
                               ELSE \A e \in 1 .. Last : e <= cursor[w]
<1>1. /\ events \in Seq(Kinds) /\ Last \in Nat /\ DOMAIN events = 1 .. Last
      /\ unread \in SUBSET (1 .. Last)
  BY DEF DeliveryInv, Logged, Last
<1>2. Fits(w) /\ cursor[w] \in Nat
  BY DEF DeliveryInv, Subscribers, Fits, Last
<1>3. CASE w \in ToMe
  BY <1>1, <1>3, Pages DEF Pending
<1>4. CASE w \notin ToMe
  <2>1. After(cursor[w]) \in SUBSET (1 .. Last)
    BY <1>1 DEF After
  <2>2. /\ Oldest(After(cursor[w])) \subseteq 1 .. Last
        /\ Oldest(After(cursor[w])) = {} => After(cursor[w]) = {}
    BY <1>1, <2>1, Pages
  <2>3. ASSUME After(cursor[w]) = {}, NEW e \in 1 .. Last PROVE e <= cursor[w]
    <3>1. ~(e > cursor[w])
      BY <1>1, <2>3 DEF After
    <3>2. e \in Nat /\ cursor[w] \in Nat
      BY <1>1, <1>2
    <3> QED
      BY <3>1, <3>2
  <2> QED
    BY <1>4, <2>2, <2>3 DEF Pending
<1> QED
  BY <1>3, <1>4

\* A waiter goes on without leaving the bus or returning anything.
LEMMA StaysMoves ==
  ASSUME DeliveryInv, NEW w \in Waiters,
         UNCHANGED <<events, unread, undelivered, publishing, got, sent>>,
         cursor' = cursor, reply' = reply, overflowed' = overflowed,
         DOMAIN pc' = Subscribers, DOMAIN queue' = Subscribers, subs' \subseteq Subscribers,
         \A x \in Subscribers \ {w} :
           pc'[x] = pc[x] /\ queue'[x] = queue[x] /\ (x \in subs' <=> x \in subs),
         Fits(w)'
  PROVE  Moves(w)
<1>1. w \in Subscribers /\ w \notin Streams /\ Tables
  BY RolesAssumption DEF Subscribers, DeliveryInv
<1>2. Tables'
  BY <1>1 DEF Tables
<1> QED
  BY <1>1, <1>2 DEF Moves

\* It subscribes before it looks.
LEMMA StartWaitMoves ==
  ASSUME DeliveryInv, NEW w \in Waiters, StartWait(w)
  PROVE  Moves(w)
<1>1. w \in Subscribers /\ w \notin Streams /\ Fits(w) /\ Tables /\ Last' = Last
  BY RolesAssumption DEF Subscribers, DeliveryInv, Last, StartWait
<1>2. pc'[w] = "subscribed" /\ w \in subs' /\ reply[w] = {}
  BY <1>1 DEF StartWait, Subscribe, Tables, Fits
<1>3. Fits(w)'
  BY <1>1, <1>2 DEF StartWait, Fits, Awake
<1>4. /\ DOMAIN pc' = Subscribers /\ subs' \subseteq Subscribers
      /\ \A x \in Subscribers \ {w} : pc'[x] = pc[x] /\ (x \in subs' <=> x \in subs)
  BY <1>1 DEF StartWait, Subscribe, Tables
<1> QED
  BY <1>1, <1>3, <1>4, StaysMoves DEF StartWait, Tables

\* It finds something in the database, or goes to sleep.
LEMMA CheckMoves ==
  ASSUME DeliveryInv, NEW w \in Waiters, Check(w)
  PROVE  Moves(w)
<1>1. pc[w] = "subscribed"
  BY DEF Check
<1>2. CASE Pending(w) # {} /\ Return(w, Pending(w))
  <2> PICK rows : rows = Pending(w)
    OBVIOUS
  <2> QED
    BY <1>1, <1>2, PendingFacts, ReturnMoves
<1>3. CASE /\ Pending(w) = {} /\ pc' = [pc EXCEPT ![w] = "waiting"]
           /\ UNCHANGED <<events, unread, undelivered, publishing, subs, queue, cursor, reply,
                          got, sent, overflowed>>
  <2>1. w \in Subscribers /\ w \notin Streams /\ Fits(w) /\ Tables /\ Last' = Last
    BY <1>3, RolesAssumption DEF Subscribers, DeliveryInv, Last
  <2>2. /\ pc'[w] = "waiting" /\ DOMAIN pc' = Subscribers
        /\ \A x \in Subscribers \ {w} : pc'[x] = pc[x]
    BY <1>3, <2>1 DEF Tables
  <2>3. Awake(w)'
    BY <1>3, <2>1, PendingFacts DEF Awake
  <2>4. Fits(w)'
    BY <1>1, <1>3, <2>1, <2>2, <2>3 DEF Fits
  <2> QED
    BY <1>3, <2>1, <2>2, <2>4, StaysMoves DEF Tables
<1> QED
  BY <1>2, <1>3 DEF Check

\* An event that it does not wait for leaves it asleep.
LEMMA ReceiveMoves ==
  ASSUME DeliveryInv, NEW w \in Waiters, Receive(w)
  PROVE  Moves(w)
<1>1. w \in Subscribers /\ w \notin Streams /\ Fits(w) /\ Tables
  BY RolesAssumption DEF Subscribers, DeliveryInv
<1> PICK e : e = Head(queue[w])
  OBVIOUS
<1>2. pc[w] = "waiting" /\ queue[w] # <<>>
  BY DEF Receive
<1>3. /\ e \in 1 .. Last /\ Tail(queue[w]) \in Seq(1 .. Last)
      /\ Len(Tail(queue[w])) <= Len(queue[w])
      /\ Elements(queue[w]) \subseteq {e} \cup Elements(Tail(queue[w]))
  BY <1>1, <1>2, TakeFacts DEF Fits
<1>4. CASE Matches(w, e)
  <2>1. Return(w, {e})
    BY <1>4 DEF Receive
  <2> QED
    BY <1>2, <1>3, <2>1, ReturnMoves
<1>5. CASE ~Matches(w, e)
  <2>1. /\ queue' = [queue EXCEPT ![w] = Tail(queue[w])]
        /\ UNCHANGED <<events, unread, undelivered, publishing, subs, pc, cursor, reply,
                       got, sent, overflowed>>
    BY <1>5 DEF Receive
  <2>2. w \in ToMe /\ events[e] # "direct"
    BY <1>5 DEF Matches
  <2>3. /\ queue'[w] = Tail(queue[w]) /\ DOMAIN queue' = Subscribers
        /\ \A x \in Subscribers \ {w} : queue'[x] = queue[x]
    BY <1>1, <2>1 DEF Tables
  <2>4. Last' = Last /\ Len(Tail(queue[w])) <= MaxQueue
    <3>1. /\ Len(queue[w]) \in Nat /\ Len(Tail(queue[w])) \in Nat
          /\ MaxQueue \in Nat /\ Len(queue[w]) <= MaxQueue
      BY <1>1, <1>3, BoundsAssumption DEF Fits
    <3> QED
      BY <1>3, <2>1, <3>1 DEF Last
  <2>5. Awake(w)
    BY <1>1 DEF Fits
  <2>6. Awake(w)'
    BY <1>3, <2>1, <2>2, <2>3, <2>4, <2>5 DEF Awake, Published
  <2>7. Fits(w)'
    BY <1>1, <1>3, <2>1, <2>3, <2>4, <2>6 DEF Fits
  <2> QED
    BY <1>1, <2>1, <2>3, <2>7, StaysMoves DEF Tables
<1> QED
  BY <1>4, <1>5

\* The deadline passes.
LEMMA TimeoutMoves ==
  ASSUME DeliveryInv, NEW w \in Waiters, Timeout(w)
  PROVE  Moves(w)
BY ReturnMoves DEF Timeout

\* The reply is sent, or lost.
LEMMA ReplyMoves ==
  ASSUME DeliveryInv, NEW w \in Waiters, Reply(w) \/ LoseReply(w)
  PROVE  Moves(w)
<1>1. w \in Subscribers /\ w \notin Streams /\ Fits(w) /\ Tables /\ pc[w] = "reply"
  BY RolesAssumption DEF Subscribers, DeliveryInv, Reply, LoseReply
<1>2. /\ pc' = [pc EXCEPT ![w] = "idle"] /\ reply' = [reply EXCEPT ![w] = {}]
      /\ UNCHANGED <<events, unread, publishing, subs, queue, sent, overflowed>>
  BY DEF Reply, LoseReply
<1>3. /\ DOMAIN pc' = Subscribers /\ DOMAIN reply' = Subscribers
      /\ pc'[w] = "idle" /\ reply'[w] = {} /\ Last' = Last
      /\ \A x \in Subscribers \ {w} : pc'[x] = pc[x] /\ reply'[x] = reply[x]
  BY <1>1, <1>2 DEF Tables, Last
<1>4. /\ DOMAIN cursor' = Subscribers /\ cursor'[w] \in 0 .. Last
      /\ \A x \in Subscribers \ {w} : cursor'[x] = cursor[x]
      /\ undelivered \subseteq undelivered' /\ got \subseteq got'
      /\ w \in ToMe => reply[w] \subseteq got' \cup undelivered'
  <2>1. CASE LoseReply(w)
    BY <1>1, <2>1 DEF LoseReply, Tables, Fits
  <2>2. CASE Reply(w)
    <3>1. /\ got' = (IF w \in ToMe THEN got \cup reply[w] ELSE got)
          /\ cursor' = Latest(w, reply[w]) /\ undelivered' = undelivered
      BY <2>2 DEF Reply
    <3> DEFINE seen == reply[w] \cup {cursor[w]}
               latest == CHOOSE e \in seen : \A f \in seen : f <= e
    <3>2. latest \in 0 .. Last
      <4>1. Last \in Nat
        BY DEF Last, DeliveryInv, Logged
      <4>2. seen \in SUBSET Nat /\ seen # {} /\ seen \subseteq 0 .. Last
        BY <1>1, <4>1 DEF Fits
      <4> HIDE DEF seen
      <4>3. \A y \in seen : y <= Last
        BY <4>1, <4>2
      <4>4. \E e \in seen : \A f \in seen : f <= e
        BY <4>1, <4>2, <4>3, Greatest
      <4>5. latest \in seen
        BY <4>4
      <4> QED
        BY <4>2, <4>5
    <3>3. cursor' = [cursor EXCEPT ![w] = IF w \in ToMe THEN cursor[w] ELSE latest]
      BY <3>1 DEF Latest
    <3> HIDE DEF latest
    <3>4. /\ DOMAIN cursor' = Subscribers /\ cursor'[w] \in 0 .. Last
          /\ \A x \in Subscribers \ {w} : cursor'[x] = cursor[x]
      BY <1>1, <3>2, <3>3 DEF Tables, Fits
    <3> QED
      BY <1>1, <3>1, <3>4 DEF Tables
  <2> QED
    BY <2>1, <2>2
<1>5. Fits(w)'
  BY <1>1, <1>2, <1>3, <1>4 DEF Fits, Awake
<1>6. Tables'
  BY <1>1, <1>2, <1>3, <1>4 DEF Tables
<1> QED
  BY <1>1, <1>2, <1>3, <1>4, <1>5, <1>6 DEF Moves

----------------------------------------------------------------------------
(* The steps of a stream                                                    *)

\* A stream whose backlog is done listens to the bus.
LEMMA JoinMoves ==
  ASSUME DeliveryInv, NEW s \in Streams, reply[s] = {}, Join(s),
         UNCHANGED <<reply, sent, cursor, events, unread, undelivered, publishing, got>>
  PROVE  Moves(s)
<1>1. s \in Subscribers /\ s \notin Waiters /\ s \notin ToMe /\ Fits(s) /\ Tables /\ Last' = Last
  BY RolesAssumption, ToMeAssumption DEF Subscribers, DeliveryInv, Last
<1>2. /\ subs' = subs \cup {s} /\ pc' = [pc EXCEPT ![s] = "live"]
      /\ UNCHANGED <<queue, overflowed>>
  BY DEF Join
<1>3. pc'[s] = "live" /\ DOMAIN pc' = Subscribers
  BY <1>1, <1>2 DEF Tables
<1>4. Fits(s)'
  BY <1>1, <1>2, <1>3 DEF Fits, Framed
<1>5. Tables'
  BY <1>1, <1>2, <1>3 DEF Tables
<1> QED
  BY <1>1, <1>2, <1>4, <1>5 DEF Moves, Tables

\* A frame newer than the client's last goes to the end.
LEMMA FrameFacts ==
  ASSUME Tables, NEW s \in Streams, Framed(s), NEW e \in Nat, e > cursor[s],
         cursor[s] \in Nat, s \in Subscribers, Frame(s, e)
  PROVE  /\ Framed(s)' /\ cursor'[s] = e /\ DOMAIN cursor' = Subscribers /\ DOMAIN sent' = Streams
         /\ \A x \in Subscribers \ {s} : cursor'[x] = cursor[x]
         /\ \A x \in Streams \ {s} : sent'[x] = sent[x]
<1>1. /\ sent' = [sent EXCEPT ![s] = Append(sent[s], e)] /\ cursor' = [cursor EXCEPT ![s] = e]
      /\ DOMAIN sent = Streams /\ DOMAIN cursor = Subscribers
  BY DEF Frame, Tables
<1> PICK q : q = sent[s]
  OBVIOUS
<1> PICK p : p = Append(q, e)
  OBVIOUS
<1>2. /\ q \in Seq(Nat) /\ \A i \in DOMAIN q : q[i] <= cursor[s]
      /\ \A i, j \in DOMAIN q : i < j => q[i] < q[j]
  BY DEF Framed
<1>3. /\ p \in Seq(Nat) /\ DOMAIN p = 1 .. Len(q) + 1 /\ DOMAIN q = 1 .. Len(q) /\ Len(q) \in Nat
      /\ p[Len(q) + 1] = e /\ \A i \in DOMAIN q : p[i] = q[i] /\ q[i] \in Nat
  BY <1>2
<1>4. \A i \in DOMAIN p : i \in DOMAIN q \/ i = Len(q) + 1
  BY <1>3
<1>5. \A i \in DOMAIN q : p[i] < e
  BY <1>2, <1>3
<1>6. \A i \in DOMAIN p : p[i] <= e
  BY <1>3, <1>4, <1>5
<1>7. ASSUME NEW i \in DOMAIN p, NEW j \in DOMAIN p, i < j PROVE p[i] < p[j]
  <2>1. i \in DOMAIN q
    BY <1>3, <1>4, <1>7
  <2>2. CASE j \in DOMAIN q
    BY <1>2, <1>3, <1>7, <2>1, <2>2
  <2>3. CASE j = Len(q) + 1
    BY <1>3, <1>5, <2>1, <2>3
  <2> QED
    BY <1>4, <2>2, <2>3
<1>8. sent'[s] = p /\ cursor'[s] = e
  BY <1>1
<1>9. Framed(s)'
  BY <1>3, <1>6, <1>7, <1>8 DEF Framed
<1> QED
  BY <1>1, <1>8, <1>9

\* Before that it sends the first of the rows left, all newer than what it has sent.
LEMMA SendFirstMoves ==
  ASSUME DeliveryInv, NEW s \in Streams, pc[s] \in {"idle", "backlog"},
         NEW rows \in SUBSET (1 .. Last), rows # {}, \A e \in rows : e > cursor[s],
         SendFirst(s, rows), UNCHANGED <<events, unread, undelivered, publishing, got>>
  PROVE  Moves(s)
<1> DEFINE first == CHOOSE e \in rows : \A f \in rows : e <= f
<1>1. s \in Subscribers /\ s \notin Waiters /\ s \notin ToMe /\ Fits(s) /\ Tables /\ Last' = Last
  BY RolesAssumption, ToMeAssumption DEF Subscribers, DeliveryInv, Last
<1>2. /\ Frame(s, first) /\ cursor' = [cursor EXCEPT ![s] = first]
      /\ reply' = [reply EXCEPT ![s] = rows \ {first}] /\ pc' = [pc EXCEPT ![s] = "backlog"]
      /\ UNCHANGED <<subs, queue, overflowed>>
  BY DEF SendFirst, Frame
<1>3. first \in rows /\ \A f \in rows : first <= f
  <2>1. \E e \in rows : \A f \in rows : e <= f
    BY Least
  <2> QED
    BY <2>1
<1>4. Last \in Nat
  BY DEF DeliveryInv, Logged, Last
<1> HIDE DEF first
<1>5. /\ first \in 0 .. Last /\ first > cursor[s]
      /\ \A e \in rows \ {first} : e > first
  <2>1. \A e \in rows : e \in Nat /\ e \in 1 .. Last
    BY <1>4
  <2> QED
    BY <1>3, <1>4, <2>1
<1>6. /\ Framed(s)' /\ cursor'[s] = first /\ DOMAIN cursor' = Subscribers
      /\ DOMAIN sent' = Streams
      /\ \A x \in Subscribers \ {s} : cursor'[x] = cursor[x]
      /\ \A x \in Streams \ {s} : sent'[x] = sent[x]
  <2>1. first \in Nat /\ cursor[s] \in Nat /\ Framed(s)
    BY <1>1, <1>4, <1>5 DEF Fits
  <2> QED
    BY <1>1, <1>2, <1>5, <2>1, FrameFacts
<1>7. /\ pc'[s] = "backlog" /\ reply'[s] = rows \ {first}
      /\ \A x \in Subscribers \ {s} : pc'[x] = pc[x] /\ reply'[x] = reply[x]
  BY <1>1, <1>2 DEF Tables
<1>8. Fits(s)'
  BY <1>1, <1>2, <1>4, <1>5, <1>6, <1>7 DEF Fits
<1>9. Tables'
  BY <1>1, <1>2, <1>6 DEF Tables
<1> QED
  BY <1>1, <1>2, <1>6, <1>7, <1>8, <1>9 DEF Moves

\* It opens with a page of the log, or goes on with what is left of it.
LEMMA ProceedMoves ==
  ASSUME DeliveryInv, NEW s \in Streams, OpenStream(s) \/ NextFrame(s)
  PROVE  Moves(s)
<1>1. s \in Subscribers /\ Fits(s) /\ events \in Seq(Kinds) /\ Last \in Nat
      /\ DOMAIN events = 1 .. Last
  BY DEF Subscribers, DeliveryInv, Logged, Last
<1>2. ASSUME NEW rows \in SUBSET (1 .. Last), \A e \in rows : e > cursor[s],
             pc[s] \in {"idle", "backlog"}, rows = {} => reply[s] = {}, Proceed(s, rows)
      PROVE  Moves(s)
  <2>1. UNCHANGED <<events, unread, undelivered, publishing, got>>
    BY <1>2 DEF Proceed
  <2>2. CASE rows = {}
    BY <1>2, <2>1, <2>2, JoinMoves DEF Proceed
  <2>3. CASE rows # {}
    BY <1>2, <2>1, <2>3, SendFirstMoves DEF Proceed
  <2> QED
    BY <2>2, <2>3
<1>3. CASE OpenStream(s)
  <2> PICK rows : rows = Oldest(After(cursor[s]))
    OBVIOUS
  <2>1. pc[s] = "idle" /\ Proceed(s, rows)
    BY <1>3 DEF OpenStream
  <2>2. After(cursor[s]) \in SUBSET (1 .. Last)
    BY <1>1 DEF After
  <2>3. rows \subseteq After(cursor[s])
    BY <1>1, <2>2, Pages
  <2>4. \A e \in rows : e > cursor[s]
    BY <2>3 DEF After
  <2> QED
    BY <1>1, <1>2, <2>1, <2>2, <2>3, <2>4 DEF Fits
<1>4. CASE NextFrame(s)
  <2> PICK rows : rows = reply[s]
    OBVIOUS
  <2> QED
    BY <1>1, <1>2, <1>4 DEF NextFrame, Fits
<1> QED
  BY <1>3, <1>4

\* An event from the bus becomes a frame if it is newer than the last one.
LEMMA RelayMoves ==
  ASSUME DeliveryInv, NEW s \in Streams, Relay(s)
  PROVE  Moves(s)
<1>1. s \in Subscribers /\ s \notin Waiters /\ s \notin ToMe /\ Fits(s) /\ Tables /\ Last' = Last
  BY RolesAssumption, ToMeAssumption DEF Subscribers, DeliveryInv, Last, Relay
<1> PICK e : e = Head(queue[s])
  OBVIOUS
<1>2. /\ pc[s] = "live" /\ queue[s] # <<>> /\ queue' = [queue EXCEPT ![s] = Tail(queue[s])]
      /\ UNCHANGED <<events, unread, undelivered, publishing, subs, pc, reply, got, overflowed>>
  BY DEF Relay
<1>3. /\ e \in 1 .. Last /\ Tail(queue[s]) \in Seq(1 .. Last)
      /\ Len(Tail(queue[s])) <= Len(queue[s])
  BY <1>1, <1>2, TakeFacts DEF Fits
<1>4. Last \in Nat /\ cursor[s] \in Nat /\ e \in Nat
  BY <1>1, <1>3 DEF DeliveryInv, Logged, Last, Fits
<1>5. Len(Tail(queue[s])) <= MaxQueue
  <2>1. /\ Len(queue[s]) \in Nat /\ Len(Tail(queue[s])) \in Nat
        /\ MaxQueue \in Nat /\ Len(queue[s]) <= MaxQueue
    BY <1>1, <1>3, BoundsAssumption DEF Fits
  <2> QED
    BY <1>3, <2>1
<1>6. /\ Framed(s)' /\ DOMAIN cursor' = Subscribers /\ DOMAIN sent' = Streams
      /\ \A x \in Subscribers \ {s} : cursor'[x] = cursor[x]
      /\ \A x \in Streams \ {s} : sent'[x] = sent[x]
      /\ cursor'[s] \in {cursor[s], e}
  <2>0. Framed(s)
    BY <1>1 DEF Fits
  <2>1. CASE Stale(s, e)
    BY <1>1, <2>0, <2>1 DEF Relay, Tables, Framed
  <2>2. CASE ~Stale(s, e)
    <3>1. e > cursor[s]
      BY <1>4, <2>2 DEF Stale
    <3>2. Frame(s, e)
      BY <2>2 DEF Relay
    <3> QED
      BY <1>1, <1>4, <2>0, <3>1, <3>2, FrameFacts
  <2> QED
    BY <2>1, <2>2
<1>7. /\ queue'[s] = Tail(queue[s]) /\ DOMAIN queue' = Subscribers
      /\ \A x \in Subscribers \ {s} : queue'[x] = queue[x]
  BY <1>1, <1>2 DEF Tables
<1>8. Fits(s)'
  <2>1. cursor'[s] \in 0 .. Last
    BY <1>1, <1>3, <1>4, <1>6 DEF Fits
  <2> QED
    BY <1>1, <1>2, <1>3, <1>5, <1>6, <1>7, <2>1 DEF Fits
<1>9. Tables'
  BY <1>1, <1>2, <1>6, <1>7 DEF Tables
<1> QED
  BY <1>1, <1>2, <1>6, <1>7, <1>8, <1>9 DEF Moves

\* The client goes away.
LEMMA DisconnectMoves ==
  ASSUME DeliveryInv, NEW s \in Streams, Disconnect(s)
  PROVE  Moves(s)
<1>1. s \in Subscribers /\ s \notin Waiters /\ s \notin ToMe /\ Fits(s) /\ Tables /\ Last' = Last
  BY RolesAssumption, ToMeAssumption DEF Subscribers, DeliveryInv, Last, Disconnect
<1>2. /\ pc' = [pc EXCEPT ![s] = "idle"] /\ Leave(s) /\ reply' = [reply EXCEPT ![s] = {}]
      /\ UNCHANGED <<events, unread, undelivered, publishing, cursor, got, sent>>
  BY DEF Disconnect
<1>3. /\ DOMAIN pc' = Subscribers /\ DOMAIN reply' = Subscribers
      /\ pc'[s] = "idle" /\ reply'[s] = {}
      /\ \A x \in Subscribers \ {s} : pc'[x] = pc[x] /\ reply'[x] = reply[x]
  BY <1>1, <1>2 DEF Tables
<1>4. <<>> \in Seq(1 .. Last) /\ Len(<<>>) <= MaxQueue
  BY BoundsAssumption
<1>5. Fits(s)'
  BY <1>1, <1>2, <1>3, <1>4, LeaveFacts DEF Fits, Framed
<1>6. Tables'
  BY <1>1, <1>2, <1>3, LeaveFacts DEF Tables
<1> QED
  BY <1>1, <1>2, <1>3, <1>5, <1>6, LeaveFacts DEF Moves

----------------------------------------------------------------------------
(* The log and the bus                                                      *)

\* An event that a queue takes, or that a waiter needs not be woken for.
Heard(s, q) ==
  /\ q \in Seq(1 .. Last') /\ Len(q) <= MaxQueue
  /\ s \in Waiters /\ pc[s] = "waiting" /\ s \notin overflowed' =>
       /\ s \notin overflowed /\ Elements(queue[s]) \subseteq Elements(q)
       /\ \A e \in 1 .. Last' : Published(e)' =>
            (e \in 1 .. Last /\ Published(e)) \/ e \in Elements(q)

\* The log grows or stays, and no subscriber moves.
Grows ==
  /\ UNCHANGED <<undelivered, subs, pc, cursor, reply, got, sent>>
  /\ events' \in Seq(Kinds) /\ Last <= Last' /\ \A i \in 1 .. Last : events'[i] = events[i]
  /\ unread' \subseteq {e \in 1 .. Last' : Addressed(e)'} /\ unread' \cap (1 .. Last) = unread
  /\ \A e \in 1 .. Last' : Addressed(e)' /\ e \notin unread' => e \in 1 .. Last

\* Such a step keeps the invariant if every queue heard what it says.
LEMMA GrowthKeeps ==
  ASSUME DeliveryInv, Grows, publishing' \in [Threads -> 0 .. Last'],
         DOMAIN queue' = Subscribers, \A s \in Subscribers : Heard(s, queue'[s])
  PROVE  DeliveryInv'
<1>1. /\ Last \in Nat /\ Last' \in Nat /\ Last <= Last' /\ 1 .. Last \subseteq 1 .. Last'
      /\ DOMAIN events = 1 .. Last /\ DOMAIN events' = 1 .. Last'
  BY DEF DeliveryInv, Logged, Grows, Last
<1>2. Tables' /\ Logged'
  BY DEF Grows, DeliveryInv, Tables, Logged
<1>3. ReadWasDelivered'
  <2> SUFFICES ASSUME NEW e \in DOMAIN events', Addressed(e)', e \notin unread' \cup undelivered'
               PROVE  e \in got' \/ \E w \in ToMe : e \in reply'[w]
    BY DEF ReadWasDelivered
  <2>1. e \in 1 .. Last /\ undelivered' = undelivered /\ got' = got /\ reply' = reply
    BY <1>1 DEF Grows
  <2>2. Addressed(e) /\ e \notin unread
    BY <2>1 DEF Grows, Addressed
  <2> QED
    BY <1>1, <2>1, <2>2 DEF DeliveryInv, ReadWasDelivered
<1>4. ASSUME NEW s \in Subscribers PROVE Fits(s)'
  <2>1. Fits(s) /\ Heard(s, queue'[s]) /\ Tables
    BY DEF DeliveryInv
  <2>2. s \in Waiters => Awake(s)'
    <3> SUFFICES ASSUME s \in Waiters, pc[s] = "waiting", s \notin overflowed',
                        NEW e \in 1 .. Last', Published(e)', e \notin Elements(queue'[s])
                 PROVE  IF s \in ToMe THEN ~(e \in unread' /\ events'[e] = "direct")
                        ELSE e <= cursor[s]
      BY DEF Awake, Grows
    <3>1. e \in 1 .. Last /\ Published(e) /\ s \notin overflowed /\ e \notin Elements(queue[s])
      BY <2>1 DEF Heard
    <3>2. Awake(s)
      BY <2>1 DEF Fits
    <3> QED
      BY <3>1, <3>2 DEF Awake, Grows
  <2>3. /\ UNCHANGED <<subs, pc, cursor, reply>>
        /\ queue'[s] \in Seq(1 .. Last') /\ Len(queue'[s]) <= MaxQueue
    BY <2>1 DEF Grows, Heard
  <2>4. cursor[s] \in 0 .. Last' /\ reply[s] \subseteq 1 .. Last'
    BY <1>1, <2>1 DEF Fits
  <2>5. s \in Streams => Framed(s)'
    BY <2>1 DEF Fits, Framed, Grows
  <2> QED
    BY <2>1, <2>2, <2>3, <2>4, <2>5 DEF Fits
<1> QED
  BY <1>2, <1>3, <1>4 DEF DeliveryInv

\* A new event is in the log, and in the inbox if it is addressed.
LEMMA LogGrows ==
  ASSUME DeliveryInv, NEW kind \in Kinds, Log(kind),
         UNCHANGED <<undelivered, subs, pc, cursor, reply, got, sent>>
  PROVE  Grows /\ Last' = Last + 1 /\ Last \in Nat
<1>1. /\ events \in Seq(Kinds) /\ Last \in Nat /\ events' = Append(events, kind)
      /\ unread \subseteq {e \in 1 .. Last : Addressed(e)}
      /\ unread' = IF kind = "other" THEN unread ELSE unread \cup {Last + 1}
  BY DEF DeliveryInv, Logged, Last, Log
<1>2. /\ events' \in Seq(Kinds) /\ Last' = Last + 1 /\ events'[Last + 1] = kind
      /\ \A i \in 1 .. Last : events'[i] = events[i]
  BY <1>1 DEF Last
<1>3. \A e \in 1 .. Last : Addressed(e)' <=> Addressed(e)
  BY <1>2 DEF Addressed
<1>5. 1 .. Last' = 1 .. Last \cup {Last + 1} /\ Last + 1 \notin 1 .. Last /\ Last <= Last'
  BY <1>1, <1>2
<1> PICK n : n = Last + 1
  OBVIOUS
<1>6. Addressed(n)' <=> kind # "other"
  BY <1>2 DEF Addressed, Kinds
<1>7. unread' \subseteq {e \in 1 .. Last' : Addressed(e)'} /\ unread' \cap (1 .. Last) = unread
  BY <1>1, <1>3, <1>5, <1>6
<1>8. \A e \in 1 .. Last' : Addressed(e)' /\ e \notin unread' => e \in 1 .. Last
  BY <1>1, <1>5, <1>6
<1> QED
  BY <1>1, <1>2, <1>5, <1>7, <1>8 DEF Grows

\* Every subscriber has the event on its queue, or has dropped one for it.
LEMMA PublishHeard ==
  ASSUME DeliveryInv, Last <= Last', Last' \in Nat, NEW n \in 1 .. Last', Publish(n), pc' = pc,
         \A e \in 1 .. Last' : Published(e)' => (e \in 1 .. Last /\ Published(e)) \/ e = n
  PROVE  DOMAIN queue' = Subscribers /\ \A s \in Subscribers : Heard(s, queue'[s])
<1>1. DOMAIN queue' = Subscribers
  BY DEF Publish
<1>2. ASSUME NEW s \in Subscribers PROVE Heard(s, queue'[s])
  <2>1. Fits(s) /\ 1 .. Last \subseteq 1 .. Last'
    BY DEF DeliveryInv, Logged, Last
  <2>2. /\ queue'[s] = IF s \in subs THEN Put(queue[s], n) ELSE queue[s]
        /\ overflowed' = overflowed \cup {x \in subs : Len(queue[x]) = MaxQueue}
    BY DEF Publish
  <2>3. queue[s] \in Seq(1 .. Last') /\ Len(queue[s]) <= MaxQueue
    BY <2>1, QueueOfMore DEF Fits
  <2>4. CASE s \in subs
    <3>1. queue'[s] = Put(queue[s], n)
      BY <2>2, <2>4
    <3>2. /\ Put(queue[s], n) \in Seq(1 .. Last') /\ Len(Put(queue[s], n)) <= MaxQueue
          /\ Len(queue[s]) # MaxQueue => Elements(Put(queue[s], n)) = Elements(queue[s]) \cup {n}
      BY <2>3, PutFacts
    <3> QED
      BY <2>2, <2>4, <3>1, <3>2 DEF Heard
  <2>5. CASE s \notin subs
    BY <2>1, <2>2, <2>3, <2>5 DEF Heard, Fits
  <2> QED
    BY <2>4, <2>5
<1> QED
  BY <1>1, <1>2

\* A handler on the loop emits an event.
LEMMA EmitKeeps ==
  ASSUME DeliveryInv, NEW kind \in Kinds, Emit(kind)
  PROVE  DeliveryInv'
<1>1. /\ Log(kind) /\ Publish(Last + 1)
      /\ UNCHANGED <<undelivered, publishing, subs, pc, cursor, reply, got, sent>>
  BY DEF Emit, Last
<1>2. Grows /\ Last' = Last + 1 /\ Last \in Nat
  BY <1>1, LogGrows
<1> PICK n : n = Last + 1
  OBVIOUS
<1>3. \A e \in 1 .. Last' : Published(e)' => (e \in 1 .. Last /\ Published(e)) \/ e = n
  BY <1>1, <1>2 DEF Published
<1>4. DOMAIN queue' = Subscribers /\ \A s \in Subscribers : Heard(s, queue'[s])
  BY <1>1, <1>2, <1>3, PublishHeard
<1>5. publishing' \in [Threads -> 0 .. Last']
  BY <1>1, <1>2 DEF DeliveryInv, Logged
<1> QED
  BY <1>2, <1>4, <1>5, GrowthKeeps

\* A thread commits an event and does not yet publish it.
LEMMA CommitKeeps ==
  ASSUME DeliveryInv, NEW t \in Threads, NEW kind \in Kinds, CommitInThread(t, kind)
  PROVE  DeliveryInv'
<1>1. /\ Log(kind) /\ publishing[t] = 0
      /\ publishing' = [publishing EXCEPT ![t] = Last + 1]
      /\ UNCHANGED <<undelivered, subs, queue, pc, cursor, reply, got, sent, overflowed>>
  BY DEF CommitInThread, Last
<1>2. Grows /\ Last' = Last + 1 /\ Last \in Nat
  BY <1>1, LogGrows
<1>3. publishing \in [Threads -> 0 .. Last]
  BY DEF DeliveryInv, Logged
<1>4. publishing' \in [Threads -> 0 .. Last'] /\ publishing'[t] = Last + 1
      /\ \A x \in Threads \ {t} : publishing'[x] = publishing[x]
  BY <1>1, <1>2, <1>3
<1>5. ASSUME NEW e \in 1 .. Last', Published(e)' PROVE e \in 1 .. Last /\ Published(e)
  <2>1. e # Last + 1
    BY <1>4, <1>5 DEF Published
  <2>2. e \in 1 .. Last /\ e # 0
    BY <1>2, <2>1
  <2> QED
    BY <1>1, <1>4, <1>5, <2>2 DEF Published
<1>6. ASSUME NEW s \in Subscribers PROVE Heard(s, queue'[s])
  <2>1. Fits(s) /\ 1 .. Last \subseteq 1 .. Last'
    BY <1>2 DEF DeliveryInv
  <2>2. queue'[s] = queue[s] /\ queue[s] \in Seq(1 .. Last')
    BY <1>1, <2>1, QueueOfMore DEF Fits
  <2> QED
    BY <1>1, <1>5, <2>1, <2>2 DEF Heard, Fits
<1>7. DOMAIN queue' = Subscribers
  BY <1>1 DEF DeliveryInv, Tables
<1> QED
  BY <1>2, <1>4, <1>6, <1>7, GrowthKeeps

\* It publishes it, perhaps after later ones.
LEMMA PublishKeeps ==
  ASSUME DeliveryInv, NEW t \in Threads, PublishInThread(t)
  PROVE  DeliveryInv'
<1> PICK n : n = publishing[t]
  OBVIOUS
<1>1. /\ n # 0 /\ Publish(n) /\ publishing' = [publishing EXCEPT ![t] = 0]
      /\ UNCHANGED <<events, unread, undelivered, subs, pc, cursor, reply, got, sent>>
  BY DEF PublishInThread
<1>2. /\ Last' = Last /\ Last \in Nat /\ publishing \in [Threads -> 0 .. Last]
      /\ events \in Seq(Kinds) /\ unread \subseteq {e \in 1 .. Last : Addressed(e)}
  BY <1>1 DEF DeliveryInv, Logged, Last
<1>3. n \in 1 .. Last'
  BY <1>1, <1>2
<1>4. Grows
  <2>1. \A e : Addressed(e)' <=> Addressed(e)
    BY <1>1 DEF Addressed
  <2>2. Last <= Last' /\ \A i \in 1 .. Last : events'[i] = events[i]
    BY <1>1, <1>2
  <2> QED
    BY <1>1, <1>2, <2>1, <2>2 DEF Grows
<1>5. publishing' \in [Threads -> 0 .. Last']
  BY <1>1, <1>2
<1>6. \A e \in 1 .. Last' : Published(e)' => (e \in 1 .. Last /\ Published(e)) \/ e = n
  BY <1>1, <1>2 DEF Published
<1>7. DOMAIN queue' = Subscribers /\ \A s \in Subscribers : Heard(s, queue'[s])
  BY <1>1, <1>2, <1>3, <1>6, PublishHeard
<1> QED
  BY <1>4, <1>5, <1>7, GrowthKeeps

----------------------------------------------------------------------------
(* Every step                                                               *)

\* Rows marked as read by something else than a wait are on record.
LEMMA ClearKeeps ==
  ASSUME DeliveryInv, NEW rows, Clear(rows)
  PROVE  DeliveryInv'
<1>1. /\ unread' = unread \ rows /\ undelivered' = undelivered \cup rows
      /\ UNCHANGED <<events, publishing, subs, queue, pc, cursor, reply, got, sent, overflowed>>
      /\ Last' = Last
  BY DEF Clear, Last
<1>2. Tables' /\ Logged'
  BY <1>1 DEF DeliveryInv, Tables, Logged, Addressed
<1>3. ReadWasDelivered'
  BY <1>1 DEF DeliveryInv, ReadWasDelivered, Addressed
<1>4. ASSUME NEW s \in Subscribers PROVE Fits(s)'
  <2>1. Fits(s)
    BY DEF DeliveryInv
  <2>2. Awake(s) => Awake(s)'
    BY <1>1 DEF Awake, Published
  <2>3. Framed(s) => Framed(s)'
    BY <1>1 DEF Framed
  <2> QED
    BY <1>1, <2>1, <2>2, <2>3 DEF Fits
<1> QED
  BY <1>2, <1>3, <1>4 DEF DeliveryInv

\* The invariant is inductive.
LEMMA DeliveryStep ==
  ASSUME DeliveryInv, [Next]_vars
  PROVE  DeliveryInv'
<1>1. CASE UNCHANGED vars
  BY <1>1 DEF vars, DeliveryInv, Tables, Logged, Addressed, ReadWasDelivered, Fits, Awake,
              Published, Last, Framed
<1>2. ASSUME NEW kind \in Kinds, Emit(kind) \/ \E t \in Threads : CommitInThread(t, kind)
      PROVE  DeliveryInv'
  BY <1>2, EmitKeeps, CommitKeeps
<1>6. ASSUME NEW rows, Resolve(rows) \/ ReadInbox(rows) PROVE DeliveryInv'
  BY <1>6, ClearKeeps DEF Resolve, ReadInbox
<1>3. ASSUME NEW t \in Threads, PublishInThread(t) PROVE DeliveryInv'
  BY <1>3, PublishKeeps
<1>4. ASSUME NEW w \in Waiters, \/ StartWait(w) \/ Check(w) \/ Receive(w) \/ Timeout(w)
                                \/ Reply(w) \/ LoseReply(w)
      PROVE  DeliveryInv'
  <2>1. Moves(w) /\ w \in Subscribers
    BY <1>4, StartWaitMoves, CheckMoves, ReceiveMoves, TimeoutMoves, ReplyMoves DEF Subscribers
  <2> QED
    BY <2>1, MovesKeep
<1>5. ASSUME NEW s \in Streams, OpenStream(s) \/ NextFrame(s) \/ Relay(s) \/ Disconnect(s)
      PROVE  DeliveryInv'
  <2>1. Moves(s) /\ s \in Subscribers
    BY <1>5, ProceedMoves, RelayMoves, DisconnectMoves DEF Subscribers
  <2> QED
    BY <2>1, MovesKeep
<1> QED
  BY <1>1, <1>2, <1>3, <1>4, <1>5, <1>6 DEF Next

\* It holds for ever.
LEMMA DeliveryInvariant == Spec => []DeliveryInv
<1>1. ASSUME Init PROVE DeliveryInv
  <2>1. /\ events = <<>> /\ Last = 0 /\ unread = {} /\ subs = {}
        /\ \A s \in Streams : sent[s] = <<>>
        /\ publishing = [t \in Threads |-> 0]
        /\ \A s \in Subscribers : /\ queue[s] = <<>> /\ pc[s] = "idle"
                                  /\ cursor[s] = 0 /\ reply[s] = {}
    BY <1>1 DEF Init, Last
  <2>2. Tables /\ Logged
    BY <1>1, <2>1 DEF Init, Tables, Logged
  <2>3. ReadWasDelivered
    BY <2>1 DEF ReadWasDelivered
  <2>4. <<>> \in Seq(1 .. Last) /\ Len(<<>>) <= MaxQueue
    BY BoundsAssumption
  <2>5. ASSUME NEW s \in Subscribers PROVE Fits(s)
    <3>1. queue[s] \in Seq(1 .. Last) /\ Len(queue[s]) <= MaxQueue
      BY <2>1, <2>4, Zenon
    <3>2. Awake(s)
      BY <2>1 DEF Awake
    <3>3. ASSUME s \in Streams PROVE Framed(s)
      <4>1. sent[s] = <<>>
        BY <2>1, <3>3, Zenon
      <4>2. <<>> \in Seq(Nat) /\ DOMAIN <<>> = {}
        OBVIOUS
      <4> QED
        BY <4>1, <4>2 DEF Framed
    <3> QED
      BY <2>1, <3>1, <3>2, <3>3 DEF Fits
  <2> QED
    BY <2>2, <2>3, <2>5 DEF DeliveryInv
<1> QED
  BY <1>1, DeliveryStep, PTL DEF Spec

\* The inbox holds addressed events of the log, no queue exceeds the bus's bound, and
\* just those who listen are subscribed.
THEOREM TypeIsAlwaysOK == Spec => []TypeOK
<1>1. DeliveryInv => TypeOK
  BY DEF DeliveryInv, Tables, Logged, Fits, TypeOK, Last
<1> QED
  BY <1>1, DeliveryInvariant, PTL

\* A long poll sleeps on an empty queue only when there is nothing for it: no event is
\* lost between its look in the database and its sleep, or among threads that publish.
THEOREM SleeperAlwaysHasNothing == Spec => []SleeperHasNothing
<1>1. DeliveryInv => SleeperHasNothing
  <2> SUFFICES ASSUME DeliveryInv, NEW w \in Waiters, pc[w] = "waiting", queue[w] = <<>>,
                      w \notin overflowed, NEW e \in DOMAIN events, Published(e)
               PROVE  IF w \in ToMe THEN ~(e \in unread /\ events[e] = "direct")
                      ELSE e <= cursor[w]
    BY DEF SleeperHasNothing
  <2>1. Awake(w) /\ e \in 1 .. Last
    BY DEF DeliveryInv, Subscribers, Fits, Logged, Last
  <2>2. Elements(queue[w]) = {}
    BY DEF Elements
  <2> QED
    BY <2>1, <2>2 DEF Awake
<1> QED
  BY <1>1, DeliveryInvariant, PTL

\* What a long poll marked as read has been returned by it, or is about to be, but for
\* the replies that were lost; and nothing else leaves the inbox but what the identity
\* marked itself and what was marked with its question.
THEOREM ReadWasAlwaysDelivered == Spec => []ReadWasDelivered
<1>1. DeliveryInv => ReadWasDelivered
  BY DEF DeliveryInv
<1> QED
  BY <1>1, DeliveryInvariant, PTL

\* Frames follow the order of the log and none is sent twice, backlog, bus and later
\* connections together, whatever the order in which threads publish.
THEOREM StreamIsAlwaysOrdered == Spec => []StreamIsOrdered
<1>1. DeliveryInv => StreamIsOrdered
  BY DEF DeliveryInv, Fits, Framed, StreamIsOrdered, Subscribers
<1> QED
  BY <1>1, DeliveryInvariant, PTL
=============================================================================
