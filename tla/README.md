# SlopClanker: models, checks and proofs

SlopClanker is a work tracker for people ("humans") and coding agents
("clankers"): one Python process (FastMCP on starlette and uvicorn) over one
sqlite database. This directory holds TLA+ modules of its services, the TLC
configurations that check them, and TLAPS proofs. Line references are to the
repository's `src/`; the code is under `src/app/`.

## 1. The system

### How it runs

* **REST handlers** (`main.py`) are `async` functions on one event loop. The
  middleware authenticates the bearer (`middleware.py:80-120`), the handler
  awaits the body, then calls a service synchronously: a service call is atomic
  for the other handlers, but the picture of the actor is as old as the
  authentication.
* **MCP tools** (`tools.py`) are synchronous functions, each with a connection
  of its own. FastMCP runs such tools on a pool of threads; that is an assumption
  about a library, and every result that rests on it says so.
* **`POST /api/tasks/{id}/proofs/check`** runs `proofs.check_task` on a worker
  thread (`main.py:1258`): threads write the database whatever FastMCP does.
* **sqlite** in WAL mode with the module's legacy transactions: a SELECT outside
  a transaction sees the last commit and locks nothing, the first write opens a
  transaction and takes the write lock, `with conn:` commits or rolls back.
* A service call that changes something is a series of SELECTs, one transaction,
  then `events.emit` (read the last hash, insert the event and its inbox rows,
  commit, publish on the in-process bus), for some calls `events.resolve`, and
  for some `notify.notify` with a commit of its own.
* The process may be stopped anywhere; what was committed stays.

### Components, their state and what makes them correct

| Component | State | Operations | Must hold |
|---|---|---|---|
| State machine (`statemachine.py`) | `tasks.state`, `previous_state`, `transitions` | `transition` | the log is a walk of the table, restores lead back, human gates, proof and checklist gates, freeze |
| Tasks and checklists (`objects.py`) | `tasks`, `task_revisions`, `todos`, `version` columns | `edit_task`, `add_/tick_/trash_todo`, `create_task`, stacks | a version identifies what a client read; approved bodies; freeze |
| Proof links (`proofs.py`) | `proofs` | `add_`, `trash_`, `check_proof` | the gate to review; events of proofs commit with them |
| Questions (`questions.py`) | `questions` | `ask`, `answer`, `withdraw`, `reassign` | answered by addressees and for good; always somebody can withdraw |
| Events and inbox (`events.py`, `chain.py`) | `events`, `inbox`, hash chains | `emit`, `resolve`, `mark_read`, `unread_for`, `feed`, `verify_chain` | events follow the log, chains verify, inbox rows reach their readers |
| Realtime (`bus.py`, `realtime.py`, `main.py:1986-2105`) | queues, waiters, streams | `publish`, `wait_for`, `/api/stream` | no lost wake-up, order, no gaps |
| Notifications (`notify.py`) | attention queue | `notify` | every arrival and every question for humans is raised |
| Identities (`auth.py`, `permissions.py`, `setup.py`) | identities, credentials, roles | login, revoke, roles | one superadmin who cannot be revoked; one live token per clanker |
| Registration (`registry.py`) | registrations, codes | `register_request`, `poll`, `approve`, `reject`, `enroll`, codes | one live registration per name, a token delivered once |
| Projects (`objects.py`) | `projects`, and by `project_id` nearly all else | create, archive, adopt, `purge_project` | a purge takes its project and nothing else, and nothing stands in its way |
| Discussions and chat (`comms.py`) | `discussions`, `comments`, `chat` | create, close, reopen, comment, trash, restore, purge | comments are trees of bounded depth within one discussion |
| Decisions (`decisions.py`) | `decisions` | `create`, `set_status` | taken once; supersede one of their project |
| Notes and wiki (`knowledge.py`) | `notes`, `wiki`, their revisions | create, edit | edits are kept as revisions |
| Links (`links.py`) | `links` | `create`, `remove` | join what exists |
| Search (`schema.py` triggers, `search.py`) | `search_docs` | triggers on every table | mirrors the tables |
| Claims (`claims.py`) | `claims` | set, release, check | advisory: block nothing |
| Rate limits, start-up, export, preferences | windows, files | | limits per window; no database lost at start |

Components meet in the database (the freeze: `questions` block `tasks`), in the
event log (every service appends), in the inbox (questions and assignments fill
it, waiters drain it) and on the bus (services publish, waiters and streams
subscribe).

What is hard here: reads that are stale when the transaction writes (threads),
a body awaited after authentication, a crash between a change and its event, two
appenders to a hash chain, a subscription made too late, long legal
sequences through `paused`, `done` and `trashed`, and row ids that sqlite gives
out again after a purge. `PROJECT.json` lists them with lines under `hazards`.

## 2. The modules

| Module | Models | Of |
|---|---|---|
| `StateMachine` | the state table, gates and restore rule as constant operators | `statemachine.py` |
| `TaskFlow` | the workflow with atomic calls: the abstract specification | `statemachine.py`, `objects.py`, `proofs.py`, `questions.py` |
| `TaskService` | the same calls step by step, per worker, with events, attention rows and crashes; implements `TaskFlow` | the same, `events.py`, `notify.py` |
| `EventChain` | the two hash-chained tables, the write lock and the threads that append | `chain.py`, `events.py`, `proofs.py`, `db.py` |
| `QuestionFlow` | questions, inbox rows, attention rows, revocation, requests that wait for their bodies | `questions.py`, `events.py`, `permissions.py`, `middleware.py` |
| `Realtime` | log, one identity's inbox, bus, long polls and streams | `bus.py`, `realtime.py`, `main.py`, `events.py` |
| `Registry` | requests, approvals, enrollment codes, agent tokens, revocation, with failures between transactions | `registry.py`, `auth.py`, `main.py` |
| `Workspace` | projects and what is written in them, the foreign keys, the search index, the purge and reused ids | `objects.py`, `comms.py`, `decisions.py`, `knowledge.py`, `links.py`, `questions.py`, `schema.py`, `tools.py`, `main.py` |
| `TaskFlowProofs`, `TaskServiceProofs`, `EventChainProofs`, `QuestionFlowProofs`, `RealtimeProofs`, `RegistryProofs`, `WorkspaceProofs` | theorems about the module of that name | |
| `SerialServiceProofs` | theorems about `TaskService` with one worker, the refinement among them | |
| `MC*` | instances for TLC | |

Two conventions. A definition `X_Bug` placed just before `X` is `X` with a
plausible bug; nothing uses it, and putting it in the place of `X` makes the
property listed with it in `PROJECT.json` fail. And a table is a function from
row ids to rows.

### StateMachine and TaskFlow

`TaskFlow` has one action for each service call: `Transition`, `EditTask`,
`AddTodo`, `TickTodo`, `TrashTodo`, `AddProof`, `TrashProof`, `Ask`, `Resolve`.
Guards come in the order of the code's checks. `ReadTask` is a client that
fetches a task: what it got is in `seen`, and versioned calls use its version.
Bodies are abstracted to who wrote them, edits to the three kinds of fields that
are guarded differently (body, waiver, the rest), the note of a transition to
whether there is one. `MaxVersion` bounds the writes to a task. An edit that
changes nothing does nothing, and is left out. `assignee_id`, which only
addresses events, is left out too.

### TaskService

Each worker's `call` is what it has read and has to do. `Load*` are the first reads
and the checks on them; `CheckFreeze` is one look for open questions (a checklist
item needs two); `CheckGate` the proof and checklist gates; `Commit` the
transaction, computed from the row that was loaded, except that SQL itself adds one
to `version`; `Emit` and `Notify` the commits that follow. Proofs append their event
inside their own transaction. `Crash` empties `call`. That events tell the log
(`EventsFollowLog`) is stated as an order-preserving map from the announcements of a
task to its log's entries.

With one worker the module implements `TaskFlow`: `Flow == INSTANCE TaskFlow WITH
...` maps every table to itself, `ImplementsTaskFlow == Flow!Spec` is a property of
the run, and a call takes effect at `Commit`. With two it does not, and is not
claimed to; `task_threads` checks what remains.

### EventChain

A hash is modelled as the list of what the row and those before it say, so two
hashes are equal only if the histories are. Appends to `transitions` are made
under the lock that the UPDATE of the task took; `events.emit` outside a
transaction reads the last row first. `Fail` is a busy time-out, a full disk or
a crash. One purge and one out-of-band edit are followed. `Edit` puts another body, or
another `prev_hash` or `row_hash`, into a row; `EditIsFound` says that each of these is
found. Who deletes the last rows, or works out the hashes of a row and of all that
follow it anew, is not followed: the hashes have no secret in them and cannot show it.

### QuestionFlow

A request is `accepted` with its actor, begins when its body is there, commits,
emits, resolves and notifies. Requests in `Loop` do not run their calls at the
same time; the others are tool threads. `inbox` and `unread` are the inbox table
and its rows without `read_at`. `Join` is an account that is created or a registration that
is approved (the others are `Present` from the start), `joined` how many events there
were then. `Recipients` are the rows that `emit` writes: for a group its active members,
or any `GroupMax` of them if there are more, since the query names no order. A group's
question may be answered by whoever is a member at that time (`questions.py:151`), so
also by one who came after it and has no copy of it, or whom the limit left out:
`OpenIsDelivered` speaks of the members that there were, and of a larger group only says
that `GroupMax` of them have a copy. `ClosedLeavesNothingUnread` is about the copies of
the question, not about the answer in the asker's inbox, which ought to stay unread and
does not (`answer_swallowed`). `CommitRevoke` is the revocation of an identity,
with `MayRevoke` as `permissions.can` and the handler decide. Rate limits are
left out: a refusal changes nothing. Roles do not change in the model (only the
superadmin may change them, and not his own).

### Realtime

One identity, its long polls (`ToMe` with `to_me`, the others on any event) and
streams. `Emit` is a handler on the loop, which commits and publishes without an
await between; `CommitInThread` and `PublishInThread` are a thread's. `LoopFree`
keeps the loop's handlers out while a waiter has subscribed and not yet looked in
the database: there is no await between the two. A thread's publication is one
step for all subscribers: it does different queues one after the other, but no
property relates two queues. `Page` is the limit of a query, `MaxQueue` the
bus's. Filters on verbs and objects are left out. A reply is the set of the events in
it: the order within one response is the query's. A stream's frames go one by one and
are in order (`StreamIsOrdered`); `sent` keeps all of them, over its reconnections.

Besides a wait, two calls take rows from the inbox: `Resolve`, which comes with the
closing of the question that they are about (`questions.py:195`, `227`) and may be a
thread's, and `ReadInbox` (`POST /api/inbox/read`). The model lets either take any rows.
`undelivered` remembers them, and the rows of replies that got lost;
`ReadWasDelivered` is about all others. A publication by a thread calls `put_nowait` of
an `asyncio.Queue`, which is not made for threads: the event is on the queue, but the
loop is not woken by it, and a waiter may get to it no sooner than at its deadline. So
`Receive` may happen and is never bound to: no fairness is assumed of it.

### Registry

Identities are known by their names, which are unique; the other tables are
sequences, in the order of their ids. `Register`, `Approve`, `Reject`, `Poll`,
`Enroll`, `IssueAnotherCode`, `CreateHuman`, `RevokeIdentity` and `Logout` are the
handlers. All of them are on the event loop, so that calls do not interleave;
approving, polling and enrolling have a second transaction (`IssueFirstCode`,
`DeliverPolled`, `DeliverEnrolled`), and `Fail` may come before it. Time is two
counters: so many of the oldest requests are older than `PENDING_TTL`, so many of
the oldest codes than `CODE_TTL`. `LazyExpire` is part of the calls that commit it;
a refused call rolls it back when its connection is closed. A ticket is what
entitles to a token, a registration or a code, and is kept in the credential's
label. `sent` are the tokens that a response carried. That a name has one live
request is up to the code and, beneath it, to a partial UNIQUE index
(`schema.py:369`). Claim secrets and notifications are left out, as are sessions and
passwords, which nothing here reads.

### Workspace

`rows` is the database: a function from pairs of type and id to rows. A row keeps
what the properties tell apart: the rows its foreign keys reference (`refs`), the
objects its pairs of type and id name (`names`: what a question is attached to,
what a link joins), its creator, status, text and revisions. `InsertRow`,
`UpdateRow` and `DeleteRows` are what sqlite does: the next id is one more than
the largest in the table (no table is AUTOINCREMENT), foreign keys are checked, a
constraint that fails leaves everything as it was, and the triggers of
`schema.py` keep `index`, table by table: comments have none for UPDATE.

A handler on the loop checks and writes in one step. A tool on a thread has
checked (`Submit`) before it writes (`Finish`), with any steps of others between;
`pending` is what it will write, computed from what it read. The purge of a
project has such a gap on the loop too, since it reads the tasks before its
transaction; other handlers wait for it (`LoopFree`), threads do not. The calls
of one task are `TaskFlow`'s and `TaskService`'s, which cut them finer, and who
may answer a question is `QuestionFlow`'s.

Left out: titles, slugs and the uniqueness of a page's slug; renaming projects;
stacks; proofs, inbox rows and logs of a purged task, which go with it by their
task's id and are referenced by nothing else (its todos are in the model: questions
and links may name them); ticking and trashing todos, which is `TaskFlow`'s; the
trash, which moves no reference, but for comments; reads. The superseded id is
looked at only when the status is `superseded`, as in the code. A call whose
insertion would exceed the bounds does not happen. Three variables or fields are
history only: `created` (the text that a note or page was created with), `gone`
(deleted objects that something still names) and `crossed` (comments that were
purged while a tool was about to answer them, notes that were while one was about to
edit them).

`EditsAreKept` says of every step that the text of a note or page, and what its
revisions hold, is in the revisions afterwards. That is what the code keeps, also where
a tool edits what it has read long ago. It excepts what the code does not keep: the text
of the creation, which no revision holds; the empty text, in whose place
`body or note["body"]` (`knowledge.py:125`, `214`) records the one before it; and a note
that has the id of one that was purged under a waiting edit, which then overwrites it.

## 3. Runs

| Run | Question | Instance | States |
|---|---|---|---|
| `task_flow` | is the workflow right when calls are atomic? | 1 task, 1 todo, 1 proof, 1 question, 5 writes | 630,681 |
| `task_service` | do the calls on the loop implement it, with crashes? | 1 worker, 1 crash, 4 writes, transitions up to 3 | 97,590 |
| `task_threads` | what survives two workers? | 2 workers, transitions up to 2 | 387,372 |
| `event_chain` | which chains hold under threads, failures, edits? | 2 threads, 4 rows | 2,772,030 |
| `question_flow` | are questions answered rightly, delivered, closed? | 3 identities, one of which comes later, groups of 2, 1 question, 2 requests, 1 crash, 2 revocations | 989,727 |
| `realtime` | are inbox and stream safe, are sleepers right to sleep, does the inbox drain? | 2 polls, 1 stream, 1 thread, queue of 1, page of 1, 2 events; fair | 292,537 |
| `registry` | one token, request and code each; no ticket lost or paid twice | 2 names, 2 requests, 3 codes, 1 failure | 1,070,058 |
| `workspace` | do references, index, trees, revisions and decisions survive tools and purges? | the loop and 1 thread, 1 clanker, 1 admin, depth 2, 2 texts, up to 5 rows in themes | 109,665 |
| `approved_body`, `chain_fork`, `answer_swallowed`, `stream_gap` | a documented claim each | small | violated |

What the passing runs show, property by property, is the comment above each
definition. In short: the workflow's log, gates and freeze hold for atomic
calls, and calls on the loop are as good as atomic (`task_flow`, `task_service`);
with two workers the gates do not hold at the commit, but versions count all
writes and row and log agree (`task_threads`); transitions form a verifying chain
and edits of it are found, while the chain of events holds together only against
rollbacks (`event_chain`); questions are answered by whom they address, once on
the loop, and leave nothing unread (`question_flow`); what a wait takes from the
inbox is delivered or lost with its reply, and in the end every row is read
(`realtime`); tokens, codes and requests
are single and paid once (`registry`); and what is written in projects stays
whole (`workspace`).

Why the bounds are enough. One task, todo, proof and question: calls on different
tasks touch different rows and meet only in the event log, which `EventChain`
models. Five writes reach every state of the table and come back from `done` or
`trashed`; `MaxHistory` cuts longer logs in `TaskService`, where the question is how
steps interleave. Two workers or threads are enough for a stale read, and every race
listed involves two. One question suffices because no call relates two;
`MCQuestionFlow` keeps one identity as the reader, and asks one clanker by name or
everyone; the clanker comes later, and with a `GroupMax` of two everyone is one too
many from then on. In `Realtime` two events overflow a queue of one, fill more than
a page of one, and come one by one past a cursor; one poll is the identity's, one
watches everything. In `Registry` two requests are a name asked for again after a
rejection or expiry, or two names that must not touch each other's tokens; three
codes let a code supersede another beside a second clanker's; one failure splits
each of the three calls, and after it the call is repeated.

`MCWorkspace` does not bound all tables at once but follows *themes*: sets of tables
that meet, each with how many rows it may have, and the texts that are written, and
a step is taken if some theme allows what it leads to. One row at most is `crossed`.
Two projects with discussions and comments, or with decisions, or with tasks and
chat and several identities, or with a question about a decision of the other
project, or about a note or a todo; a note or a page with two texts and the empty
one, so that a tool overwrites one text with another; one discussion with three
comments, which is one level more than the depth of two allows; links between notes,
pages and a project. Every foreign key is in a theme with both its ends, and names
are followed for the kinds of row that behave differently when named: one that goes
with its project, one that can be frozen, the project itself. Two projects are what
a purge must tell apart. One thread beside the loop makes every pair of calls meet,
and two threads differ from that only in pairs of tool calls, each of which is a
handler's call as well. What is proved of `Workspace` (section 4) has none of these
bounds.

`CHECK_DEADLOCK FALSE` stands where the bounds stop the model, or where nobody
need ever call again.

### What the violations show

* `approved_body`: DESIGN.md:125 freezes the body for clankers after approval.
  The code looks at the current state only; trash or pause the approved task,
  edit, restore. (`objects.py:481`)
* `chain_fork`: chain.py:3 says that each row commits to its predecessor. A
  handler and a proofs check on its thread append to the same one.
  (`chain.py:21`)
* `answer_swallowed`: DESIGN.md:173 and 138 put the answer in the asker's inbox
  until read. `resolve` marks it as read at once. (`questions.py:195`)
* `stream_gap`: DOCS.md:75 promises a frame per event. What is emitted between
  backlog and subscription is skipped, and the cursor passes it. (`main.py:2023`)

### Observations that no run claims

* DESIGN.md:90 promises the second of two writers who name the same version a
  409: the check is not part of the UPDATE (`statemachine.py:110`, `151`), so it
  holds on the loop, but would not between tool threads; whether tools run on
  threads is FastMCP's to say, and `task_threads` shows what holds if they do.
* A poll mints a token for an identity that was revoked after its approval
  (`registry.py:104`); `authenticate` refuses it, so `RevokedGetsNoneByCode`
  speaks of codes only.
* Revisions of notes and pages hold what edits wrote. The text a note was created
  with is in none (`knowledge.py:116`; DESIGN.md:126 has versions kept), and an empty
  text is in none either (`knowledge.py:125`, `214`), which is why `EditsAreKept` excepts
  both. A tool that saves a note looks for its title
  first, so two of them may create it twice.
* An open question names its object by type and id. After the purge of the
  object's project the next row with that id is frozen by it; and the purge of the
  asking project unfreezes an object elsewhere.
* A comment that is purged while a tool answers it leaves its id to the next
  comment, which may be in another discussion: then the answer hangs there, and
  the purge of the other project fails on the foreign key. `CommentTrees` and
  `PurgeIsFree` say "unless `crossed`".
* Trashed comments stay in the index, though clankers do not get to see them
  (`comms.py:167`), because comments have no trigger on UPDATE.
* Two decisions may each supersede the other one, if both are proposed:
  `set_status` asks of the prior one only that it is another of the project.

### Fairness

Only `realtime` assumes any (`Realtime!Fairness`). A waiter that has subscribed
looks in the database at once (weak fairness of `Check`). Strong fairness of
`GoesOn`, which is calling wait, the deadline and the reply, for each waiter:
asyncio runs what is ready in turn, so a handler that can go on again and again
does; a wait times out (`MAX_TIMEOUT` is 120 s), its reply is sent, and the agent
calls `wait` again, which is an assumption about clients, taken from
`skills/slopclanker/SKILL.md`. A thread that has committed goes on to publish (weak
fairness). Emitting, opening streams and marking rows by hand are never fair: nobody
has to act. `Receive` is not either, so that `InboxDrains` does not rest on a queue
waking its reader. Since `unread_for` gives the newest rows first, it does rest on
the log ending at some time, which `MaxEvents` sees to.

## 4. Proofs

`TaskFlowProofs` proves every property of `task_flow` for all sets of tasks,
todos, proofs and questions and every `MaxVersion`, from
`MaxVersionAssumption`. `TypeOK` is inductive. `LogIsWalk`, `SettledKnowsOrigin`,
`RestoreReturns` and `HumanGates` follow from one inductive invariant that says
of every task that its log starts in `idea`, links up, takes only steps the table
allows, ends in the row's state, and that a settled row's `previous_state` is
where its last log entry came from: without the last part a restore could not be
shown to follow the table. `VersionIdentifiesTask` needs that what a client saw is
never newer than the row. `FrozenIsUntouched` is proved action by action.

`TaskServiceProofs` holds for any number of workers, tasks, proofs, questions and
crashes, from `BoundAssumption` alone. `TypesHold` is inductive, and says among other
things which operation may be at which step with which fields. `RowAgreesWithLog` needs
no more than the fact that row and log entry are computed in one transaction.
`VersionCountsWrites` rests on the UPDATE adding one to the version in the row and not
to the one that was loaded: every commit raises both sides of the equation by one,
every emission moves one from `pending` to `announced`.

`SerialServiceProofs` assumes `Serial`: one worker, as on the event loop. The
invariant behind the refinement is `KeptInv`: what a call has loaded and checked is
still so. It could not hold with two workers, and is the whole reason why atomic calls
are a right picture of the loop. From it `ServiceImplementsTaskFlow` follows step by
step: `Commit` is the action of `TaskFlow` with the same guards, every other step
stutters. So what `TaskFlowProofs` proves holds of the service. `AttentionIsRaised`
and `EventsFollowLog` are of the same kind: `AttentionInv` counts, for each task and
state, arrivals, notes and calls in hand, and `Follows` keeps a map from announcements
to log entries, which leaves the last entry free for a call that has not announced it.
Both lose at most one for each crash, since one worker has one call in hand.

`EventChainProofs` proves for any threads, checkers, contents and `MaxRows`
(assumptions `CheckersAssumption`, `NobodyAssumption`, `MaxRowsAssumption`) that the
chain of transitions verifies until an edit or a purge, and that no append heals a
chain in which a body, a `prev_hash` or a `row_hash` was edited. The invariant
behind the first says that whoever appends to `transitions` has held the lock since
it read the last row, so that its `prev` still is the last row's hash. The second
rests on a lemma: whatever is appended, the row that fails to verify is still there.
The type invariant is proved only until the first purge, because `SelectSeq`, which
models the DELETE, is outside what the provers can reason about. The events are
never deleted, so `EventsHangTogether` is proved across purges and until someone
edits an event, for any finite set of threads. Its invariant `EventInv` says that
what a thread has read as its predecessor is a committed row, and that the rows
without predecessor can be given threads of their own (`Placed`), none of which has
found the table empty and not yet written: a thread that commits such a row is the
one it is given, and never finds the table empty again.

`RegistryProofs` proves every property of `registry` for any set of names and
any numbers of requests, codes and failures; it needs no assumption. The
inductive invariant `IInv` joins the properties that are about states with what
ties the tables together: a name has an identity once its request is granted
(`Granted`), the call in hand names rows that exist and holds the youngest token
(`CallFits`), each token's ticket is a row of the same name (`TicketFits`), and
a ticket whose token was sent is marked, so that it can bring no second one
(`SentIsMarked`). Without the last, `TicketPaysOnce` would not survive a repeated
poll. `RequestsGoForward` and `TokensDieByRight` are then shown action by action.

`WorkspaceProofs` proves every property of `workspace`, for any identities, texts
and threads, any depth and any numbers of rows; it needs `ThreadsAssumption` (the
loop is none of the threads) and `DepthAssumption`. First, `Steps` shows that every
step is of one of six kinds: a thread has checked a call, a handler performs one, a
purge has read its tasks, a handler changes a row in place, a handler deletes one
row, a call ends. Then the invariant `IInv` is shown of each kind. Beside
`ReferencesHold` and `IndexMirrorsTables` it says what a row of each type references
(`Shapes`), that a decision supersedes one of its project (`SameProject`), that
comments answer in their discussion unless `crossed` (`SameDiscussion`), what a
thread that has checked may still count on (`InsertionsWait`: what it will name is
there or is remembered in `gone`) and that the tasks a purge has read are still
there (`PurgeWaits`). An insertion or an update is *calm*, it takes away nothing
that others rely on, so that these last two survive it; a deletion is shown to
survive because what it deletes is referenced by nothing that stays. `PurgeIsFree`
follows from `Shapes`, `SameProject` and `SameDiscussion`: whatever references a row
of the project is of the project. `EditsAreKept` has an invariant of its own as
well, `TextInv`: what a row says, and what a thread has read and may write over, is
the text of the creation, the empty one or in the row's revisions; `TextStep` says
what steps do to texts. `DecidedIsFinal` and `PurgeIsLocal` are shown for each kind
of step. `CommentTrees` has an invariant of its own, `TreeInv`, beside `IInv`:
parents are older than replies (`Aged`), no comment has more than the allowed levels
above it (`Low`), and what a thread is about to answer still has room for one more
(`RepliesWait`). The levels above a set of comments are a recursive function; that
it obeys its definition (`LevelsClimb`), is one level lower seen from the parents
(`LevelsShift`) and stays while no parent changes (`LevelsStay`) is shown by taking
the least level where it fails, because the library's theorem on induction cannot be
used.

`QuestionFlowProofs` has three parts, for any identities, questions and requests; they
need `KindsAssumption` (nobody is human and clanker at once) and `PresentAssumption` (the
superadmin is there from the start). Whichever requests run
on threads, `RootInv` holds: a call that has passed its checks names a question that
is there, and if it revokes, one whom its actor may revoke (`CallsFit`); so the
superadmin stays active, and `EscapeHatch` follows. When all requests are served by
the event loop (`Loop = Requests`), `LoopInv` holds as well: one call at most is past
its checks (`OneRuns`), hence what it has checked is true until it commits
(`StillAllowed`), however long other requests wait for their bodies. From it follow
`AnsweredByAddressee` and `ClosedIsFinal`. These two parts rest on the fact that every
step is a commit whose effect on questions, identities and calls is `Transaction`,
or changes neither questions nor identities (`OtherSteps`).

`OpenIsDelivered`, `ClosedLeavesNothingUnread` and `AskedIsNoticed` are proved under
the same assumption, `Loop = Requests`. Each speaks of what may be missing: open
questions that did not reach those they wait for (`Missed`), rows of closed ones
left unread (`Left`), questions for humans that are not in the attention queue
(`Unnoted`), none of them being worked on. `Losses` says that there are at most as
many of each as crashes. Every step but a crash leaves these sets no larger
(`StepKeeps`), the coming of an identity too, because it is `joined` after the
events that there are; a crash adds at most the one question whose call was cut off,
as `OneRuns` has it (`CrashCosts`). That a call which tells of a question will reach
everybody it should (`AllFit`) is what makes the end of a call free.

`RealtimeProofs` proves every safety property of `realtime`, for any waiters,
streams, threads, page and queue limit. It needs `ToMeAssumption`, `RolesAssumption`
(no connection is both a poll and a stream) and `BoundsAssumption`. The invariant
`DeliveryInv` says that what is no longer unread was delivered, is in a reply, or
was marked otherwise or lost (`ReadWasDelivered`), and of every subscriber where it
is and what it holds (`Fits`). The part that makes `SleeperHasNothing` inductive is
`Awake`: for a poll that waits and whose queue has not overflowed, every published
event that concerns it is on its queue. That nothing is there while the queue is
empty would not be inductive: the poll takes what it does not want off its queue one
by one. `StreamIsOrdered` needs that what is left of the backlog lies beyond the
cursor, and that no frame sent is newer than the cursor; once live, a stream itself
skips what is not beyond it.

Model-checked only: `InboxDrains`, since liveness, fairness and ENABLED are out of the
prover's reach; and the four refuted claims, for which TLC's counterexample is the
evidence. What is proved under `Serial` or `Loop = Requests` is not claimed for calls on
several threads; what is left of it there is what `task_threads` checks, and
`EscapeHatch`.
The type invariants of `TaskFlow`, `TaskService`, `EventChain`, `Registry` and
`Workspace` are proved and are not run.

## 5. Not modelled, and the plan

Left out, and why:

* Claims: they block nothing, no other state depends on them, and a call is one
  transaction on rows of the caller.
* The rate limiter: one dictionary whose refusals change nothing else.
* Sessions and passwords: handlers on the loop that touch one credential each;
  nothing that is modelled reads them. Agent tokens are in `Registry`.
* Start-up and migration: runs once, alone, before there is a connection; what it
  decides is which files sqlite can open.
* Stacks, preferences, export, the queries of search and lists, static files, URL
  parsing and the providers' HTTP answers: reads, or rows nobody else reads.
* Wording, error mapping and the user interface.

Next, in this order: the invariants of `TaskFlow` carried over to `TaskService` by its
refinement, as theorems about the service; an abstract specification of a mailbox that
`Realtime` implements; `Workspace` composed with `QuestionFlow`, for inbox rows of
purged projects; the permission table as a function against the table of DESIGN.md.
