------------------------------ MODULE Workspace ------------------------------
(***************************************************************************)
(* What people and clankers write in projects: tasks with their checklists, *)
(* discussions with their comments, chat, decisions, questions, notes, wiki *)
(* pages and links, the search index over them, and the purge of a project, *)
(* after which the ids of its rows are given out again.                     *)
(*                                                                         *)
(* A REST handler calls its service on the event loop without yielding; a   *)
(* tool runs on a thread of its own, so that its checks and the transaction *)
(* that follows have those of others between them, and so has a purge.      *)
(*                                                                         *)
(* Naming: X_Bug, just before X, is X with a plausible bug; nothing uses it.*)
(***************************************************************************)
EXTENDS Naturals, FiniteSets, Functions

CONSTANTS
  Clankers, Users, Admins, Superadmins,   \* active identities, by kind and role
  Texts,         \* bodies of notes and pages; "" is the empty one
  Threads,       \* threads that run tools
  MaxDepth,      \* comms.MAX_DEPTH
  MaxId, MaxRows \* bound the ids of a table and the rows of all of them

ASSUME DepthAssumption == MaxDepth \in Nat \ {0}
ASSUME BoundsAssumption == MaxId \in Nat /\ MaxRows \in Nat
ASSUME TextsAssumption == Texts \subseteq STRING /\ "" \notin Texts /\ "keep" \notin Texts

Loop == "loop"     \* the event loop, beside the threads
ASSUME ThreadsAssumption == Loop \notin Threads

Humans == Users \cup Admins \cup Superadmins
Identities == Clankers \cup Humans
IsAdmin(a) == a \in Admins \cup Superadmins

Types == {"project", "task", "todo", "discussion", "comment", "chat", "decision",
          "question", "note", "wiki", "link"}
Objects == Types \X (1 .. MaxId)

\* Types that a question may be attached to and a link may join.
Linkable == Types \ {"comment", "chat", "link"}
\* Types with triggers that keep search_docs, on INSERT and DELETE, and on UPDATE.
Searchable == Types \ {"project", "todo", "chat", "link"}
Rewritable == Searchable \ {"comment"}

VARIABLES
  rows,     \* the tables: from <<type, id>> to the row
  index,    \* search_docs: from <<type, id>> to what is indexed
  pending,  \* what each thread, and the loop in a purge, has checked and will write
  gone,     \* objects that were deleted and are named still, whoever has their ids
  crossed   \* comments and notes purged when a thread was about to reply to, or edit, them

db == <<rows, index, gone, crossed>>
vars == <<rows, index, pending, gone, crossed>>

\* A row: the rows its columns reference, the objects its pairs of type and id
\* name, whose it is, its status, its text, its revisions and, for the properties
\* only, the text it was created with.
Row(refs) == [refs |-> refs, names |-> <<>>, by |-> {}, status |-> "", text |-> "",
              revisions |-> {}, created |-> ""]
Saying(refs, text) == [Row(refs) EXCEPT !.text = text, !.created = text]

Table(t) == {o \in DOMAIN rows : o[1] = t}
RefsOf(o, t) == {r \in rows[o].refs : r[1] = t}
Put(f, x, v) == [y \in DOMAIN f \cup {x} |-> IF y = x THEN v ELSE f[y]]

----------------------------------------------------------------------------
(* The database: rowids, foreign keys and the triggers of the index         *)

\* The next id is one more than the largest in the table.
IsNextId(t, i) ==
  /\ \A o \in Table(t) : o[2] < i
  /\ i = 1 \/ <<t, i - 1>> \in DOMAIN rows

\* PRAGMA foreign_keys=ON
ForeignKeysHold_Off(refs) == TRUE
ForeignKeysHold(refs) == refs \subseteq DOMAIN rows

Referenced(S) == \E o \in DOMAIN rows \ S : rows[o].refs \cap S # {}

\* A document: the project (and, in the outcome of a decision, the prior one) and
\* the text.  A comment's is in the project of its discussion.
Doc(t, row) ==
  [of |-> IF t # "comment" THEN row.refs
          ELSE UNION {rows[d].refs : d \in {r \in row.refs : r[1] = "discussion"}},
   text |-> row.text]

Indexed(t, o, row) == IF t \in Searchable THEN Put(index, o, Doc(t, row)) ELSE index

\* links are UNIQUE, in one direction.
Unique(t, row) == t = "link" => \A l \in Table("link") : rows[l].names # row.names

\* An INSERT that breaks a constraint leaves everything as it was; one beyond the
\* bounds does not happen.
InsertRow(t, row) ==
  IF ForeignKeysHold(row.refs) /\ Unique(t, row)
  THEN /\ Cardinality(DOMAIN rows) < MaxRows
       /\ \E i \in 1 .. MaxId :
            /\ IsNextId(t, i)
            /\ rows' = Put(rows, <<t, i>>, row)
            /\ index' = Indexed(t, <<t, i>>, row)
       /\ UNCHANGED <<gone, crossed>>
  ELSE UNCHANGED db

UpdateRow(o, row) ==
  /\ rows' = [rows EXCEPT ![o] = row]
  /\ index' = IF o[1] \in Rewritable THEN [index EXCEPT ![o] = Doc(o[1], row)] ELSE index
  /\ UNCHANGED <<gone, crossed>>

Unindexed_NoComments(S) == Restrict(index, DOMAIN index \ {o \in S : o[1] # "comment"})
Unindexed(S) == Restrict(index, DOMAIN index \ S)

\* A thread has checked the parent of its comment, or the note that it edits.
Replying(o) ==
  /\ o[1] = "comment"
  /\ \E w \in Threads : pending[w].do = "insert" /\ o \in pending[w].row.refs
Editing(o) == \E w \in Threads : pending[w].do = "edit" /\ o = pending[w].o

\* Something that is not deleted, or will be written, names the object.
NamedBeside(o, S) ==
  \/ \E r \in DOMAIN rows \ S : o \in Range(rows[r].names)
  \/ \E w \in Threads : pending[w].do = "insert" /\ o \in Range(pending[w].row.names)

DeleteRows(S) ==
  IF Referenced(S) THEN UNCHANGED db
  ELSE /\ rows' = Restrict(rows, DOMAIN rows \ S)
       /\ index' = Unindexed(S)
       /\ gone' = {o \in gone \cup S : NamedBeside(o, S)}
       /\ crossed' = crossed \cup {o \in S : Replying(o) \/ Editing(o)}

----------------------------------------------------------------------------
(* Calls: what they check, and what they will write                         *)

Idle == [do |-> "idle"]
Insertion(t, row) == [do |-> "insert", type |-> t, row |-> row]

\* knowledge.edit_note and edit_wiki: the text they read, whether the title is
\* another one, and the body, which may be left out ("keep").
Edition(o, read, titled, text) ==
  [do |-> "edit", o |-> o, read |-> read, titled |-> titled, text |-> text]

\* `body or note["body"]`
Revision_Old(read, text) == read
Revision(read, text) == IF text \in {"", "keep"} THEN read ELSE text
IsRevised(c) == c.titled \/ c.text \notin {"keep", c.read}

\* The revision is another row, whose note must exist.
Edit(c) ==
  IF c.o \notin DOMAIN rows \/ (c.text = "keep" /\ ~c.titled) THEN UNCHANGED db
  ELSE UpdateRow(c.o,
         [rows[c.o] EXCEPT
           !.text = IF c.text = "keep" THEN @ ELSE c.text,
           !.revisions = IF IsRevised(c) THEN @ \cup {Revision(c.read, c.text)} ELSE @])

\* Links to and from the project; those of its tasks, notes and so on stay.
LinksOf_AnyType(p) == {l \in Table("link") : \E n \in Range(rows[l].names) : n[2] = p[2]}
LinksOf(p) == {l \in Table("link") : p \in Range(rows[l].names)}

\* objects.purge_project: the tasks are those it read before the transaction.
Doomed(p, tasks) ==
  LET inside(t) == {o \in Table(t) : p \in rows[o].refs} IN
  tasks \cup {p} \cup inside("discussion") \cup inside("question") \cup inside("chat")
    \cup inside("decision") \cup inside("note")
    \cup {d \in Table("todo") : rows[d].refs \cap tasks # {}}
    \cup {c \in Table("comment") : rows[c].refs \cap inside("discussion") # {}}
    \cup LinksOf(p)

Perform(c) == \/ c.do = "insert" /\ InsertRow(c.type, c.row)
              \/ c.do = "edit" /\ Edit(c)
              \/ c.do = "purge" /\ DeleteRows(Doomed(c.project, c.tasks))

\* The loop goes through with it; a thread does later.
LoopFree == pending[Loop] = Idle
Submit(w, c) ==
  /\ pending[w] = Idle
  /\ IF w = Loop THEN Perform(c) /\ UNCHANGED pending
     ELSE pending' = [pending EXCEPT ![w] = c] /\ UNCHANGED db

Finish(w) ==
  /\ Perform(pending[w])
  /\ pending' = [pending EXCEPT ![w] = Idle]

Open(p) == p \in Table("project") /\ rows[p].status = "live"

\* statemachine.open_questions_on
Frozen(o) ==
  \E q \in Table("question") : rows[q].status = "open" /\ o \in Range(rows[q].names)

----------------------------------------------------------------------------
(* Calls of REST handlers and of tools                                      *)

\* objects.create_task
CreateTask(w, p) ==
  /\ Open(p) /\ ~Frozen(p)
  /\ Submit(w, Insertion("task", Row({p})))

\* objects.add_todo; the version of the task is TaskFlow's.
AddTodo(w, t) ==
  /\ t \in Table("task") /\ ~Frozen(t)
  /\ \A p \in rows[t].refs : Open(p)
  /\ Submit(w, Insertion("todo", Row({t})))

\* comms.create_discussion, post_chat, decisions.create, knowledge.create_note
\* and create_wiki
CreateDiscussion(w, a, p) ==
  /\ Open(p)
  /\ Submit(w, Insertion("discussion",
                         [Row({p}) EXCEPT !.by = {a}, !.status = "open"]))
PostChat(w, p) ==
  /\ Open(p)
  /\ Submit(w, Insertion("chat", Row({p})))
CreateDecision(w, p) ==
  /\ Open(p)
  /\ Submit(w, Insertion("decision", [Row({p}) EXCEPT !.status = "proposed"]))
CreateNote(w, p, text) ==
  /\ Open(p)
  /\ Submit(w, Insertion("note", Saying({p}, text)))
CreateWiki(w, text) ==
  Submit(w, Insertion("wiki", Saying({}, text)))

\* The parent of a comment, its parent, and so on: at most one each.
Parents(S) == UNION {RefsOf(c, "comment") : c \in S}
Above(S) ==
  LET up[k \in 0 .. MaxDepth] == IF k = 0 THEN S ELSE Parents(up[k - 1]) IN up

\* comms.add_comment: its parent, and every ancestor that the loop meets, is in this
\* discussion.
DepthOK_Deeper(parent) == Above(parent)[MaxDepth] = {}
DepthOK(parent) == Above(parent)[MaxDepth - 1] = {}
AddComment(w, d, parent) ==
  /\ d \in Table("discussion") /\ rows[d].status = "open"
  /\ \A p \in rows[d].refs : Open(p)
  /\ \A c \in parent : d \in rows[c].refs
  /\ \A k \in 1 .. MaxDepth - 1 : \A c \in Above(parent)[k] : d \in rows[c].refs
  /\ DepthOK(parent)
  /\ Submit(w, Insertion("comment", [Row({d} \cup parent) EXCEPT !.status = "shown"]))

\* knowledge.edit_note, edit_wiki
EditText(w, o, titled, text) ==
  /\ o \in Table("note") \cup Table("wiki")
  /\ ~Frozen(o)
  /\ Submit(w, Edition(o, rows[o].text, titled, text))

\* questions.ask, in an archived project as well, about an object of any project
AttachExists(names) == Range(names) \subseteq DOMAIN rows
Ask(w, p, names) ==
  /\ p \in Table("project")
  /\ AttachExists(names)
  /\ Submit(w, Insertion("question",
                         [Row({p}) EXCEPT !.names = names, !.status = "open"]))

\* links.create
CreateLink(w, from, to) ==
  /\ {from, to} \subseteq DOMAIN rows
  /\ from # to
  /\ Submit(w, Insertion("link", [Row({}) EXCEPT !.names = <<from, to>>]))

----------------------------------------------------------------------------
(* Calls of REST handlers only, atomic but for the purge                    *)

\* permissions.can for archiving and purging
Manages(a, p) == a \in Superadmins \/ (a \in Admins /\ a \in rows[p].by)

Set(o, row) ==
  /\ LoopFree
  /\ UpdateRow(o, row)
  /\ UNCHANGED pending
Delete(o) ==
  /\ LoopFree
  /\ DeleteRows({o})
  /\ UNCHANGED pending

CreateProject(a) ==
  Submit(Loop, Insertion("project", [Row({}) EXCEPT !.by = {a}, !.status = "live"]))
SetArchived(a, p, status) ==
  /\ p \in Table("project") /\ Manages(a, p)
  /\ Set(p, [rows[p] EXCEPT !.status = status])
AdoptProject(a, p) ==
  /\ p \in Table("project") /\ IsAdmin(a)
  /\ Set(p, [rows[p] EXCEPT !.by = {a}])
PurgeProject(a, p) ==
  /\ p \in Table("project") /\ Manages(a, p)
  /\ LoopFree
  /\ pending' = [pending EXCEPT ![Loop] =
       [do |-> "purge", project |-> p,
        tasks |-> {t \in Table("task") : p \in rows[t].refs}]]
  /\ UNCHANGED db

CloseDiscussion(a, d) ==
  /\ d \in Table("discussion") /\ rows[d].status = "open"
  /\ IsAdmin(a) \/ a \in rows[d].by
  /\ Set(d, [rows[d] EXCEPT !.status = "closed"])
ReopenDiscussion(a, d) ==
  /\ d \in Table("discussion") /\ rows[d].status = "closed"
  /\ IsAdmin(a)
  /\ Set(d, [rows[d] EXCEPT !.status = "open"])

TrashComment(a, c) ==
  /\ c \in Table("comment") /\ rows[c].status = "shown"
  /\ a \in Humans
  /\ Set(c, [rows[c] EXCEPT !.status = "trashed"])
RestoreComment(a, c) ==
  /\ c \in Table("comment") /\ rows[c].status = "trashed"
  /\ IsAdmin(a)
  /\ Set(c, [rows[c] EXCEPT !.status = "shown"])
PurgeComment(a, c) ==
  /\ c \in Table("comment") /\ IsAdmin(a)
  /\ Delete(c)

\* decisions.set_status: the prior decision, if it is superseded, is another one of
\* the project, decided or not.
Undecided_Unchecked(d) == TRUE
Undecided(d) == rows[d].status = "proposed"
MaySupersede_Anywhere(d, prior) == prior # d
MaySupersede(d, prior) == RefsOf(prior, "project") = RefsOf(d, "project") /\ prior # d
Decide(a, d, status, prior) ==
  /\ d \in Table("decision") /\ prior \subseteq Table("decision")
  /\ a \in Humans
  /\ Undecided(d) /\ ~Frozen(d)
  /\ status = "superseded" <=> prior # {}
  /\ \A other \in prior : MaySupersede(d, other)
  /\ Set(d, [rows[d] EXCEPT !.status = status, !.refs = RefsOf(d, "project") \cup prior])

\* questions.answer and withdraw: who may is QuestionFlow's.
Resolve(q) ==
  /\ q \in Table("question") /\ rows[q].status = "open"
  /\ Set(q, [rows[q] EXCEPT !.status = "closed"])

RemoveLink(a, l) ==
  /\ l \in Table("link") /\ a \in Humans
  /\ Delete(l)

----------------------------------------------------------------------------
(* The inputs that handlers and tools pass on                               *)

Projects == Table("project")
Replies == {{}} \cup {{c} : c \in Table("comment")}
Attachments == {<<>>} \cup {<<o>> : o \in {x \in Objects : x[1] \in Linkable}}
Endpoints == {o \in DOMAIN rows : o[1] \in Linkable}
Bodies == Texts \cup {""}

ProjectHandlers ==
  \E a \in Identities :
    \/ CreateProject(a)
    \/ \E p \in Projects :
         \/ \E status \in {"live", "archived"} : SetArchived(a, p, status)
         \/ AdoptProject(a, p)
         \/ PurgeProject(a, p)
Tasks(w) == \/ \E p \in Projects : CreateTask(w, p)
            \/ \E t \in Table("task") : AddTodo(w, t)
TaskHandlers == Tasks(Loop)
DiscussionHandlers ==
  \E a \in Identities :
    \/ \E p \in Projects : CreateDiscussion(Loop, a, p)
    \/ \E d \in Table("discussion") : CloseDiscussion(a, d) \/ ReopenDiscussion(a, d)
CommentHandlers ==
  \/ \E d \in Table("discussion"), parent \in Replies : AddComment(Loop, d, parent)
  \/ \E a \in Identities, c \in Table("comment") :
       TrashComment(a, c) \/ RestoreComment(a, c) \/ PurgeComment(a, c)
ChatHandlers == \E p \in Projects : PostChat(Loop, p)
DecisionHandlers ==
  \/ \E p \in Projects : CreateDecision(Loop, p)
  \/ \E a \in Identities, d \in Table("decision"),
        status \in {"accepted", "rejected", "superseded"},
        prior \in {{}} \cup {{other} : other \in Table("decision")} :
       Decide(a, d, status, prior)
QuestionHandlers ==
  \/ \E p \in Projects, names \in Attachments : Ask(Loop, p, names)
  \/ \E q \in Table("question") : Resolve(q)
LinkHandlers ==
  \/ \E from, to \in Endpoints : CreateLink(Loop, from, to)
  \/ \E a \in Identities, l \in Table("link") : RemoveLink(a, l)
NoteHandlers ==
  \/ \E p \in Projects, text \in Bodies : CreateNote(Loop, p, text)
  \/ \E o \in Table("note"), titled \in BOOLEAN, text \in Bodies \cup {"keep"} :
       EditText(Loop, o, titled, text)
WikiHandlers ==
  \/ \E text \in Bodies : CreateWiki(Loop, text)
  \/ \E o \in Table("wiki"), titled \in BOOLEAN, text \in Bodies \cup {"keep"} :
       EditText(Loop, o, titled, text)

\* Tools run as clankers.
TaskTools(w) == Tasks(w)
TalkTools(w) ==
  \/ \E a \in Clankers, p \in Projects : CreateDiscussion(w, a, p)
  \/ \E d \in Table("discussion"), parent \in Replies : AddComment(w, d, parent)
  \/ \E p \in Projects : PostChat(w, p)
AskTool(w) == \E p \in Projects, names \in Attachments : Ask(w, p, names)
DecisionTool(w) == \E p \in Projects : CreateDecision(w, p)
\* By title and by slug: the page of that slug may get another title.
NoteTool(w) ==
  \/ \E p \in Projects, text \in Bodies : CreateNote(w, p, text)
  \/ \E o \in Table("note"), text \in Bodies : EditText(w, o, FALSE, text)
WikiTool(w) ==
  \/ \E text \in Bodies : CreateWiki(w, text)
  \/ \E o \in Table("wiki"), titled \in BOOLEAN, text \in Bodies :
       EditText(w, o, titled, text)
LinkTool(w) == \E from, to \in Endpoints : CreateLink(w, from, to)

Init ==
  /\ rows = <<>> /\ index = <<>>
  /\ pending = [w \in Threads \cup {Loop} |-> Idle]
  /\ gone = {} /\ crossed = {}

Handlers ==
  \/ ProjectHandlers \/ TaskHandlers \/ DiscussionHandlers \/ CommentHandlers
  \/ ChatHandlers \/ DecisionHandlers \/ QuestionHandlers \/ LinkHandlers
  \/ NoteHandlers \/ WikiHandlers

Tools(w) == \/ TaskTools(w) \/ TalkTools(w) \/ AskTool(w) \/ DecisionTool(w)
            \/ NoteTool(w) \/ WikiTool(w) \/ LinkTool(w)

Next ==
  \/ Handlers
  \/ \E w \in Threads : Tools(w)
  \/ \E w \in Threads \cup {Loop} : Finish(w)

Spec == Init /\ [][Next]_vars

----------------------------------------------------------------------------
(* Properties *)

\* Every column that references a row finds it, whatever purges and tools do at the
\* same time; and what a question is attached to or a link joins exists or existed.
ReferencesHold ==
  \A o \in DOMAIN rows :
    /\ rows[o].refs \subseteq DOMAIN rows
    /\ Range(rows[o].names) \subseteq DOMAIN rows \cup gone

\* The index holds the rows that can be searched, each in its project and with its
\* text, those of purged projects and former owners of an id not.
IndexMirrorsTables ==
  index = [o \in {x \in DOMAIN rows : x[1] \in Searchable} |-> Doc(o[1], rows[o])]

\* A comment answers an older one of its discussion, and there are no more levels
\* than allowed; unless a comment was purged while a thread was answering it.
CommentsCrossed == \E o \in crossed : o[1] = "comment"
CommentTrees ==
  \A c \in Table("comment") : \A p \in RefsOf(c, "comment") :
    /\ p[2] < c[2]
    /\ ~CommentsCrossed => /\ RefsOf(c, "discussion") = RefsOf(p, "discussion")
                           /\ Above({c})[MaxDepth] = {}

\* Nothing in another project stands in the way of a purge: it fails only if a tool
\* has created a task after the purge read them.
PurgeIsFree ==
  LET c == pending[Loop] IN
  /\ ~CommentsCrossed
  /\ c.do = "purge"
  /\ {t \in Table("task") : c.project \in rows[t].refs} \subseteq c.tasks
  => ~Referenced(Doomed(c.project, c.tasks))

\* Where rows are deleted, each row that is left is as it was.  What goes is one row
\* alone, a comment or a link that was removed; or it was in the project that goes
\* with it, or a link to that project, and in no other.
BelongsTo(o, p) ==
  \/ p \in rows[o].refs
  \/ \E x \in RefsOf(o, "discussion") \cup RefsOf(o, "task") : p \in rows[x].refs
GoesWith(o, p) == o = p \/ BelongsTo(o, p) \/ (o[1] = "link" /\ p \in Range(rows[o].names))
PurgeIsLocal ==
  [][LET lost == DOMAIN rows \ DOMAIN rows' IN
     lost # {} => /\ rows' = Restrict(rows, DOMAIN rows \ lost)
                  /\ \/ \E o \in lost : lost = {o} /\ o[1] \in {"comment", "link"}
                     \/ \E p \in lost \cap Projects : \A o \in lost : GoesWith(o, p)]_vars

\* No step, of an edit whose text was read long ago either, takes away a text that a
\* note or a page says, nor one that its revisions hold: it is in the revisions
\* afterwards.  Not so the text that the row was created with, which no revision
\* holds, and the empty one, in whose place a revision holds the text before it; nor
\* those of a note with the id of one that was purged under an edit.
EditsAreKept ==
  [][\A o \in (DOMAIN rows \cap DOMAIN rows') \ crossed' :
       {rows[o].text} \cup rows[o].revisions
         \subseteq {"", rows[o].created} \cup rows'[o].revisions]_vars

\* A decision that was taken is not taken again, nor what it replaces changed.
DecidedIsFinal ==
  [][\A d \in Table("decision") \cap DOMAIN rows' :
       rows[d].status # "proposed" => rows'[d] = rows[d]]_vars
=============================================================================
