--------------------------- MODULE WorkspaceProofs ---------------------------
(* Theorems about Workspace, for any identities, texts, threads and bounds. *)
EXTENDS Workspace, WellFoundedInduction, TLAPS

----------------------------------------------------------------------------
(* Types *)

ObjectsOf(t) == {o \in Objects : o[1] = t}
NameLists == {<<>>} \cup {<<o>> : o \in Objects} \cup (Objects \X Objects)

Statuses == {"", "live", "archived", "open", "closed", "shown", "trashed",
             "proposed", "accepted", "rejected", "superseded"}
RowSet == [refs : SUBSET Objects, names : NameLists, by : SUBSET Identities,
           status : Statuses, text : Bodies, revisions : SUBSET Bodies,
           created : Bodies]
Insertions == [do : {"insert"}, type : Types, row : RowSet]
Editions == [do : {"edit"}, o : ObjectsOf("note") \cup ObjectsOf("wiki"),
             read : Bodies, titled : BOOLEAN, text : Bodies \cup {"keep"}]
Purges == [do : {"purge"}, project : ObjectsOf("project"),
           tasks : SUBSET ObjectsOf("task")]

TypeInv ==
  /\ DOMAIN rows \subseteq Objects
  /\ rows \in [DOMAIN rows -> RowSet]
  /\ pending \in [Threads \cup {Loop} -> {Idle} \cup Insertions \cup Editions \cup Purges]
  /\ pending[Loop] \in {Idle} \cup Purges
  /\ \A w \in Threads : pending[w] \notin Purges

----------------------------------------------------------------------------
(* What a row of each type references *)

InProject(refs) == \E p \in ObjectsOf("project") : refs = {p}
Fits(t, refs) ==
  /\ t \in {"task", "discussion", "question", "chat", "note"} => InProject(refs)
  /\ t \in {"project", "wiki", "link"} => refs = {}
  /\ t = "todo" => \E k \in ObjectsOf("task") : refs = {k}
  /\ t = "decision" =>
       \E p \in ObjectsOf("project") : p \in refs /\ refs \ {p} \subseteq ObjectsOf("decision")
  /\ t = "comment" =>
       \E d \in ObjectsOf("discussion") :
         d \in refs /\ refs \ {d} \subseteq ObjectsOf("comment")

\* The comments among them are there, in a discussion that is among them as well.
Answers(refs) ==
  \A c \in refs :
    c[1] = "comment" => /\ c \in DOMAIN rows
                        /\ \E d \in refs \cap rows[c].refs : d[1] = "discussion"

\* There are few enough levels above the comments among them for one more.
CommentsOf(refs) == {c \in refs : c[1] = "comment"}
Shallow(refs) == Above(CommentsOf(refs))[MaxDepth - 1] = {}

\* What a call that has passed its checks may be about to write.
Promised ==
  {c \in Insertions : /\ c.row.revisions = {} /\ c.row.created = c.row.text
                      /\ Range(c.row.names) \subseteq DOMAIN rows
                      /\ Fits(c.type, c.row.refs)
                      /\ c.type = "decision" => InProject(c.row.refs)
                      /\ c.type = "comment" => Answers(c.row.refs) /\ Shallow(c.row.refs)}
    \cup {c \in Editions : c.o \in DOMAIN rows /\ c.read = rows[c.o].text}

\* What a handler that changes a row in place may make of it.
Keeps(o, row) ==
  /\ o[1] \in {"project", "discussion", "comment", "decision", "question"}
  /\ row.names = rows[o].names /\ row.text = rows[o].text
  /\ row.revisions = rows[o].revisions /\ row.created = rows[o].created
  /\ o[1] # "decision" => row.refs = rows[o].refs
  /\ o[1] = "decision" =>
       /\ rows[o].status = "proposed"
       /\ \E prior \in SUBSET Table("decision") :
            /\ row.refs = RefsOf(o, "project") \cup prior
            /\ \A d \in prior : RefsOf(d, "project") = RefsOf(o, "project")

\* The six kinds of steps.
Promise == \E w \in Threads, c \in Promised :
             pending' = [pending EXCEPT ![w] = c] /\ UNCHANGED db
Act == LoopFree /\ \E c \in Promised : Perform(c) /\ UNCHANGED pending
BeginPurge == \E c \in Purges :
                /\ {c.project} \cup c.tasks \subseteq DOMAIN rows
                /\ \A t \in c.tasks : c.project \in rows[t].refs
                /\ pending' = [pending EXCEPT ![Loop] = c] /\ UNCHANGED db
Change == LoopFree /\ \E o \in DOMAIN rows, row \in RowSet :
             Keeps(o, row) /\ UpdateRow(o, row) /\ UNCHANGED pending
Remove == LoopFree /\ \E o \in ObjectsOf("comment") \cup ObjectsOf("link") :
             o \in DOMAIN rows /\ DeleteRows({o}) /\ UNCHANGED pending
End == \E w \in Threads \cup {Loop} : Finish(w)

----------------------------------------------------------------------------
(* Names *)

\* An empty list of names.
LEMMA RangeEmpty == Range(<<>>) = {}
BY DEF Range

\* The objects that a link names.
LEMMA RangePair == ASSUME NEW a, NEW b PROVE Range(<<a, b>>) = {a, b}
<1>1. DOMAIN <<a, b>> = {1, 2}
  OBVIOUS
<1> QED
  BY <1>1 DEF Range

\* What questions and links name is a list of names.
LEMMA NameListsHold ==
  /\ <<>> \in NameLists
  /\ \A o \in Objects : <<o>> \in NameLists
  /\ \A o, p \in Objects : <<o, p>> \in NameLists
BY DEF NameLists

\* A row that references refs and is empty otherwise.
LEMMA RowType ==
  ASSUME NEW refs \in SUBSET Objects
  PROVE  /\ Row(refs) \in RowSet
         /\ Row(refs).refs = refs /\ Row(refs).names = <<>>
         /\ Row(refs).revisions = {} /\ Row(refs).created = Row(refs).text
<1>1. <<>> \in NameLists
  BY NameListsHold
<1>2. Row(refs) \in RowSet
  BY <1>1 DEF Row, RowSet, Statuses, Bodies
<1> QED
  BY <1>2 DEF Row

\* A row that is created with a text.
LEMMA SayingType ==
  ASSUME NEW refs \in SUBSET Objects, NEW text \in Bodies
  PROVE  /\ Saying(refs, text) \in RowSet
         /\ Saying(refs, text).refs = refs /\ Saying(refs, text).names = <<>>
         /\ Saying(refs, text).revisions = {}
         /\ Saying(refs, text).created = Saying(refs, text).text
<1>1. <<>> \in NameLists
  BY NameListsHold
<1> QED
  BY <1>1 DEF Saying, Row, RowSet, Statuses

\* Setting one field of a row leaves it a row, and its other fields.
LEMMA RowEdited ==
  ASSUME NEW row \in RowSet
  PROVE  /\ \A st \in Statuses : /\ [row EXCEPT !.status = st] \in RowSet
                               /\ [row EXCEPT !.status = st].refs = row.refs
                               /\ [row EXCEPT !.status = st].names = row.names
                               /\ [row EXCEPT !.status = st].text = row.text
                               /\ [row EXCEPT !.status = st].revisions = row.revisions
                               /\ [row EXCEPT !.status = st].created = row.created
         /\ \A by \in SUBSET Identities : /\ [row EXCEPT !.by = by] \in RowSet
                               /\ [row EXCEPT !.by = by].refs = row.refs
                               /\ [row EXCEPT !.by = by].names = row.names
                               /\ [row EXCEPT !.by = by].text = row.text
                               /\ [row EXCEPT !.by = by].revisions = row.revisions
                               /\ [row EXCEPT !.by = by].created = row.created
BY DEF RowSet

----------------------------------------------------------------------------
(* Every step is one of the six kinds *)

\* A call that may be promised is promised by a thread and performed by the loop.
LEMMA Submitted ==
  ASSUME NEW w \in Threads \cup {Loop}, NEW c \in Promised, Submit(w, c)
  PROVE  Promise \/ Act
<1>1. CASE w = Loop
  BY <1>1 DEF Submit, Act, LoopFree
<1>2. CASE w # Loop
  BY <1>2 DEF Submit, Promise
<1> QED
  BY <1>1, <1>2

\* A new row that references its project only, and names nothing.
LEMMA PlainInsertion ==
  ASSUME NEW p \in ObjectsOf("project"), NEW row \in RowSet,
         row.refs = {p}, row.names = <<>>, row.revisions = {}, row.created = row.text,
         NEW t \in {"task", "discussion", "chat", "note", "decision"}
  PROVE  Insertion(t, row) \in Promised
<1>1. Insertion(t, row) \in Insertions
  BY DEF Insertion, Insertions, Types
<1>2. InProject(row.refs)
  BY DEF InProject
<1>3. Fits(t, row.refs)
  BY <1>2 DEF Fits
<1> QED
  BY <1>1, <1>2, <1>3, RangeEmpty DEF Insertion, Promised

\* A project is an object of its type.
LEMMA ProjectType ==
  ASSUME TypeInv, NEW p \in Table("project")
  PROVE  p \in ObjectsOf("project") /\ {p} \in SUBSET Objects
BY DEF TypeInv, Table, ObjectsOf

\* What creates a row that references its project only.
LEMMA CreateSteps ==
  ASSUME TypeInv, NEW w \in Threads \cup {Loop}, NEW p \in Table("project")
  PROVE  /\ CreateTask(w, p) => Promise \/ Act
         /\ PostChat(w, p) => Promise \/ Act
         /\ CreateDecision(w, p) => Promise \/ Act
         /\ \A a \in Identities : CreateDiscussion(w, a, p) => Promise \/ Act
         /\ \A text \in Bodies : CreateNote(w, p, text) => Promise \/ Act
<1>0. p \in ObjectsOf("project") /\ {p} \in SUBSET Objects
  BY ProjectType
<1>1. /\ Row({p}) \in RowSet
      /\ Row({p}).refs = {p} /\ Row({p}).names = <<>>
      /\ Row({p}).revisions = {} /\ Row({p}).created = Row({p}).text
  BY <1>0, RowType
<1>2. ASSUME CreateTask(w, p) PROVE Promise \/ Act
  <2>1. Insertion("task", Row({p})) \in Promised
    BY <1>0, <1>1, PlainInsertion
  <2> QED
    BY <1>2, <2>1, Submitted DEF CreateTask
<1>3. ASSUME PostChat(w, p) PROVE Promise \/ Act
  <2>1. Insertion("chat", Row({p})) \in Promised
    BY <1>0, <1>1, PlainInsertion
  <2> QED
    BY <1>3, <2>1, Submitted DEF PostChat
<1>4. ASSUME CreateDecision(w, p) PROVE Promise \/ Act
  <2> DEFINE row == [Row({p}) EXCEPT !.status = "proposed"]
  <2>1. "proposed" \in Statuses
    BY DEF Statuses
  <2>2. /\ row \in RowSet /\ row.refs = {p} /\ row.names = <<>>
        /\ row.revisions = {} /\ row.created = row.text
    BY <1>1, <2>1, RowEdited
  <2>3. Insertion("decision", row) \in Promised
    BY <1>0, <2>2, PlainInsertion
  <2> QED
    BY <1>4, <2>3, Submitted DEF CreateDecision
<1>5. ASSUME NEW a \in Identities, CreateDiscussion(w, a, p) PROVE Promise \/ Act
  <2> DEFINE own == [Row({p}) EXCEPT !.by = {a}]
             row == [Row({p}) EXCEPT !.by = {a}, !.status = "open"]
  <2>1. "open" \in Statuses /\ {a} \in SUBSET Identities
    BY DEF Statuses
  <2>2. /\ own \in RowSet /\ own.refs = {p} /\ own.names = <<>>
        /\ own.revisions = {} /\ own.created = own.text
    BY <1>1, <2>1, RowEdited
  <2>3. /\ [own EXCEPT !.status = "open"] \in RowSet
        /\ [own EXCEPT !.status = "open"].refs = {p}
        /\ [own EXCEPT !.status = "open"].names = <<>>
        /\ [own EXCEPT !.status = "open"].revisions = {}
        /\ [own EXCEPT !.status = "open"].created = [own EXCEPT !.status = "open"].text
    BY <2>1, <2>2, RowEdited
  <2>4. row = [own EXCEPT !.status = "open"]
    OBVIOUS
  <2>5. Insertion("discussion", row) \in Promised
    BY <1>0, <2>3, <2>4, PlainInsertion
  <2> QED
    BY <1>5, <2>5, Submitted DEF CreateDiscussion
<1>6. ASSUME NEW text \in Bodies, CreateNote(w, p, text) PROVE Promise \/ Act
  <2> DEFINE row == Saying({p}, text)
  <2>1. /\ row \in RowSet /\ row.refs = {p} /\ row.names = <<>>
        /\ row.revisions = {} /\ row.created = row.text
    BY <1>0, SayingType
  <2>2. Insertion("note", row) \in Promised
    BY <1>0, <2>1, PlainInsertion
  <2> QED
    BY <1>6, <2>2, Submitted DEF CreateNote
<1> QED
  BY <1>2, <1>3, <1>4, <1>5, <1>6

\* A new row of another kind, that references nothing or comments its like.
LEMMA OtherInsertion ==
  ASSUME NEW t \in Types, NEW row \in RowSet, t # "decision", Fits(t, row.refs),
         t = "comment" => Answers(row.refs) /\ Shallow(row.refs),
         Range(row.names) \subseteq DOMAIN rows, row.revisions = {}, row.created = row.text
  PROVE  Insertion(t, row) \in Promised
BY DEF Insertion, Insertions, Promised

\* Projects, pages, links and questions.
LEMMA CreateElsewhere ==
  ASSUME TypeInv, NEW w \in Threads \cup {Loop}
  PROVE  /\ \A a \in Identities : CreateProject(a) => Promise \/ Act
         /\ \A t \in Table("task") : AddTodo(w, t) => Promise \/ Act
         /\ \A text \in Bodies : CreateWiki(w, text) => Promise \/ Act
         /\ \A from, to \in Endpoints : CreateLink(w, from, to) => Promise \/ Act
         /\ \A p \in Projects, names \in Attachments : Ask(w, p, names) => Promise \/ Act
<1>1. /\ Row({}) \in RowSet
      /\ Row({}).refs = {} /\ Row({}).names = <<>>
      /\ Row({}).revisions = {} /\ Row({}).created = Row({}).text
  BY RowType
<1>2. ASSUME NEW a \in Identities, CreateProject(a) PROVE Promise \/ Act
  <2> DEFINE own == [Row({}) EXCEPT !.by = {a}]
             row == [Row({}) EXCEPT !.by = {a}, !.status = "live"]
  <2>1. "live" \in Statuses /\ {a} \in SUBSET Identities
    BY DEF Statuses
  <2>2. /\ own \in RowSet /\ own.refs = {} /\ own.names = <<>>
        /\ own.revisions = {} /\ own.created = own.text
    BY <1>1, <2>1, RowEdited
  <2>3. /\ [own EXCEPT !.status = "live"] \in RowSet
        /\ [own EXCEPT !.status = "live"].refs = {}
        /\ [own EXCEPT !.status = "live"].names = <<>>
        /\ [own EXCEPT !.status = "live"].revisions = {}
        /\ [own EXCEPT !.status = "live"].created = [own EXCEPT !.status = "live"].text
    BY <2>1, <2>2, RowEdited
  <2>4. row = [own EXCEPT !.status = "live"]
    OBVIOUS
  <2>5. "project" \in Types /\ Fits("project", {})
    BY DEF Types, Fits
  <2>6. Insertion("project", row) \in Promised
    BY <2>3, <2>4, <2>5, RangeEmpty, OtherInsertion
  <2> QED
    BY <1>2, <2>6, Submitted DEF CreateProject
<1>3. ASSUME NEW text \in Bodies, CreateWiki(w, text) PROVE Promise \/ Act
  <2> DEFINE row == Saying({}, text)
  <2>1. /\ row \in RowSet /\ row.refs = {} /\ row.names = <<>>
        /\ row.revisions = {} /\ row.created = row.text
    BY SayingType
  <2>2. "wiki" \in Types /\ Fits("wiki", {})
    BY DEF Types, Fits
  <2>3. Insertion("wiki", row) \in Promised
    BY <2>1, <2>2, RangeEmpty, OtherInsertion
  <2> QED
    BY <1>3, <2>3, Submitted DEF CreateWiki
<1>4. ASSUME NEW from \in Endpoints, NEW to \in Endpoints, CreateLink(w, from, to)
      PROVE  Promise \/ Act
  <2> DEFINE row == [Row({}) EXCEPT !.names = <<from, to>>]
  <2>1. from \in Objects /\ to \in Objects /\ {from, to} \subseteq DOMAIN rows
    BY DEF Endpoints, TypeInv
  <2>2. <<from, to>> \in NameLists
    BY <2>1, NameListsHold
  <2>3. /\ row \in RowSet /\ row.refs = {} /\ row.names = <<from, to>>
        /\ row.revisions = {} /\ row.created = row.text
    BY <1>1, <2>2 DEF RowSet
  <2>4. Range(row.names) \subseteq DOMAIN rows
    BY <2>1, <2>3, RangePair
  <2>5. "link" \in Types /\ Fits("link", {})
    BY DEF Types, Fits
  <2>6. Insertion("link", row) \in Promised
    BY <2>3, <2>4, <2>5, OtherInsertion
  <2> QED
    BY <1>4, <2>6, Submitted DEF CreateLink
<1>5. ASSUME NEW p \in Projects, NEW names \in Attachments, Ask(w, p, names)
      PROVE  Promise \/ Act
  <2> DEFINE about == [Row({p}) EXCEPT !.names = names]
             row == [Row({p}) EXCEPT !.names = names, !.status = "open"]
  <2>1. p \in ObjectsOf("project") /\ {p} \in SUBSET Objects
    BY ProjectType DEF Projects
  <2>2. names \in NameLists
    BY NameListsHold DEF Attachments
  <2>3. /\ about \in RowSet /\ about.refs = {p} /\ about.names = names
        /\ about.revisions = {} /\ about.created = about.text
    BY <2>1, <2>2, RowType DEF RowSet
  <2>4. "open" \in Statuses
    BY DEF Statuses
  <2>5. /\ [about EXCEPT !.status = "open"] \in RowSet
        /\ [about EXCEPT !.status = "open"].refs = {p}
        /\ [about EXCEPT !.status = "open"].names = names
        /\ [about EXCEPT !.status = "open"].revisions = {}
        /\ [about EXCEPT !.status = "open"].created = [about EXCEPT !.status = "open"].text
    BY <2>3, <2>4, RowEdited
  <2>6. row = [about EXCEPT !.status = "open"]
    OBVIOUS
  <2>7. Range(names) \subseteq DOMAIN rows
    BY <1>5 DEF Ask, AttachExists
  <2>8. "question" \in Types /\ Fits("question", {p})
    BY <2>1 DEF Types, Fits, InProject
  <2>9. Insertion("question", row) \in Promised
    BY <2>5, <2>6, <2>7, <2>8, OtherInsertion
  <2> QED
    BY <1>5, <2>9, Submitted DEF Ask
<1>6. ASSUME NEW t \in Table("task"), AddTodo(w, t) PROVE Promise \/ Act
  <2>1. t \in ObjectsOf("task") /\ {t} \in SUBSET Objects
    BY DEF TypeInv, Table, ObjectsOf
  <2>2. /\ Row({t}) \in RowSet
        /\ Row({t}).refs = {t} /\ Row({t}).names = <<>>
        /\ Row({t}).revisions = {} /\ Row({t}).created = Row({t}).text
    BY <2>1, RowType
  <2>3. "todo" \in Types /\ Fits("todo", {t})
    BY <2>1 DEF Types, Fits
  <2>4. Insertion("todo", Row({t})) \in Promised
    BY <2>2, <2>3, RangeEmpty, OtherInsertion
  <2> QED
    BY <1>6, <2>4, Submitted DEF AddTodo
<1> QED
  BY <1>2, <1>3, <1>4, <1>5, <1>6

\* Edits carry the text that was read.
LEMMA TextSteps ==
  ASSUME TypeInv, NEW w \in Threads \cup {Loop}, NEW o \in Table("note") \cup Table("wiki"),
         NEW titled \in BOOLEAN, NEW text \in Bodies \cup {"keep"}, EditText(w, o, titled, text)
  PROVE  Promise \/ Act
<1>1. o \in ObjectsOf("note") \cup ObjectsOf("wiki") /\ rows[o] \in RowSet
  BY DEF TypeInv, Table, ObjectsOf
<1>2. rows[o].text \in Bodies /\ o \in DOMAIN rows
  BY <1>1 DEF RowSet, Table
<1>3. Edition(o, rows[o].text, titled, text) \in Promised
  BY <1>1, <1>2 DEF Edition, Editions, Promised
<1> QED
  BY <1>3, Submitted DEF EditText

\* A comment answers one of its discussion.
LEMMA CommentSteps ==
  ASSUME TypeInv, NEW w \in Threads \cup {Loop}, NEW d \in Table("discussion"),
         NEW parent \in Replies, AddComment(w, d, parent)
  PROVE  Promise \/ Act
<1> DEFINE row == [Row({d} \cup parent) EXCEPT !.status = "shown"]
<1>1. d \in ObjectsOf("discussion") /\ parent \subseteq ObjectsOf("comment")
  BY DEF TypeInv, Table, ObjectsOf, Replies
<1>2. {d} \cup parent \in SUBSET Objects /\ "shown" \in Statuses
  BY <1>1 DEF ObjectsOf, Statuses
<1>p. /\ Row({d} \cup parent) \in RowSet /\ Row({d} \cup parent).refs = {d} \cup parent
      /\ Row({d} \cup parent).names = <<>>
      /\ Row({d} \cup parent).revisions = {} /\ Row({d} \cup parent).created = Row({d} \cup parent).text
  BY <1>2, RowType
<1>3. /\ row \in RowSet /\ row.refs = {d} \cup parent /\ row.names = <<>>
      /\ row.revisions = {} /\ row.created = row.text
  BY <1>2, <1>p, RowEdited
<1>4. "comment" \in Types /\ Fits("comment", {d} \cup parent)
  BY <1>1 DEF Types, Fits
<1>a. \A c \in parent : c \in DOMAIN rows /\ d \in rows[c].refs
  BY DEF AddComment, Replies, Table
<1>b. Answers({d} \cup parent)
  BY <1>1, <1>a DEF Answers, ObjectsOf
<1>c. CommentsOf({d} \cup parent) = parent
  BY <1>1 DEF CommentsOf, ObjectsOf
<1>d. Shallow({d} \cup parent)
  BY <1>c DEF AddComment, DepthOK, Shallow
<1>5. Insertion("comment", row) \in Promised
  BY <1>3, <1>4, <1>b, <1>d, RangeEmpty, OtherInsertion
<1> QED
  BY <1>5, Submitted DEF AddComment

\* A row but a decision, of which only the owner or the status changes.
LEMMA KeepsPlain ==
  ASSUME NEW o \in DOMAIN rows, NEW row \in RowSet,
         o[1] \in {"project", "discussion", "comment", "question"},
         row.refs = rows[o].refs, row.names = rows[o].names, row.text = rows[o].text,
         row.revisions = rows[o].revisions, row.created = rows[o].created
  PROVE  Keeps(o, row)
BY DEF Keeps

\* Another status for a project, a discussion, a comment or a question.
LEMMA StatusSteps ==
  ASSUME TypeInv, NEW o \in DOMAIN rows, NEW status \in Statuses,
         o[1] \in {"project", "discussion", "comment", "question"},
         Set(o, [rows[o] EXCEPT !.status = status])
  PROVE  Change
<1> DEFINE row == [rows[o] EXCEPT !.status = status]
<1>1. rows[o] \in RowSet
  BY DEF TypeInv
<1>2. /\ row \in RowSet /\ row.refs = rows[o].refs /\ row.names = rows[o].names
      /\ row.text = rows[o].text /\ row.revisions = rows[o].revisions
      /\ row.created = rows[o].created
  BY <1>1, RowEdited
<1> HIDE DEF row
<1>3. Keeps(o, row)
  BY <1>2, KeepsPlain
<1> USE DEF row
<1> QED
  BY <1>2, <1>3 DEF Set, Change

\* A decision is taken once, and replaces one of its project.
LEMMA DecideSteps ==
  ASSUME TypeInv, NEW a \in Identities, NEW d \in Table("decision"),
         NEW status \in {"accepted", "rejected", "superseded"},
         NEW prior \in {{}} \cup {{other} : other \in Table("decision")},
         Decide(a, d, status, prior)
  PROVE  Change
<1> DEFINE row == [rows[d] EXCEPT !.status = status, !.refs = RefsOf(d, "project") \cup prior]
<1>1. d \in DOMAIN rows /\ rows[d] \in RowSet /\ d[1] = "decision"
  BY DEF TypeInv, Table
<1>2. RefsOf(d, "project") \subseteq Objects /\ prior \subseteq Table("decision")
      /\ prior \subseteq Objects
  BY <1>1 DEF RefsOf, RowSet, TypeInv, Table
<1>3. /\ row \in RowSet /\ row.refs = RefsOf(d, "project") \cup prior
      /\ row.names = rows[d].names /\ row.text = rows[d].text
      /\ row.revisions = rows[d].revisions /\ row.created = rows[d].created
  BY <1>1, <1>2 DEF RowSet, Statuses
<1>4. rows[d].status = "proposed" /\ \A other \in prior : RefsOf(other, "project") = RefsOf(d, "project")
  BY DEF Decide, Undecided, MaySupersede
<1>5. Keeps(d, row)
  BY <1>1, <1>2, <1>3, <1>4 DEF Keeps
<1>6. Set(d, row)
  BY DEF Decide
<1> QED
  BY <1>1, <1>3, <1>5, <1>6 DEF Set, Change

\* Archiving and adopting change the project; a purge begins by reading the tasks.
LEMMA ProjectSteps ==
  ASSUME TypeInv, NEW a \in Identities, NEW p \in Projects
  PROVE  /\ \A status \in {"live", "archived"} : SetArchived(a, p, status) => Change
         /\ AdoptProject(a, p) => Change
         /\ PurgeProject(a, p) => BeginPurge
<1>0. p \in DOMAIN rows /\ p[1] = "project" /\ rows[p] \in RowSet /\ p \in ObjectsOf("project")
  BY DEF Projects, Table, TypeInv, ObjectsOf
<1>1. ASSUME NEW status \in {"live", "archived"}, SetArchived(a, p, status) PROVE Change
  <2>1. status \in Statuses
    BY DEF Statuses
  <2> QED
    BY <1>0, <1>1, <2>1, StatusSteps DEF SetArchived
<1>2. ASSUME AdoptProject(a, p) PROVE Change
  <2> DEFINE row == [rows[p] EXCEPT !.by = {a}]
  <2>0. {a} \in SUBSET Identities
    OBVIOUS
  <2>1. /\ row \in RowSet /\ row.refs = rows[p].refs /\ row.names = rows[p].names
        /\ row.text = rows[p].text /\ row.revisions = rows[p].revisions
        /\ row.created = rows[p].created
    BY <1>0, <2>0, RowEdited
  <2> HIDE DEF row
  <2>2. Keeps(p, row)
    BY <1>0, <2>1, KeepsPlain
  <2> USE DEF row
  <2> QED
    BY <1>0, <1>2, <2>1, <2>2 DEF AdoptProject, Set, Change
<1>3. ASSUME PurgeProject(a, p) PROVE BeginPurge
  <2> DEFINE c == [do |-> "purge", project |-> p,
                   tasks |-> {t \in Table("task") : p \in rows[t].refs}]
  <2>1. Table("task") \subseteq ObjectsOf("task")
    BY DEF TypeInv, Table, ObjectsOf
  <2>2. c \in Purges
    BY <1>0, <2>1 DEF Purges
  <2>3. {c.project} \cup c.tasks \subseteq DOMAIN rows /\ \A t \in c.tasks : c.project \in rows[t].refs
    BY <1>0 DEF Table
  <2> QED
    BY <1>3, <2>2, <2>3 DEF PurgeProject, BeginPurge
<1> QED
  BY <1>1, <1>2, <1>3

\* Closing, trashing and resolving change a row, purging and removing delete one.
LEMMA TalkSteps ==
  ASSUME TypeInv, NEW a
  PROVE  /\ \A d \in Table("discussion") :
              /\ CloseDiscussion(a, d) => Change
              /\ ReopenDiscussion(a, d) => Change
         /\ \A c \in Table("comment") : /\ TrashComment(a, c) => Change
                                        /\ RestoreComment(a, c) => Change
                                        /\ PurgeComment(a, c) => Remove
         /\ \A q \in Table("question") : Resolve(q) => Change
         /\ \A l \in Table("link") : RemoveLink(a, l) => Remove
<1>1. {"open", "closed", "shown", "trashed"} \subseteq Statuses
  BY DEF Statuses
<1>2. \A t \in Types : \A o \in Table(t) : o \in DOMAIN rows /\ o[1] = t /\ o \in ObjectsOf(t)
  BY DEF TypeInv, Table, ObjectsOf
<1>3. {"discussion", "comment", "question", "link"} \subseteq Types
  BY DEF Types
<1>4. ASSUME NEW d \in Table("discussion")
      PROVE  (CloseDiscussion(a, d) => Change) /\ (ReopenDiscussion(a, d) => Change)
  BY <1>1, <1>2, <1>3, StatusSteps DEF CloseDiscussion, ReopenDiscussion
<1>5. ASSUME NEW c \in Table("comment")
      PROVE  (TrashComment(a, c) => Change) /\ (RestoreComment(a, c) => Change)
  BY <1>1, <1>2, <1>3, StatusSteps DEF TrashComment, RestoreComment
<1>6. ASSUME NEW c \in Table("comment") PROVE PurgeComment(a, c) => Remove
  BY <1>2, <1>3 DEF PurgeComment, Delete, Remove
<1>7. ASSUME NEW q \in Table("question") PROVE Resolve(q) => Change
  BY <1>1, <1>2, <1>3, StatusSteps DEF Resolve
<1>8. ASSUME NEW l \in Table("link") PROVE RemoveLink(a, l) => Remove
  BY <1>2, <1>3 DEF RemoveLink, Delete, Remove
<1> QED
  BY <1>4, <1>5, <1>6, <1>7, <1>8

\* Every step, of a handler, a tool or the end of a call, is of a kind.
LEMMA Steps ==
  ASSUME TypeInv, Next
  PROVE  Promise \/ Act \/ BeginPurge \/ Change \/ Remove \/ End
<1>0. Loop \in Threads \cup {Loop} /\ Clankers \subseteq Identities
  BY DEF Identities
<1>1. CASE ProjectHandlers
  BY <1>1, ProjectSteps, CreateElsewhere DEF ProjectHandlers
<1>2. CASE TaskHandlers
  BY <1>0, <1>2, CreateSteps, CreateElsewhere DEF TaskHandlers, Tasks, Projects
<1>3. CASE DiscussionHandlers
  BY <1>0, <1>3, CreateSteps, TalkSteps DEF DiscussionHandlers, Projects
<1>4. CASE CommentHandlers
  BY <1>0, <1>4, CommentSteps, TalkSteps DEF CommentHandlers
<1>5. CASE ChatHandlers
  BY <1>0, <1>5, CreateSteps DEF ChatHandlers, Projects
<1>6. CASE DecisionHandlers
  BY <1>0, <1>6, CreateSteps, DecideSteps DEF DecisionHandlers, Projects
<1>7. CASE QuestionHandlers
  BY <1>0, <1>7, CreateElsewhere, TalkSteps DEF QuestionHandlers
<1>8. CASE LinkHandlers
  BY <1>0, <1>8, CreateElsewhere, TalkSteps DEF LinkHandlers
<1>9. CASE NoteHandlers
  BY <1>0, <1>9, CreateSteps, TextSteps DEF NoteHandlers, Projects
<1>10. CASE WikiHandlers
  BY <1>0, <1>10, CreateElsewhere, TextSteps DEF WikiHandlers
<1>11. ASSUME NEW w \in Threads, Tools(w) PROVE Promise \/ Act
  <2>1. CASE TaskTools(w)
    BY <2>1, CreateSteps, CreateElsewhere DEF TaskTools, Tasks, Projects
  <2>2. CASE TalkTools(w)
    BY <1>0, <2>2, CreateSteps, CommentSteps DEF TalkTools, Projects
  <2>3. CASE AskTool(w)
    BY <2>3, CreateElsewhere DEF AskTool
  <2>4. CASE DecisionTool(w)
    BY <2>4, CreateSteps DEF DecisionTool, Projects
  <2>5. CASE NoteTool(w)
    BY <2>5, CreateSteps, TextSteps DEF NoteTool, Projects
  <2>6. CASE WikiTool(w)
    BY <2>6, CreateElsewhere, TextSteps DEF WikiTool
  <2>7. CASE LinkTool(w)
    BY <2>7, CreateElsewhere DEF LinkTool
  <2> QED
    BY <1>11, <2>1, <2>2, <2>3, <2>4, <2>5, <2>6, <2>7 DEF Tools
<1> QED
  BY <1>1, <1>2, <1>3, <1>4, <1>5, <1>6, <1>7, <1>8, <1>9, <1>10, <1>11 DEF Next, Handlers, End

----------------------------------------------------------------------------
(* The inductive invariant *)

Shapes == \A o \in DOMAIN rows : Fits(o[1], rows[o].refs)

\* What a decision supersedes is in its project.
SameProject ==
  \A d \in Table("decision") : \A prior \in RefsOf(d, "decision") :
    RefsOf(prior, "project") = RefsOf(d, "project")

\* A comment is in the discussion of the one it answers.
SameDiscussion == ~CommentsCrossed => \A c \in Table("comment") : Answers(rows[c].refs)

\* What threads have still to insert; what they name may have gone.
Ready(c) ==
  /\ c.row.revisions = {} /\ c.row.created = c.row.text
  /\ Range(c.row.names) \subseteq DOMAIN rows \cup gone
  /\ Fits(c.type, c.row.refs)
  /\ c.type = "decision" => InProject(c.row.refs)
  /\ c.type = "comment" /\ ~CommentsCrossed => Answers(c.row.refs)
InsertionsWait == \A w \in Threads : pending[w].do = "insert" => Ready(pending[w])

\* The tasks that a purge has read cannot go before it deletes them.
PurgeWaits ==
  pending[Loop] # Idle =>
    LET c == pending[Loop] IN
    /\ {c.project} \cup c.tasks \subseteq DOMAIN rows
    /\ \A t \in c.tasks : c.project \in rows[t].refs

DbInv == /\ Shapes /\ SameProject /\ SameDiscussion
         /\ ReferencesHold /\ IndexMirrorsTables
IInv == TypeInv /\ DbInv /\ InsertionsWait /\ PurgeWaits

\* A calm change of the tables deletes nothing, and leaves of each row what others
\* rely on.
Calm ==
  /\ DOMAIN rows \subseteq DOMAIN rows' /\ UNCHANGED <<gone, crossed>>
  /\ \A o \in DOMAIN rows : o[1] # "decision" => rows'[o].refs = rows[o].refs

\* A calm step leaves the comments that are answered where they are.
LEMMA AnswersStay ==
  ASSUME Calm, NEW refs, Answers(refs)
  PROVE  Answers(refs)'
BY DEF Calm, Answers

\* After a calm step a thread can still write what it could before.
LEMMA CalmKeepsWaiting ==
  ASSUME TypeInv, Calm, NEW c \in Insertions, Ready(c)
  PROVE  Ready(c)'
<1>1. Range(c.row.names) \subseteq (DOMAIN rows \cup gone)'
  BY DEF Ready, Calm
<1>2. c.type = "comment" /\ ~CommentsCrossed' => Answers(c.row.refs)'
  BY AnswersStay DEF Ready, Calm, CommentsCrossed
<1> QED
  BY <1>1, <1>2 DEF Ready

\* A calm step deletes none of the tasks that a purge has read.
LEMMA CalmKeepsPurge ==
  ASSUME TypeInv, Calm, UNCHANGED pending \/ pending'[Loop] = pending[Loop], PurgeWaits
  PROVE  PurgeWaits'
<1> SUFFICES ASSUME pending[Loop] # Idle PROVE PurgeWaits'
  BY DEF PurgeWaits
<1>1. pending[Loop] \in Purges /\ pending'[Loop] = pending[Loop]
  BY DEF TypeInv
<1>2. \A t \in pending[Loop].tasks : t[1] = "task"
  BY <1>1 DEF Purges, ObjectsOf
<1> QED
  BY <1>1, <1>2 DEF PurgeWaits, Calm

----------------------------------------------------------------------------
(* Insertions *)

\* What an insertion does, if it does not fail.
Adds(t, o, row) ==
  /\ o \in ObjectsOf(t) /\ o \notin DOMAIN rows
  /\ \A x \in Table(t) : x[2] < o[2]
  /\ DOMAIN rows' = DOMAIN rows \cup {o}
  /\ rows'[o] = row /\ \A x \in DOMAIN rows : rows'[x] = rows[x]
  /\ rows' \in [DOMAIN rows' -> RowSet]
  /\ row.refs \subseteq DOMAIN rows
  /\ index' = Indexed(t, o, row)
  /\ UNCHANGED <<gone, crossed>>

\* An insertion takes a fresh id and finds what it references, or does nothing.
LEMMA InsertAdds ==
  ASSUME TypeInv, NEW t \in Types, NEW row \in RowSet, InsertRow(t, row)
  PROVE  UNCHANGED db \/ \E o \in ObjectsOf(t) : Adds(t, o, row)
<1> SUFFICES ASSUME ForeignKeysHold(row.refs) /\ Unique(t, row)
             PROVE  \E o \in ObjectsOf(t) : Adds(t, o, row)
  BY DEF InsertRow
<1>1. PICK i \in 1 .. MaxId : /\ IsNextId(t, i)
                              /\ rows' = Put(rows, <<t, i>>, row)
                              /\ index' = Indexed(t, <<t, i>>, row)
  BY DEF InsertRow
<1> DEFINE o == <<t, i>>
<1>2. o \in ObjectsOf(t) /\ o[1] = t /\ o[2] = i
  BY DEF ObjectsOf, Objects
<1>3. \A x \in Table(t) : x[2] < o[2]
  BY <1>1 DEF IsNextId
<1>4. o \notin DOMAIN rows
  <2> SUFFICES ASSUME o \in DOMAIN rows PROVE FALSE
    OBVIOUS
  <2>1. o[2] < o[2]
    BY <1>2, <1>3 DEF Table
  <2> QED
    BY <1>2, <2>1
<1>p. rows' = Put(rows, o, row) /\ index' = Indexed(t, o, row)
  BY <1>1
<1> HIDE DEF o
<1>f. rows' = [y \in DOMAIN rows \cup {o} |-> IF y = o THEN row ELSE rows[y]]
  BY <1>p DEF Put
<1>5. /\ DOMAIN rows' = DOMAIN rows \cup {o} /\ rows'[o] = row
      /\ \A x \in DOMAIN rows : rows'[x] = rows[x]
  BY <1>f, <1>4
<1>6. rows' \in [DOMAIN rows' -> RowSet]
  BY <1>f, <1>5 DEF TypeInv
<1>7. row.refs \subseteq DOMAIN rows
  BY DEF ForeignKeysHold
<1>8. UNCHANGED <<gone, crossed>>
  BY DEF InsertRow
<1> QED
  BY <1>p, <1>2, <1>3, <1>4, <1>5, <1>6, <1>7, <1>8 DEF Adds

\* An insertion is calm.
LEMMA AddsIsCalm ==
  ASSUME NEW t, NEW o, NEW row, Adds(t, o, row)
  PROVE  Calm
BY DEF Adds, Calm

\* The index after a step, in terms of documents of the tables after it.
DocAfter(t, row) ==
  [of |-> IF t # "comment" THEN row.refs
          ELSE UNION {rows'[d].refs : d \in {r \in row.refs : r[1] = "discussion"}},
   text |-> row.text]

\* To show that the index mirrors the tables after a step.
LEMMA IndexAfter ==
  ASSUME index' = [o \in {x \in DOMAIN rows' : x[1] \in Searchable}
                     |-> DocAfter(o[1], rows'[o])]
  PROVE  IndexMirrorsTables'
BY DEF IndexMirrorsTables, Doc, DocAfter

\* A document is the same while its discussion is.
LEMMA DocStays ==
  ASSUME NEW t, NEW row, \A d \in row.refs : d[1] = "discussion" => rows'[d].refs = rows[d].refs
  PROVE  DocAfter(t, row) = Doc(t, row)
BY DEF DocAfter, Doc

\* The trigger on INSERT writes the document of the new row; no other changes.
LEMMA InsertIndexes ==
  ASSUME TypeInv, DbInv, NEW t \in Types, NEW row \in RowSet, NEW o, Adds(t, o, row)
  PROVE  IndexMirrorsTables'
<1>1. /\ o[1] = t /\ o \notin DOMAIN rows /\ DOMAIN rows' = DOMAIN rows \cup {o}
      /\ rows'[o] = row /\ row.refs \subseteq DOMAIN rows
      /\ \A x \in DOMAIN rows : rows'[x] = rows[x]
      /\ index' = Indexed(t, o, row)
  BY DEF Adds, ObjectsOf
<1>2. DocAfter(t, row) = Doc(t, row)
  BY <1>1, DocStays
<1>3. ASSUME NEW x \in DOMAIN rows PROVE DocAfter(x[1], rows[x]) = Doc(x[1], rows[x])
  <2>1. rows[x].refs \subseteq DOMAIN rows
    BY DEF DbInv, ReferencesHold
  <2>2. \A d \in rows[x].refs : rows'[d].refs = rows[d].refs
    BY <1>1, <2>1
  <2> QED
    BY <2>2 DEF DocAfter, Doc
<1>4. index = [x \in {y \in DOMAIN rows : y[1] \in Searchable} |-> Doc(x[1], rows[x])]
  BY DEF DbInv, IndexMirrorsTables
<1>5. index' = [x \in {y \in DOMAIN rows' : y[1] \in Searchable}
                  |-> DocAfter(x[1], rows'[x])]
  <2>1. CASE t \in Searchable
    <3>1. DOMAIN index \cup {o} = {y \in DOMAIN rows' : y[1] \in Searchable}
      BY <1>1, <1>4, <2>1
    <3>2. index' = [x \in DOMAIN index \cup {o} |-> IF x = o THEN Doc(t, row) ELSE index[x]]
      BY <1>1, <2>1 DEF Indexed, Put
    <3>3. \A x \in DOMAIN index \cup {o} :
            (IF x = o THEN Doc(t, row) ELSE index[x]) = DocAfter(x[1], rows'[x])
      BY <1>1, <1>2, <1>3, <1>4
    <3> QED
      BY <3>1, <3>2, <3>3
  <2>2. CASE t \notin Searchable
    <3>1. {y \in DOMAIN rows : y[1] \in Searchable} = {y \in DOMAIN rows' : y[1] \in Searchable}
      BY <1>1, <2>2
    <3>2. index' = index
      BY <1>1, <2>2 DEF Indexed
    <3>3. \A x \in {y \in DOMAIN rows : y[1] \in Searchable} :
            Doc(x[1], rows[x]) = DocAfter(x[1], rows'[x])
      BY <1>1, <1>3
    <3> QED
      BY <1>4, <3>1, <3>2, <3>3
  <2> QED
    BY <2>1, <2>2
<1> QED
  BY <1>5, IndexAfter

\* An insertion of what a thread may write keeps the tables in order.
LEMMA InsertKeepsDb ==
  ASSUME TypeInv, DbInv, NEW t \in Types, NEW row \in RowSet, NEW o, Adds(t, o, row),
         Ready(Insertion(t, row))
  PROVE  DbInv'
<1>1. /\ o[1] = t /\ o \notin DOMAIN rows /\ DOMAIN rows' = DOMAIN rows \cup {o}
      /\ rows'[o] = row /\ row.refs \subseteq DOMAIN rows
      /\ \A x \in DOMAIN rows : rows'[x] = rows[x]
      /\ gone' = gone /\ crossed' = crossed
  BY DEF Adds, ObjectsOf
<1>2. /\ row.revisions = {} /\ row.created = row.text /\ Fits(t, row.refs)
      /\ Range(row.names) \subseteq DOMAIN rows \cup gone
      /\ t = "decision" => InProject(row.refs)
      /\ t = "comment" /\ ~CommentsCrossed => Answers(row.refs)
  BY DEF Ready, Insertion
<1>3. Shapes'
  BY <1>1, <1>2 DEF DbInv, Shapes, Fits, InProject
<1>4. SameProject'
  <2> SUFFICES ASSUME NEW d \in Table("decision")', NEW prior \in RefsOf(d, "decision")'
               PROVE  (RefsOf(prior, "project") = RefsOf(d, "project"))'
    BY DEF SameProject
  <2>1. CASE d = o
    <3>1. InProject(row.refs) /\ prior \in row.refs /\ prior[1] = "decision"
      BY <1>1, <1>2, <2>1 DEF Table, RefsOf
    <3> QED
      BY <3>1 DEF InProject, ObjectsOf
  <2>2. CASE d # o
    <3>1. d \in Table("decision") /\ prior \in RefsOf(d, "decision") /\ prior \in DOMAIN rows
      BY <1>1, <2>2 DEF Table, RefsOf, DbInv, ReferencesHold
    <3>2. RefsOf(prior, "project") = RefsOf(d, "project")
      BY <3>1 DEF DbInv, SameProject
    <3> QED
      BY <1>1, <3>1, <3>2 DEF RefsOf, Table
  <2> QED
    BY <2>1, <2>2
<1>5. SameDiscussion'
  <2> SUFFICES ASSUME ~CommentsCrossed, NEW c \in Table("comment")' PROVE Answers(rows[c].refs)'
    BY <1>1 DEF SameDiscussion, CommentsCrossed
  <2>1. Calm
    BY AddsIsCalm
  <2>2. Answers(rows'[c].refs)
    BY <1>1, <1>2 DEF Table, DbInv, SameDiscussion
  <2> QED
    BY <2>1, <2>2 DEF Calm, Answers
<1>6. ReferencesHold'
  BY <1>1, <1>2 DEF DbInv, ReferencesHold
<1> QED
  BY <1>3, <1>4, <1>5, <1>6, InsertIndexes DEF DbInv

----------------------------------------------------------------------------
(* Changes of a row *)

Mends(o, row) ==
  /\ o \in DOMAIN rows /\ row \in RowSet
  /\ row.names = rows[o].names
  /\ o[1] \notin Rewritable => row.text = rows[o].text
  /\ o[1] # "decision" => row.refs = rows[o].refs
  /\ o[1] = "decision" =>
       \E prior \in SUBSET Table("decision") :
         /\ row.refs = RefsOf(o, "project") \cup prior
         /\ \A d \in prior : RefsOf(d, "project") = RefsOf(o, "project")

\* A handler that changes a row in place mends it.
LEMMA KeepsMends ==
  ASSUME DbInv, NEW o \in DOMAIN rows, NEW row \in RowSet, Keeps(o, row)
  PROVE  Mends(o, row)
BY DEF Mends, Keeps

\* An edit mends its row.
LEMMA EditMends ==
  ASSUME TypeInv, DbInv, NEW c \in Editions, Edit(c)
  PROVE  \/ UNCHANGED db
         \/ \E row \in RowSet : c.o[1] # "decision" /\ Mends(c.o, row) /\ UpdateRow(c.o, row)
<1> SUFFICES ASSUME c.o \in DOMAIN rows
             PROVE  \/ UNCHANGED db
                    \/ \E row \in RowSet : /\ c.o[1] # "decision" /\ Mends(c.o, row)
                                           /\ UpdateRow(c.o, row)
  BY DEF Edit
<1> DEFINE old == rows[c.o]
           text == IF c.text = "keep" THEN old.text ELSE c.text
           revisions == IF IsRevised(c) THEN old.revisions \cup {Revision(c.read, c.text)}
                        ELSE old.revisions
           row == [old EXCEPT !.text = text, !.revisions = revisions]
<1>1. old \in RowSet /\ c.o[1] \in {"note", "wiki"}
  BY DEF TypeInv, Editions, ObjectsOf
<1>2. c.read \in Bodies /\ c.text \in Bodies \cup {"keep"}
  BY DEF Editions
<1>3. text \in Bodies
  BY <1>1, <1>2 DEF RowSet
<1>4. Revision(c.read, c.text) \in Bodies
  BY <1>2 DEF Revision, Bodies
<1>5. revisions \in SUBSET Bodies
  BY <1>1, <1>4 DEF RowSet
<1>6. UNCHANGED db \/ UpdateRow(c.o, row)
  BY DEF Edit
<1> HIDE DEF text, revisions
<1>7. row \in RowSet /\ row.refs = old.refs /\ row.names = old.names
  BY <1>1, <1>3, <1>5 DEF RowSet
<1> HIDE DEF row
<1>8. c.o[1] # "decision" /\ c.o[1] \in Rewritable
  BY <1>1 DEF Rewritable, Searchable, Types
<1>9. Mends(c.o, row)
  BY <1>7, <1>8 DEF Mends
<1> QED
  BY <1>6, <1>7, <1>8, <1>9

\* An update changes one row.
LEMMA UpdateChanges ==
  ASSUME TypeInv, NEW o \in DOMAIN rows, NEW row \in RowSet, UpdateRow(o, row)
  PROVE  /\ DOMAIN rows' = DOMAIN rows
         /\ rows'[o] = row /\ \A x \in DOMAIN rows \ {o} : rows'[x] = rows[x]
         /\ rows' \in [DOMAIN rows' -> RowSet]
         /\ UNCHANGED <<gone, crossed>>
<1>1. rows' = [rows EXCEPT ![o] = row]
  BY DEF UpdateRow
<1>2. rows \in [DOMAIN rows -> RowSet]
  BY DEF TypeInv
<1> QED
  BY <1>1, <1>2 DEF UpdateRow

\* An update is calm.
LEMMA UpdateIsCalm ==
  ASSUME TypeInv, NEW o \in DOMAIN rows, NEW row \in RowSet, UpdateRow(o, row), Mends(o, row)
  PROVE  Calm
BY UpdateChanges DEF Calm, Mends

\* The triggers on UPDATE keep the index, though comments have none.
LEMMA UpdateIndexes ==
  ASSUME TypeInv, DbInv, NEW o \in DOMAIN rows, NEW row \in RowSet, UpdateRow(o, row),
         Mends(o, row)
  PROVE  IndexMirrorsTables'
<1>1. /\ DOMAIN rows' = DOMAIN rows /\ rows'[o] = row
      /\ \A x \in DOMAIN rows \ {o} : rows'[x] = rows[x]
  BY UpdateChanges
<1>2. index = [x \in {y \in DOMAIN rows : y[1] \in Searchable} |-> Doc(x[1], rows[x])]
  BY DEF DbInv, IndexMirrorsTables
<1>3. \A d \in DOMAIN rows : d[1] = "discussion" => rows'[d].refs = rows[d].refs
  BY <1>1 DEF Mends
<1>4. ASSUME NEW x \in DOMAIN rows, x # o
      PROVE  DocAfter(x[1], rows'[x]) = Doc(x[1], rows[x])
  <2>1. \A d \in rows[x].refs : d[1] = "discussion" => rows'[d].refs = rows[d].refs
    BY <1>3 DEF DbInv, ReferencesHold
  <2> QED
    BY <1>1, <1>4, <2>1, DocStays
<1>5. CASE o[1] \in Rewritable
  <2>1. o[1] # "comment" /\ o[1] \in Searchable
    BY <1>5 DEF Rewritable
  <2>2. DocAfter(o[1], rows'[o]) = Doc(o[1], row)
    BY <1>1, <2>1 DEF DocAfter, Doc
  <2>3. index' = [index EXCEPT ![o] = Doc(o[1], row)]
    BY <1>5 DEF UpdateRow
  <2>4. index' = [x \in {y \in DOMAIN rows' : y[1] \in Searchable}
                    |-> DocAfter(x[1], rows'[x])]
    BY <1>1, <1>2, <1>4, <2>1, <2>2, <2>3
  <2> QED
    BY <2>4, IndexAfter
<1>6. CASE o[1] \notin Rewritable
  <2>1. index' = index
    BY <1>6 DEF UpdateRow
  <2>2. o[1] \in Searchable => o[1] = "comment"
    BY <1>6 DEF Rewritable
  <2>3. ASSUME o[1] = "comment" PROVE DocAfter(o[1], rows'[o]) = Doc(o[1], rows[o])
    <3>1. row.refs = rows[o].refs /\ row.text = rows[o].text
      BY <1>6, <2>3 DEF Mends
    <3>2. \A d \in row.refs : d[1] = "discussion" => rows'[d].refs = rows[d].refs
      BY <1>3, <3>1 DEF DbInv, ReferencesHold
    <3> QED
      BY <1>1, <3>1, <3>2 DEF DocAfter, Doc
  <2>4. index' = [x \in {y \in DOMAIN rows' : y[1] \in Searchable}
                    |-> DocAfter(x[1], rows'[x])]
    BY <1>1, <1>2, <1>4, <2>1, <2>2, <2>3
  <2> QED
    BY <2>4, IndexAfter
<1> QED
  BY <1>5, <1>6

\* An update that mends a row keeps the tables in order.
LEMMA UpdateKeepsDb ==
  ASSUME TypeInv, DbInv, NEW o \in DOMAIN rows, NEW row \in RowSet, UpdateRow(o, row),
         Mends(o, row)
  PROVE  DbInv'
<1>1. /\ DOMAIN rows' = DOMAIN rows /\ rows'[o] = row
      /\ \A x \in DOMAIN rows \ {o} : rows'[x] = rows[x]
      /\ gone' = gone /\ crossed' = crossed
  BY UpdateChanges
<1>2. \A x \in DOMAIN rows : x[1] # "decision" => rows'[x].refs = rows[x].refs
  BY <1>1 DEF Mends
<1>3. \A x \in DOMAIN rows : rows'[x].names = rows[x].names
  BY <1>1 DEF Mends
<1>4. Table("decision") \subseteq ObjectsOf("decision")
  BY DEF TypeInv, Table, ObjectsOf
<1>5. ASSUME o[1] = "decision"
      PROVE  \E prior \in SUBSET Table("decision") :
               /\ row.refs = RefsOf(o, "project") \cup prior
               /\ \A d \in prior : RefsOf(d, "project") = RefsOf(o, "project")
  BY <1>5 DEF Mends
<1>6. Shapes'
  <2> SUFFICES ASSUME NEW x \in DOMAIN rows PROVE Fits(x[1], rows'[x].refs)
    BY <1>1 DEF Shapes, Fits, InProject
  <2>0. Fits(x[1], rows[x].refs)
    BY DEF DbInv, Shapes
  <2>1. CASE x = o /\ o[1] = "decision"
    <3>1. PICK p \in ObjectsOf("project") :
            p \in rows[o].refs /\ rows[o].refs \ {p} \subseteq ObjectsOf("decision")
      BY <2>0, <2>1 DEF Fits
    <3>2. RefsOf(o, "project") = {p}
      BY <3>1 DEF RefsOf, ObjectsOf
    <3>3. p \in row.refs /\ row.refs \ {p} \subseteq ObjectsOf("decision")
      BY <1>4, <1>5, <2>1, <3>2
    <3> QED
      BY <1>1, <2>1, <3>3 DEF Fits
  <2>2. CASE ~(x = o /\ o[1] = "decision")
    BY <1>1, <1>2, <2>0, <2>2
  <2> QED
    BY <2>1, <2>2
<1>7. \A x \in DOMAIN rows : {r \in rows'[x].refs : r[1] = "project"} = RefsOf(x, "project")
  BY <1>1, <1>2, <1>4, <1>5 DEF RefsOf, ObjectsOf
<1>8. SameProject'
  <2> SUFFICES ASSUME NEW d \in Table("decision"), NEW prior \in rows'[d].refs,
                      prior[1] = "decision"
               PROVE  prior \in DOMAIN rows /\ RefsOf(prior, "project") = RefsOf(d, "project")
    BY <1>1, <1>7 DEF SameProject, Table, RefsOf
  <2>1. CASE d = o
    BY <1>1, <1>5, <2>1 DEF Table, RefsOf
  <2>2. CASE d # o
    <3>1. prior \in RefsOf(d, "decision")
      BY <1>1, <2>2 DEF Table, RefsOf
    <3> QED
      BY <3>1 DEF DbInv, SameProject, ReferencesHold, RefsOf, Table
  <2> QED
    BY <2>1, <2>2
<1>9. SameDiscussion'
  <2> SUFFICES ASSUME ~CommentsCrossed, NEW c \in Table("comment")' PROVE Answers(rows[c].refs)'
    BY <1>1 DEF SameDiscussion, CommentsCrossed
  <2>1. c \in Table("comment") /\ rows'[c].refs = rows[c].refs
    BY <1>1, <1>2 DEF Table
  <2>2. Answers(rows[c].refs)
    BY <2>1 DEF DbInv, SameDiscussion
  <2> QED
    BY <1>1, <1>2, <2>1, <2>2 DEF Answers
<1>10. ReferencesHold'
  <2> SUFFICES ASSUME NEW x \in DOMAIN rows
               PROVE  /\ rows'[x].refs \subseteq DOMAIN rows
                      /\ Range(rows'[x].names) \subseteq DOMAIN rows \cup gone
    BY <1>1 DEF ReferencesHold
  <2>1. rows[x].refs \subseteq DOMAIN rows /\ Range(rows[x].names) \subseteq DOMAIN rows \cup gone
    BY DEF DbInv, ReferencesHold
  <2>2. rows'[x].refs \subseteq DOMAIN rows
    BY <1>1, <1>2, <1>5, <2>1 DEF Table, RefsOf
  <2> QED
    BY <1>3, <2>1, <2>2
<1> QED
  BY <1>6, <1>8, <1>9, <1>10, UpdateIndexes DEF DbInv

----------------------------------------------------------------------------
(* Deletions *)

\* What a deletion does, if it does not fail.
Drops(S) ==
  /\ DOMAIN rows' = DOMAIN rows \ S
  /\ \A x \in DOMAIN rows \ S : rows'[x] = rows[x] /\ rows[x].refs \cap S = {}
  /\ rows' \in [DOMAIN rows' -> RowSet]
  /\ index' = [x \in DOMAIN index \ S |-> index[x]]
  /\ gone' = {o \in gone \cup S : NamedBeside(o, S)}
  /\ crossed' = crossed \cup {o \in S : Replying(o) \/ Editing(o)}

\* A deletion drops rows that no other references, or does nothing.
LEMMA DeleteDrops ==
  ASSUME TypeInv, NEW S, DeleteRows(S)
  PROVE  UNCHANGED db \/ Drops(S)
<1> SUFFICES ASSUME ~Referenced(S) PROVE Drops(S)
  BY DEF DeleteRows
<1>1. rows' = [x \in DOMAIN rows \ S |-> rows[x]] /\ index' = [x \in DOMAIN index \ S |-> index[x]]
  BY DEF DeleteRows, Unindexed, Restrict
<1>2. rows' \in [DOMAIN rows' -> RowSet]
  BY <1>1 DEF TypeInv
<1>3. \A x \in DOMAIN rows \ S : rows'[x] = rows[x] /\ rows[x].refs \cap S = {}
  BY <1>1 DEF Referenced
<1>4. /\ gone' = {o \in gone \cup S : NamedBeside(o, S)}
      /\ crossed' = crossed \cup {o \in S : Replying(o) \/ Editing(o)}
  BY DEF DeleteRows
<1> QED
  BY <1>1, <1>2, <1>3, <1>4 DEF Drops

\* What is left after a deletion is in order.
LEMMA DropKeepsDb ==
  ASSUME TypeInv, DbInv, NEW S, Drops(S)
  PROVE  DbInv'
<1>1. /\ DOMAIN rows' = DOMAIN rows \ S
      /\ \A x \in DOMAIN rows' : x \in DOMAIN rows /\ rows'[x] = rows[x]
      /\ \A x \in DOMAIN rows' : rows[x].refs \subseteq DOMAIN rows'
  BY DEF Drops, DbInv, ReferencesHold
<1>2. Shapes'
  BY <1>1 DEF DbInv, Shapes, Fits, InProject
<1>3. SameProject'
  <2> SUFFICES ASSUME NEW d \in Table("decision")', NEW prior \in RefsOf(d, "decision")'
               PROVE  (RefsOf(prior, "project") = RefsOf(d, "project"))'
    BY DEF SameProject
  <2>1. /\ d \in Table("decision") /\ prior \in RefsOf(d, "decision")
        /\ d \in DOMAIN rows' /\ prior \in DOMAIN rows'
    BY <1>1 DEF Table, RefsOf
  <2>2. RefsOf(prior, "project") = RefsOf(d, "project")
    BY <2>1 DEF DbInv, SameProject
  <2> QED
    BY <1>1, <2>1, <2>2 DEF RefsOf
<1>4. SameDiscussion'
  <2> SUFFICES ASSUME ~CommentsCrossed', NEW c \in Table("comment")' PROVE Answers(rows[c].refs)'
    BY DEF SameDiscussion
  <2>1. c \in Table("comment") /\ c \in DOMAIN rows' /\ rows'[c] = rows[c] /\ ~CommentsCrossed
    BY <1>1 DEF Table, Drops, CommentsCrossed
  <2>2. Answers(rows[c].refs)
    BY <2>1 DEF DbInv, SameDiscussion
  <2> QED
    BY <1>1, <2>1, <2>2 DEF Answers
<1>5. ReferencesHold'
  <2> SUFFICES ASSUME NEW x \in DOMAIN rows', NEW n \in Range(rows[x].names)
               PROVE  n \in DOMAIN rows' \cup gone'
    BY <1>1 DEF ReferencesHold
  <2>1. n \in DOMAIN rows \cup gone
    BY <1>1 DEF DbInv, ReferencesHold
  <2>2. NamedBeside(n, S)
    BY <1>1 DEF NamedBeside
  <2> QED
    BY <1>1, <2>1, <2>2 DEF Drops
<1>6. IndexMirrorsTables'
  <2>1. index = [x \in {y \in DOMAIN rows : y[1] \in Searchable} |-> Doc(x[1], rows[x])]
    BY DEF DbInv, IndexMirrorsTables
  <2>2. ASSUME NEW x \in DOMAIN rows' PROVE DocAfter(x[1], rows'[x]) = Doc(x[1], rows[x])
    <3>1. \A d \in rows[x].refs : rows'[d] = rows[d]
      BY <1>1
    <3> QED
      BY <1>1, <3>1, DocStays
  <2>3. index' = [x \in DOMAIN index \ S |-> index[x]]
    BY DEF Drops
  <2>4. DOMAIN index \ S = {y \in DOMAIN rows' : y[1] \in Searchable}
    BY <1>1, <2>1
  <2>5. \A x \in DOMAIN index \ S : index[x] = DocAfter(x[1], rows'[x])
    BY <1>1, <2>1, <2>2
  <2>6. index' = [x \in {y \in DOMAIN rows' : y[1] \in Searchable}
                    |-> DocAfter(x[1], rows'[x])]
    BY <2>3, <2>4, <2>5
  <2> QED
    BY <2>6, IndexAfter
<1> QED
  BY <1>2, <1>3, <1>4, <1>5, <1>6 DEF DbInv

\* After a deletion a thread can still write what it could, or will find out.
LEMMA DropKeepsWaiting ==
  ASSUME TypeInv, DbInv, InsertionsWait, NEW S, Drops(S),
         \A w \in Threads : pending'[w] = pending[w]
  PROVE  InsertionsWait'
<1> SUFFICES ASSUME NEW w \in Threads, pending[w].do = "insert" PROVE Ready(pending[w])'
  BY DEF InsertionsWait
<1> DEFINE row == pending[w].row
<1>1. Ready(pending[w]) /\ pending'[w] = pending[w]
  BY DEF InsertionsWait
<1>2. Range(row.names) \subseteq DOMAIN rows' \cup gone'
  <2> SUFFICES ASSUME NEW n \in Range(row.names) PROVE n \in DOMAIN rows' \cup gone'
    OBVIOUS
  <2>1. n \in DOMAIN rows \cup gone
    BY <1>1 DEF Ready
  <2>2. NamedBeside(n, S)
    BY DEF NamedBeside
  <2> QED
    BY <2>1, <2>2 DEF Drops
<1>3. ASSUME pending[w].type = "comment", ~CommentsCrossed' PROVE Answers(row.refs)'
  <2>1. Answers(row.refs)
    BY <1>1, <1>3 DEF Ready, Drops, CommentsCrossed
  <2>2. \A c \in row.refs : c[1] = "comment" => c \notin S
    BY <1>3 DEF Replying, Drops, CommentsCrossed
  <2> QED
    BY <1>1, <2>1, <2>2 DEF Answers, Drops
<1> QED
  BY <1>1, <1>2, <1>3 DEF Ready

----------------------------------------------------------------------------
(* The invariant is inductive *)

RowsTyped == DOMAIN rows \subseteq Objects /\ rows \in [DOMAIN rows -> RowSet]

\* Nothing happens to the tables.
LEMMA StillKeeps ==
  ASSUME TypeInv, DbInv, UNCHANGED db
  PROVE  RowsTyped' /\ DbInv' /\ Calm
<1>1. RowsTyped' /\ Calm
  BY DEF TypeInv, RowsTyped, Calm, db
<1>2. DbInv'
  BY DEF db, DbInv, Shapes, SameProject, SameDiscussion, ReferencesHold,
         IndexMirrorsTables, Doc, Table, RefsOf, Answers, CommentsCrossed
<1> QED
  BY <1>1, <1>2

\* What an insertion or an edit does, whoever performs it and whenever.
LEMMA PerformKeeps ==
  ASSUME TypeInv, DbInv, NEW c \in Insertions \cup Editions,
         c.do = "insert" => Ready(c), Perform(c)
  PROVE  RowsTyped' /\ DbInv' /\ Calm
<1>0. ASSUME UNCHANGED db PROVE RowsTyped' /\ DbInv' /\ Calm
  BY <1>0, StillKeeps
<1>1. CASE c \in Insertions
  <2>1. /\ c.type \in Types /\ c.row \in RowSet /\ c.do = "insert"
        /\ Ready(Insertion(c.type, c.row)) /\ InsertRow(c.type, c.row)
    BY <1>1 DEF Insertions, Insertion, Perform, Ready
  <2>2. ASSUME NEW o \in ObjectsOf(c.type), Adds(c.type, o, c.row)
        PROVE  RowsTyped' /\ DbInv' /\ Calm
    <3>1. RowsTyped'
      BY <2>2 DEF Adds, RowsTyped, TypeInv, ObjectsOf
    <3> QED
      BY <2>1, <2>2, <3>1, InsertKeepsDb, AddsIsCalm
  <2> QED
    BY <1>0, <2>1, <2>2, InsertAdds
<1>2. CASE c \in Editions
  <2>1. Edit(c)
    BY <1>2 DEF Editions, Perform
  <2>2. ASSUME NEW row \in RowSet, Mends(c.o, row), UpdateRow(c.o, row)
        PROVE  RowsTyped' /\ DbInv' /\ Calm
    <3>1. c.o \in DOMAIN rows
      BY <2>2 DEF Mends
    <3>2. RowsTyped'
      BY <2>2, <3>1, UpdateChanges DEF RowsTyped, TypeInv
    <3> QED
      BY <2>2, <3>1, <3>2, UpdateKeepsDb, UpdateIsCalm
  <2> QED
    BY <1>0, <1>2, <2>1, <2>2, EditMends
<1> QED
  BY <1>1, <1>2

\* What threads wait to insert, when one of them may have finished.
LEMMA CalmKeepsInsertions ==
  ASSUME IInv, Calm, \A w \in Threads : pending'[w] \in {pending[w], Idle}
  PROVE  InsertionsWait'
<1> SUFFICES ASSUME NEW w \in Threads, pending'[w].do = "insert" PROVE Ready(pending[w])'
  BY DEF InsertionsWait
<1>1. pending'[w] = pending[w] /\ pending[w].do = "insert"
  BY DEF Idle
<1>2. pending[w] \in Insertions /\ Ready(pending[w])
  BY <1>1 DEF IInv, TypeInv, InsertionsWait, Idle, Editions, Purges
<1>3. PICK c \in Insertions : c = pending[w]
  BY <1>2
<1>4. Ready(c)'
  BY <1>2, <1>3, CalmKeepsWaiting DEF IInv
<1> QED
  BY <1>1, <1>3, <1>4

\* A deletion, whether it fails or not.
LEMMA DeleteKeeps ==
  ASSUME IInv, NEW S, DeleteRows(S), \A w \in Threads : pending'[w] = pending[w]
  PROVE  RowsTyped' /\ DbInv' /\ InsertionsWait'
<1>1. CASE UNCHANGED db
  <2>1. RowsTyped' /\ DbInv' /\ Calm
    BY <1>1, StillKeeps DEF IInv
  <2> QED
    BY <2>1, CalmKeepsInsertions
<1>2. CASE Drops(S)
  <2>1. RowsTyped'
    BY <1>2 DEF Drops, RowsTyped, IInv, TypeInv
  <2> QED
    BY <1>2, <2>1, DropKeepsDb, DropKeepsWaiting DEF IInv
<1> QED
  BY <1>1, <1>2, DeleteDrops DEF IInv

\* What has just been checked is ready to be written.
LEMMA PromisedIsReady ==
  ASSUME NEW c \in Promised
  PROVE  c \in Insertions \cup Editions /\ (c.do = "insert" => Ready(c))
BY DEF Promised, Ready, Editions

\* The call of one thread, or of the loop, is replaced.
LEMMA PendingAfter ==
  ASSUME TypeInv, NEW w \in Threads \cup {Loop}, NEW c,
         pending' = [pending EXCEPT ![w] = c],
         IF w = Loop THEN c \in {Idle} \cup Purges
         ELSE c \in {Idle} \cup Insertions \cup Editions
  PROVE  /\ pending' \in [Threads \cup {Loop} -> {Idle} \cup Insertions \cup Editions \cup Purges]
         /\ pending'[Loop] \in {Idle} \cup Purges
         /\ \A x \in Threads : pending'[x] \notin Purges
         /\ pending'[w] = c
         /\ \A x \in (Threads \cup {Loop}) \ {w} : pending'[x] = pending[x]
<1>1. c \in {Idle} \cup Insertions \cup Editions => c \notin Purges
  BY DEF Idle, Insertions, Editions, Purges
<1> QED
  BY <1>1, ThreadsAssumption DEF TypeInv

\* A call that a thread has checked.
LEMMA PromiseKeeps == ASSUME IInv, Promise PROVE IInv'
<1>1. PICK w \in Threads, c \in Promised : pending' = [pending EXCEPT ![w] = c] /\ UNCHANGED db
  BY DEF Promise
<1>2. c \in Insertions \cup Editions /\ (c.do = "insert" => Ready(c)) /\ w # Loop
  BY PromisedIsReady, ThreadsAssumption
<1>3. /\ pending' \in [Threads \cup {Loop} -> {Idle} \cup Insertions \cup Editions \cup Purges]
      /\ pending'[Loop] \in {Idle} \cup Purges
      /\ \A x \in Threads : pending'[x] \notin Purges
      /\ pending'[w] = c
      /\ \A x \in (Threads \cup {Loop}) \ {w} : pending'[x] = pending[x]
  BY <1>1, <1>2, PendingAfter DEF IInv
<1>4. RowsTyped' /\ DbInv' /\ Calm
  BY <1>1, StillKeeps DEF IInv
<1>5. TypeInv'
  BY <1>3, <1>4 DEF TypeInv, RowsTyped
<1>6. InsertionsWait'
  <2> SUFFICES ASSUME NEW x \in Threads, pending'[x].do = "insert" PROVE Ready(pending[x])'
    BY DEF InsertionsWait
  <2>1. Ready(pending'[x])
    BY <1>2, <1>3 DEF IInv, InsertionsWait
  <2> QED
    BY <1>1, <2>1 DEF Ready, Answers, db, CommentsCrossed
<1>7. PurgeWaits'
  BY <1>2, <1>3, <1>4, CalmKeepsPurge DEF IInv
<1> QED
  BY <1>4, <1>5, <1>6, <1>7 DEF IInv

\* A call of a handler, checked and performed at once.
LEMMA ActKeeps == ASSUME IInv, Act PROVE IInv'
<1>1. PICK c \in Promised : Perform(c)
  BY DEF Act
<1>2. UNCHANGED pending
  BY DEF Act
<1>3. RowsTyped' /\ DbInv' /\ Calm
  BY <1>1, PromisedIsReady, PerformKeeps DEF IInv
<1>4. TypeInv'
  BY <1>2, <1>3 DEF IInv, TypeInv, RowsTyped
<1>5. InsertionsWait' /\ PurgeWaits'
  BY <1>2, <1>3, CalmKeepsInsertions, CalmKeepsPurge DEF IInv
<1> QED
  BY <1>3, <1>4, <1>5 DEF IInv

\* A change of a row by a handler.
LEMMA ChangeKeeps == ASSUME IInv, Change PROVE IInv'
<1>1. PICK o \in DOMAIN rows, row \in RowSet : Keeps(o, row) /\ UpdateRow(o, row)
  BY DEF Change
<1>2. UNCHANGED pending
  BY DEF Change
<1>3. Mends(o, row)
  BY <1>1, KeepsMends DEF IInv
<1>4. DbInv' /\ Calm
  BY <1>1, <1>3, UpdateKeepsDb, UpdateIsCalm DEF IInv
<1>5. TypeInv'
  BY <1>1, <1>2, UpdateChanges DEF IInv, TypeInv
<1>6. InsertionsWait' /\ PurgeWaits'
  BY <1>2, <1>4, CalmKeepsInsertions, CalmKeepsPurge DEF IInv
<1> QED
  BY <1>4, <1>5, <1>6 DEF IInv

\* The purge of a comment or the removal of a link.
LEMMA RemoveKeeps == ASSUME IInv, Remove PROVE IInv'
<1>1. PICK o \in ObjectsOf("comment") \cup ObjectsOf("link") : DeleteRows({o})
  BY DEF Remove
<1>2. UNCHANGED pending /\ pending[Loop] = Idle
  BY DEF Remove, LoopFree
<1>3. RowsTyped' /\ DbInv' /\ InsertionsWait'
  BY <1>1, <1>2, DeleteKeeps
<1>4. TypeInv'
  BY <1>2, <1>3 DEF IInv, TypeInv, RowsTyped
<1>5. PurgeWaits'
  BY <1>2 DEF PurgeWaits
<1> QED
  BY <1>3, <1>4, <1>5 DEF IInv

\* A purge that has read the tasks of its project.
LEMMA BeginPurgeKeeps == ASSUME IInv, BeginPurge PROVE IInv'
<1>1. PICK c \in Purges : /\ {c.project} \cup c.tasks \subseteq DOMAIN rows
                          /\ \A t \in c.tasks : c.project \in rows[t].refs
                          /\ pending' = [pending EXCEPT ![Loop] = c] /\ UNCHANGED db
  BY DEF BeginPurge
<1>2. /\ pending' \in [Threads \cup {Loop} -> {Idle} \cup Insertions \cup Editions \cup Purges]
      /\ pending'[Loop] \in {Idle} \cup Purges
      /\ \A x \in Threads : pending'[x] \notin Purges
      /\ pending'[Loop] = c
      /\ \A x \in (Threads \cup {Loop}) \ {Loop} : pending'[x] = pending[x]
  BY <1>1, PendingAfter DEF IInv
<1>3. RowsTyped' /\ DbInv' /\ Calm
  BY <1>1, StillKeeps DEF IInv
<1>4. TypeInv'
  BY <1>2, <1>3 DEF TypeInv, RowsTyped
<1>5. \A w \in Threads : pending'[w] = pending[w]
  BY <1>2, ThreadsAssumption
<1>6. InsertionsWait'
  BY <1>3, <1>5, CalmKeepsInsertions
<1>7. PurgeWaits'
  BY <1>1, <1>2 DEF PurgeWaits, db
<1> QED
  BY <1>3, <1>4, <1>6, <1>7 DEF IInv

\* A thread writes what it has checked, however long ago.
LEMMA ThreadEndKeeps ==
  ASSUME IInv, NEW w \in Threads, Finish(w)
  PROVE  IInv' /\ pending[w] \in Insertions \cup Editions
<1>1. pending[w] \in Insertions \cup Editions /\ w # Loop
  BY ThreadsAssumption DEF IInv, TypeInv, Finish, Perform, Idle
<1>2. PICK c \in Insertions \cup Editions : c = pending[w]
  BY <1>1
<1>3. Perform(c) /\ (c.do = "insert" => Ready(c))
  BY <1>2 DEF Finish, IInv, InsertionsWait
<1>4. RowsTyped' /\ DbInv' /\ Calm
  BY <1>3, PerformKeeps DEF IInv
<1>5. /\ pending' \in [Threads \cup {Loop} -> {Idle} \cup Insertions \cup Editions \cup Purges]
      /\ pending'[Loop] \in {Idle} \cup Purges
      /\ \A x \in Threads : pending'[x] \notin Purges
      /\ pending'[w] = Idle
      /\ \A x \in (Threads \cup {Loop}) \ {w} : pending'[x] = pending[x]
  BY <1>1, PendingAfter DEF IInv, Finish
<1>6. TypeInv'
  BY <1>4, <1>5 DEF TypeInv, RowsTyped
<1>7. InsertionsWait' /\ PurgeWaits'
  BY <1>1, <1>4, <1>5, CalmKeepsInsertions, CalmKeepsPurge DEF IInv
<1> QED
  BY <1>1, <1>4, <1>6, <1>7 DEF IInv

\* A purge deletes the rows it finds, and the tasks it has read.
LEMMA LoopEndKeeps ==
  ASSUME IInv, Finish(Loop)
  PROVE  /\ IInv' /\ pending[Loop] \in Purges
         /\ DeleteRows(Doomed(pending[Loop].project, pending[Loop].tasks))
<1>1. pending[Loop] \in Purges
  BY DEF IInv, TypeInv, Finish, Perform, Idle
<1>2. DeleteRows(Doomed(pending[Loop].project, pending[Loop].tasks))
  BY <1>1 DEF Finish, Perform, Purges
<1>3. /\ pending' \in [Threads \cup {Loop} -> {Idle} \cup Insertions \cup Editions \cup Purges]
      /\ pending'[Loop] \in {Idle} \cup Purges
      /\ \A x \in Threads : pending'[x] \notin Purges
      /\ pending'[Loop] = Idle
      /\ \A x \in (Threads \cup {Loop}) \ {Loop} : pending'[x] = pending[x]
  BY PendingAfter DEF IInv, Finish
<1>4. \A x \in Threads : pending'[x] = pending[x]
  BY <1>3, ThreadsAssumption
<1>5. RowsTyped' /\ DbInv' /\ InsertionsWait'
  BY <1>2, <1>4, DeleteKeeps
<1>6. TypeInv'
  BY <1>3, <1>5 DEF TypeInv, RowsTyped
<1>7. PurgeWaits'
  BY <1>3 DEF PurgeWaits
<1> QED
  BY <1>1, <1>2, <1>5, <1>6, <1>7 DEF IInv

\* The empty database.
LEMMA Initially == ASSUME Init PROVE IInv
<1>1. DOMAIN rows = {} /\ index = <<>> /\ DOMAIN index = {}
  BY DEF Init
<1>2. Table("comment") = {} /\ Table("decision") = {}
  BY <1>1 DEF Table
<1>3. TypeInv
  <2>1. rows \in [DOMAIN rows -> RowSet]
    BY <1>1 DEF Init
  <2>2. \A w \in Threads \cup {Loop} : pending[w] = Idle
    BY DEF Init
  <2>3. Idle \notin Purges
    BY DEF Idle, Purges
  <2> QED
    BY <1>1, <2>1, <2>2, <2>3 DEF Init, TypeInv
<1>4. IndexMirrorsTables
  BY <1>1 DEF IndexMirrorsTables
<1>5. DbInv
  BY <1>1, <1>2, <1>4 DEF DbInv, Shapes, SameProject, SameDiscussion, ReferencesHold
<1>6. InsertionsWait /\ PurgeWaits
  BY DEF Init, InsertionsWait, PurgeWaits, Idle
<1> QED
  BY <1>3, <1>5, <1>6 DEF IInv

\* A step of something else.
LEMMA Stutter == ASSUME IInv, UNCHANGED vars PROVE IInv'
<1>1. UNCHANGED db /\ UNCHANGED pending
  BY DEF vars, db
<1>2. RowsTyped' /\ DbInv' /\ Calm
  BY <1>1, StillKeeps DEF IInv
<1>3. TypeInv'
  BY <1>1, <1>2 DEF IInv, TypeInv, RowsTyped
<1>4. InsertionsWait' /\ PurgeWaits'
  BY <1>1, <1>2, CalmKeepsInsertions, CalmKeepsPurge DEF IInv
<1> QED
  BY <1>2, <1>3, <1>4 DEF IInv

\* No step breaks the invariant.
LEMMA Inductive == ASSUME IInv, [Next]_vars PROVE IInv'
<1>1. CASE Next
  <2>1. Promise \/ Act \/ BeginPurge \/ Change \/ Remove \/ End
    BY <1>1, Steps DEF IInv
  <2>2. CASE End
    BY <2>2, ThreadEndKeeps, LoopEndKeeps DEF End
  <2> QED
    BY <2>1, <2>2, PromiseKeeps, ActKeeps, BeginPurgeKeeps, ChangeKeeps, RemoveKeeps
<1> QED
  BY <1>1, Stutter

\* The invariant of every behaviour.
THEOREM Invariance == Spec => []IInv
<1>1. Init => IInv
  BY Initially
<1>2. IInv /\ [Next]_vars => IInv'
  BY Inductive
<1> QED
  BY <1>1, <1>2, PTL DEF Spec

----------------------------------------------------------------------------
(* Levels of comments *)

\* A set of numbers has a least one.
LEMMA Least ==
  ASSUME NEW T \in SUBSET Nat, T # {}
  PROVE  \E x \in T : \A y \in T : x <= y
<1> DEFINE R == OpToRel(<, Nat)
<1>1. IsWellFoundedOn(R, Nat)
  BY NatLessThanWellFounded
<1>2. \A x, y \in Nat : y < x => <<y, x>> \in R
  BY DEF OpToRel
<1> HIDE DEF R
<1>3. PICK x \in T : \A y \in T : ~(<<y, x>> \in R)
  BY <1>1, WFMin
<1>4. ASSUME NEW y \in T PROVE x <= y
  <2>1. x \in Nat /\ y \in Nat
    OBVIOUS
  <2>2. ~(y < x)
    BY <1>2, <1>3, <2>1, Zenon
  <2> QED
    BY <2>1, <2>2
<1> QED
  BY <1>4

\* The parents of the comments in S, in tables that may be those of the next state,
\* and n levels of them.
ParentsIn(tables, S) == UNION {{r \in tables[c].refs : r[1] = "comment"} : c \in S}
Climbs(tables, S, n, f) ==
  f = [k \in 0 .. n |-> IF k = 0 THEN S ELSE ParentsIn(tables, f[k - 1])]

\* However many levels there are, they can be climbed one by one.
LEMMA Climbing ==
  ASSUME NEW tables, NEW S, NEW n \in Nat
  PROVE  \E f : Climbs(tables, S, n, f)
<1> DEFINE Bad == {k \in Nat : ~\E f : Climbs(tables, S, k, f)}
<1> SUFFICES ASSUME Bad # {} PROVE FALSE
  OBVIOUS
<1>1. PICK k \in Bad : \A j \in Bad : k <= j
  BY Least
<1>2. CASE k = 0
  <2> DEFINE f == [j \in 0 .. 0 |-> S]
  <2>1. f = [j \in 0 .. k |-> IF j = 0 THEN S ELSE ParentsIn(tables, f[j - 1])]
    BY <1>2
  <2>2. Climbs(tables, S, k, f)
    BY <2>1 DEF Climbs
  <2> QED
    BY <2>2
<1>3. CASE k # 0
  <2>1. k - 1 \in Nat /\ k \in Nat /\ ~(k <= k - 1)
    BY <1>3
  <2>2. k - 1 \notin Bad
    BY <1>1, <2>1
  <2>3. PICK f : Climbs(tables, S, k - 1, f)
    BY <2>1, <2>2
  <2>4. /\ \A j \in 0 .. k - 1 : f[j] = IF j = 0 THEN S ELSE ParentsIn(tables, f[j - 1])
    BY <2>3 DEF Climbs
  <2> DEFINE g == [j \in 0 .. k |-> IF j = k THEN ParentsIn(tables, f[k - 1]) ELSE f[j]]
  <2>5. \A j \in 0 .. k - 1 : g[j] = f[j]
    BY <2>1
  <2>6. g[k] = ParentsIn(tables, g[k - 1]) /\ g[0] = S
    BY <1>3, <2>1, <2>4, <2>5
  <2>7. ASSUME NEW j \in 0 .. k
        PROVE  g[j] = IF j = 0 THEN S ELSE ParentsIn(tables, g[j - 1])
    <3>1. CASE j = k
      BY <1>3, <2>6, <3>1
    <3>2. CASE j # k
      <4>1. j \in 0 .. k - 1 /\ (j # 0 => j - 1 \in 0 .. k - 1)
        BY <2>1, <3>2
      <4>2. g[j] = f[j] /\ (j # 0 => g[j - 1] = f[j - 1])
        BY <2>5, <4>1
      <4>3. f[j] = IF j = 0 THEN S ELSE ParentsIn(tables, f[j - 1])
        BY <2>4, <4>1
      <4> HIDE DEF g
      <4> QED
        BY <4>2, <4>3
    <3> QED
      BY <3>1, <3>2
  <2>8. g = [j \in 0 .. k |-> g[j]]
    OBVIOUS
  <2> HIDE DEF g
  <2>9. g = [j \in 0 .. k |-> IF j = 0 THEN S ELSE ParentsIn(tables, g[j - 1])]
    BY <2>7, <2>8
  <2>10. Climbs(tables, S, k, g)
    BY <2>9 DEF Climbs
  <2> QED
    BY <2>1, <2>10
<1> QED
  BY <1>2, <1>3

\* The comments above those of S, level by level, in tables that may be the next state's.
Levels(tables, S) ==
  LET up[k \in 0 .. MaxDepth] == IF k = 0 THEN S ELSE ParentsIn(tables, up[k - 1]) IN up

\* The recursive definition defines what it says.
LEMMA LevelsClimb ==
  ASSUME NEW tables, NEW S
  PROVE  Climbs(tables, S, MaxDepth, Levels(tables, S))
<1>1. \E f : Climbs(tables, S, MaxDepth, f)
  BY Climbing, DepthAssumption
<1>2. \E f : f = [k \in 0 .. MaxDepth |-> IF k = 0 THEN S ELSE ParentsIn(tables, f[k - 1])]
  BY <1>1 DEF Climbs
<1>3. Levels(tables, S) = CHOOSE f : f = [k \in 0 .. MaxDepth |->
                            IF k = 0 THEN S ELSE ParentsIn(tables, f[k - 1])]
  BY DEF Levels
<1> QED
  BY <1>2, <1>3 DEF Climbs


\* Each level is made of the parents of the one below it.
LEMMA LevelSteps ==
  ASSUME NEW tables, NEW S
  PROVE  /\ Levels(tables, S)[0] = S
         /\ \A k \in 1 .. MaxDepth : Levels(tables, S)[k] = ParentsIn(tables, Levels(tables, S)[k - 1])
<1> DEFINE f == Levels(tables, S)
<1>1. f = [k \in 0 .. MaxDepth |-> IF k = 0 THEN S ELSE ParentsIn(tables, f[k - 1])]
  BY LevelsClimb DEF Climbs
<1> HIDE DEF f
<1>2. 0 \in 0 .. MaxDepth /\ \A k \in 1 .. MaxDepth : k \in 0 .. MaxDepth /\ k # 0
  BY DepthAssumption
<1>3. f[0] = S
  BY <1>1, <1>2
<1>4. ASSUME NEW k \in 1 .. MaxDepth PROVE f[k] = ParentsIn(tables, f[k - 1])
  <2>1. f[k] = IF k = 0 THEN S ELSE ParentsIn(tables, f[k - 1])
    BY <1>1, <1>2
  <2> QED
    BY <1>2, <2>1
<1> QED
  BY <1>3, <1>4 DEF f

\* Seen from its parents, everything above a comment is one level lower.
LEMMA LevelsShift ==
  ASSUME NEW tables, NEW S, NEW k \in 0 .. MaxDepth - 1
  PROVE  Levels(tables, S)[k + 1] = Levels(tables, ParentsIn(tables, S))[k]
<1> DEFINE f == Levels(tables, S)
           g == Levels(tables, ParentsIn(tables, S))
           Bad == {j \in 0 .. MaxDepth - 1 : f[j + 1] # g[j]}
<1>1. /\ f[0] = S /\ g[0] = ParentsIn(tables, S)
      /\ \A j \in 1 .. MaxDepth : /\ f[j] = ParentsIn(tables, f[j - 1])
                                  /\ g[j] = ParentsIn(tables, g[j - 1])
  BY LevelSteps
<1> HIDE DEF f, g
<1> SUFFICES ASSUME Bad # {} PROVE FALSE
  BY DEF f, g
<1>n. Bad \in SUBSET Nat
  BY DepthAssumption
<1>2. PICK j \in Bad : \A i \in Bad : j <= i
  BY <1>n, Least
<1>3. CASE j = 0
  <2>1. 1 \in 1 .. MaxDepth
    BY DepthAssumption
  <2> QED
    BY <1>1, <1>2, <1>3, <2>1
<1>4. CASE j # 0
  <2>1. /\ j - 1 \in 0 .. MaxDepth - 1 /\ j \in 1 .. MaxDepth /\ j + 1 \in 1 .. MaxDepth
        /\ ~(j <= j - 1) /\ (j - 1) + 1 = j /\ (j + 1) - 1 = j
    BY <1>4, DepthAssumption
  <2>2. f[j] = g[j - 1]
    BY <1>2, <2>1
  <2>3. f[j + 1] = ParentsIn(tables, f[j]) /\ g[j] = ParentsIn(tables, g[j - 1])
    BY <1>1, <2>1
  <2> QED
    BY <1>2, <2>2, <2>3
<1> QED
  BY <1>3, <1>4

\* Comments whose parents stay the same and are such comments.
Closed(tables, later, T) ==
  \A c \in T : /\ later[c].refs = tables[c].refs
               /\ \A r \in tables[c].refs : r[1] = "comment" => r \in T
\* They keep what is above them.
LEMMA LevelsStay ==
  ASSUME NEW tables, NEW later, NEW T, Closed(tables, later, T),
         NEW S \in SUBSET T, NEW k \in 0 .. MaxDepth
  PROVE  Levels(later, S)[k] = Levels(tables, S)[k]
<1> DEFINE f == Levels(tables, S)
           g == Levels(later, S)
           Bad == {j \in 0 .. MaxDepth : ~(f[j] \subseteq T /\ g[j] = f[j])}
<1>1. /\ f[0] = S /\ g[0] = S
      /\ \A j \in 1 .. MaxDepth : /\ f[j] = ParentsIn(tables, f[j - 1])
                                  /\ g[j] = ParentsIn(later, g[j - 1])
  BY LevelSteps
<1> HIDE DEF f, g
<1> SUFFICES ASSUME Bad # {} PROVE FALSE
  BY DEF f, g
<1>n. Bad \in SUBSET Nat
  BY DepthAssumption
<1>2. PICK j \in Bad : \A i \in Bad : j <= i
  BY <1>n, Least
<1>3. j # 0
  BY <1>1, <1>2
<1>4. j - 1 \in 0 .. MaxDepth /\ j \in 1 .. MaxDepth /\ ~(j <= j - 1)
  BY <1>3, DepthAssumption
<1>5. f[j - 1] \subseteq T /\ g[j - 1] = f[j - 1]
  BY <1>2, <1>4
<1>6. ASSUME NEW U \in SUBSET T
      PROVE  ParentsIn(later, U) = ParentsIn(tables, U) /\ ParentsIn(tables, U) \subseteq T
  BY <1>6 DEF ParentsIn, Closed
<1>7. g[j] = f[j] /\ f[j] \subseteq T
  BY <1>1, <1>4, <1>5, <1>6
<1> QED
  BY <1>2, <1>7

\* What is above comments now, and in the next state.
LEMMA AboveLevels ==
  ASSUME NEW S
  PROVE  /\ Above(S) = Levels(rows, S)
         /\ Above(S)' = Levels(rows', S')
BY DEF Above, Levels, Parents, ParentsIn, RefsOf
----------------------------------------------------------------------------
(* Comment trees *)

\* Comments that a step leaves keep their parents.
Steady ==
  \A c \in Table("comment") \cap Table("comment")' : rows'[c].refs = rows[c].refs

\* A new comment is younger than the others, and answers one that may be answered.
Sprouts(c) ==
  /\ \A x \in Table("comment") : x[2] < c[2]
  /\ rows'[c].refs \subseteq DOMAIN rows
  /\ ~CommentsCrossed => Shallow(rows'[c].refs)

\* A step, as the trees of comments see it.
TreeStep ==
  /\ Steady /\ (~CommentsCrossed' => ~CommentsCrossed)
  /\ \A c \in Table("comment")' \ Table("comment") : Sprouts(c)

\* A thread is about to insert a comment.
Comments(w) == pending[w].do = "insert" /\ pending[w].type = "comment"

\* The invariant: comments answer older ones, no tree is too high, and none will be
\* when the threads have written theirs.
Aged == \A c \in Table("comment") : \A p \in CommentsOf(rows[c].refs) : p[2] < c[2]
Low == ~CommentsCrossed => \A c \in Table("comment") : Above({c})[MaxDepth] = {}
RepliesWait == ~CommentsCrossed => \A w \in Threads : Comments(w) => Shallow(pending[w].row.refs)
TreeInv == Aged /\ Low /\ RepliesWait

\* Comments whose tables are as they were have the same above them.
LEMMA AboveStays ==
  ASSUME ReferencesHold, ReferencesHold', Steady,
         NEW S, S \subseteq Table("comment"), S \subseteq Table("comment")',
         NEW k \in 0 .. MaxDepth
  PROVE  Above(S)'[k] = Above(S)[k]
<1> DEFINE T == Table("comment") \cap Table("comment")'
<1>1. \A c \in T : rows'[c].refs = rows[c].refs
  BY DEF Steady
<1>2. \A c \in T : \A r \in rows[c].refs : r[1] = "comment" => r \in T
  <2> SUFFICES ASSUME NEW c \in T, NEW r \in rows[c].refs, r[1] = "comment"
               PROVE  r \in DOMAIN rows /\ r \in DOMAIN rows'
    BY DEF Table
  <2> QED
    BY <1>1 DEF ReferencesHold, Table
<1>3. S \in SUBSET T
  OBVIOUS
<1> HIDE DEF T
<1>4. PICK tables, later, these : tables = rows /\ later = rows' /\ these = T
  OBVIOUS
<1>5. Closed(tables, later, these)
  BY <1>1, <1>2, <1>4 DEF Closed
<1>6. S \in SUBSET these
  BY <1>3, <1>4
<1>7. Levels(later, S)[k] = Levels(tables, S)[k]
  BY <1>5, <1>6, LevelsStay
<1> QED
  BY <1>4, <1>7, AboveLevels

\* A reply is one level deeper than what it answers.
LEMMA AboveReply ==
  ASSUME NEW c, NEW S, S = CommentsOf(rows'[c].refs)
  PROVE  Above({c})'[MaxDepth] = Above(S)'[MaxDepth - 1]
<1>1. MaxDepth - 1 \in 0 .. MaxDepth - 1 /\ (MaxDepth - 1) + 1 = MaxDepth
  BY DepthAssumption
<1>2. PICK tables : tables = rows'
  OBVIOUS
<1>3. ParentsIn(tables, {c}) = S
  BY <1>2 DEF ParentsIn, CommentsOf
<1>4. Levels(tables, {c})[MaxDepth] = Levels(tables, S)[MaxDepth - 1]
  BY <1>1, <1>3, LevelsShift
<1> QED
  BY <1>2, <1>4, AboveLevels

\* The invariant survives such a step, if what threads wait to write may be written.
LEMMA TreeKeeps ==
  ASSUME IInv, IInv', TreeInv, TreeStep,
         \A w \in Threads : Comments(w)' => \/ Comments(w) /\ pending'[w] = pending[w]
                                            \/ pending'[w] \in Promised
  PROVE  TreeInv'
<1>1. ReferencesHold /\ ReferencesHold' /\ Steady
  BY DEF IInv, DbInv, TreeStep
<1>2. 0 \in 0 .. MaxDepth /\ MaxDepth \in 0 .. MaxDepth /\ MaxDepth - 1 \in 0 .. MaxDepth
  BY DepthAssumption
<1>3. ASSUME NEW c \in Table("comment")' \ Table("comment")
      PROVE  CommentsOf(rows'[c].refs) \subseteq Table("comment") \cap Table("comment")'
  BY <1>1, <1>3 DEF TreeStep, Sprouts, CommentsOf, Table, ReferencesHold
<1>4. Aged'
  <2> SUFFICES ASSUME NEW c \in Table("comment")', NEW p \in CommentsOf(rows'[c].refs)
               PROVE  p[2] < c[2]
    BY DEF Aged, CommentsOf
  <2>1. CASE c \in Table("comment")
    BY <1>1, <2>1 DEF Steady, TreeInv, Aged
  <2>2. CASE c \notin Table("comment")
    BY <1>3, <2>2 DEF TreeStep, Sprouts
  <2> QED
    BY <2>1, <2>2
<1>5. Low'
  <2> SUFFICES ASSUME ~CommentsCrossed', NEW c \in Table("comment")' PROVE Above({c})'[MaxDepth] = {}
    BY DEF Low
  <2>0. ~CommentsCrossed
    BY DEF TreeStep
  <2>1. CASE c \in Table("comment")
    <3>1. Above({c})'[MaxDepth] = Above({c})[MaxDepth]
      BY <1>1, <1>2, <2>1, AboveStays
    <3> QED
      BY <2>0, <2>1, <3>1 DEF TreeInv, Low
  <2>2. CASE c \notin Table("comment")
    <3>1. PICK S : S = CommentsOf(rows'[c].refs)
      OBVIOUS
    <3>2. Above(S)[MaxDepth - 1] = {}
      BY <2>0, <2>2, <3>1 DEF TreeStep, Sprouts, Shallow
    <3>3. Above(S)'[MaxDepth - 1] = Above(S)[MaxDepth - 1]
      BY <1>1, <1>2, <1>3, <2>2, <3>1, AboveStays
    <3>4. Above({c})'[MaxDepth] = Above(S)'[MaxDepth - 1]
      BY <3>1, AboveReply
    <3> QED
      BY <3>2, <3>3, <3>4
  <2> QED
    BY <2>1, <2>2
<1>6. RepliesWait'
  <2> SUFFICES ASSUME ~CommentsCrossed', NEW w \in Threads, Comments(w)'
               PROVE  Shallow(pending[w].row.refs)'
    BY DEF RepliesWait
  <2>0. ~CommentsCrossed
    BY DEF TreeStep
  <2>1. PICK c, S : c = pending'[w] /\ S = CommentsOf(c.row.refs)
    OBVIOUS
  <2>2. c.do = "insert" /\ c.type = "comment"
    BY <2>1 DEF Comments
  <2>3. Answers(c.row.refs)' /\ Answers(c.row.refs) /\ Shallow(c.row.refs)
    <3>1. Ready(c)'
      BY <2>1, <2>2 DEF IInv, InsertionsWait
    <3>2. CASE Comments(w) /\ pending'[w] = pending[w]
      <4>1. Ready(c) /\ Shallow(c.row.refs)
        BY <2>0, <2>1, <2>2, <3>2 DEF IInv, InsertionsWait, TreeInv, RepliesWait
      <4> QED
        BY <2>0, <2>2, <3>1, <4>1 DEF Ready
    <3>3. CASE pending'[w] \in Promised
      <4>1. Answers(c.row.refs) /\ Shallow(c.row.refs)
        BY <2>1, <2>2, <3>3 DEF Promised, Editions
      <4> QED
        BY <2>2, <3>1, <4>1 DEF Ready
    <3> QED
      BY <3>2, <3>3
  <2>4. S \subseteq Table("comment") /\ S \subseteq Table("comment")'
    BY <2>1, <2>3 DEF Answers, CommentsOf, Table
  <2>5. Above(S)'[MaxDepth - 1] = Above(S)[MaxDepth - 1]
    BY <1>1, <1>2, <2>4, AboveStays
  <2>6. Above(S)[MaxDepth - 1] = {}
    BY <2>1, <2>3 DEF Shallow
  <2> QED
    BY <2>1, <2>5, <2>6 DEF Shallow, CommentsOf
<1> QED
  BY <1>4, <1>5, <1>6 DEF TreeInv

\* Nothing happens to the tables, or no row of them comes and no comment moves.
LEMMA TreesStand ==
  ASSUME \/ UNCHANGED db
         \/ /\ DOMAIN rows' \subseteq DOMAIN rows /\ crossed \subseteq crossed'
            /\ \A c \in DOMAIN rows' : c[1] = "comment" => rows'[c].refs = rows[c].refs
  PROVE  TreeStep
BY DEF TreeStep, Steady, Table, db, CommentsCrossed

\* An insertion or an edit, by whomever.
LEMMA PerformGrows ==
  ASSUME IInv, NEW c \in Insertions \cup Editions, Perform(c),
         c.do = "insert" /\ c.type = "comment" /\ ~CommentsCrossed => Shallow(c.row.refs)
  PROVE  TreeStep
<1>1. CASE c \in Insertions
  <2>1. c.type \in Types /\ c.row \in RowSet /\ InsertRow(c.type, c.row) /\ c.do = "insert"
    BY <1>1 DEF Insertions, Perform
  <2>2. ASSUME NEW o \in ObjectsOf(c.type), Adds(c.type, o, c.row) PROVE TreeStep
    <3>1. /\ o[1] = c.type /\ DOMAIN rows' = DOMAIN rows \cup {o} /\ rows'[o] = c.row
          /\ \A x \in DOMAIN rows : rows'[x] = rows[x]
          /\ \A x \in Table(c.type) : x[2] < o[2]
          /\ c.row.refs \subseteq DOMAIN rows /\ crossed' = crossed
      BY <2>2 DEF Adds, ObjectsOf
    <3>2. Steady
      BY <3>1 DEF Steady, Table
    <3>3. ASSUME NEW x \in Table("comment")' \ Table("comment") PROVE Sprouts(x)
      <4>1. x = o /\ c.type = "comment"
        BY <3>1, <3>3 DEF Table
      <4> QED
        BY <2>1, <3>1, <4>1 DEF Sprouts
    <3> QED
      BY <3>1, <3>2, <3>3 DEF TreeStep, CommentsCrossed
  <2> QED
    BY <2>1, <2>2, InsertAdds, TreesStand DEF IInv
<1>2. CASE c \in Editions
  <2>1. Edit(c)
    BY <1>2 DEF Editions, Perform
  <2>2. ASSUME NEW row \in RowSet, Mends(c.o, row), UpdateRow(c.o, row) PROVE TreeStep
    BY <2>2, UpdateChanges, TreesStand DEF IInv, Mends
  <2> QED
    BY <1>2, <2>1, <2>2, EditMends, TreesStand DEF IInv
<1> QED
  BY <1>1, <1>2

\* A handler changes a row in place.
LEMMA ChangeGrows == ASSUME IInv, Change PROVE TreeStep
<1>1. PICK o \in DOMAIN rows, row \in RowSet : Keeps(o, row) /\ UpdateRow(o, row)
  BY DEF Change
<1>2. o[1] # "decision" => row.refs = rows[o].refs
  BY <1>1 DEF Keeps
<1> QED
  BY <1>1, <1>2, UpdateChanges, TreesStand DEF IInv

\* A deletion.
LEMMA DeleteGrows == ASSUME IInv, NEW S, DeleteRows(S) PROVE TreeStep
<1>1. UNCHANGED db \/ Drops(S)
  BY DeleteDrops DEF IInv
<1> QED
  BY <1>1, TreesStand DEF Drops

\* Every step is one that the trees survive.
LEMMA TreeSteps ==
  ASSUME IInv, TreeInv, [Next]_vars
  PROVE  /\ TreeStep
         /\ \A w \in Threads : Comments(w)' => \/ Comments(w) /\ pending'[w] = pending[w]
                                               \/ pending'[w] \in Promised
<1> DEFINE Waiting == \A w \in Threads : pending'[w] \in {pending[w], Idle} \cup Promised
<1> SUFFICES TreeStep /\ Waiting
  BY DEF Comments, Idle
<1>1. CASE UNCHANGED vars
  BY <1>1, TreesStand DEF vars, db
<1>2. CASE Promise
  <2>1. PICK w \in Threads, c \in Promised : pending' = [pending EXCEPT ![w] = c] /\ UNCHANGED db
    BY <1>2 DEF Promise
  <2> QED
    BY <2>1, TreesStand DEF IInv, TypeInv
<1>3. CASE Act
  <2>1. PICK c \in Promised : Perform(c) /\ UNCHANGED pending
    BY <1>3 DEF Act
  <2>2. c.do = "insert" /\ c.type = "comment" => Shallow(c.row.refs)
    BY DEF Promised, Editions
  <2> QED
    BY <2>1, <2>2, PerformGrows, PromisedIsReady
<1>4. CASE BeginPurge
  <2>1. PICK c \in Purges : pending' = [pending EXCEPT ![Loop] = c] /\ UNCHANGED db
    BY <1>4 DEF BeginPurge
  <2> QED
    BY <2>1, TreesStand, ThreadsAssumption DEF IInv, TypeInv
<1>5. CASE Change
  BY <1>5, ChangeGrows DEF Change
<1>6. CASE Remove
  BY <1>6, DeleteGrows DEF Remove
<1>7. ASSUME NEW w \in Threads, Finish(w) PROVE TreeStep /\ Waiting
  <2>1. PICK c \in Insertions \cup Editions : c = pending[w]
    BY <1>7, ThreadEndKeeps
  <2>2. c.do = "insert" /\ c.type = "comment" /\ ~CommentsCrossed => Shallow(c.row.refs)
    BY <2>1 DEF TreeInv, RepliesWait, Comments
  <2>3. TreeStep
    BY <1>7, <2>1, <2>2, PerformGrows DEF Finish
  <2>4. Waiting
    BY <1>7 DEF Finish, IInv, TypeInv
  <2> QED
    BY <2>3, <2>4
<1>8. ASSUME Finish(Loop) PROVE TreeStep /\ Waiting
  <2>1. TreeStep
    BY <1>8, LoopEndKeeps, DeleteGrows
  <2>2. Waiting
    BY <1>8, ThreadsAssumption DEF Finish, IInv, TypeInv
  <2> QED
    BY <2>1, <2>2
<1>9. CASE Next
  <2>1. Promise \/ Act \/ BeginPurge \/ Change \/ Remove \/ End
    BY <1>9, Steps DEF IInv
  <2> QED
    BY <1>2, <1>3, <1>4, <1>5, <1>6, <1>7, <1>8, <2>1 DEF End
<1> QED
  BY <1>1, <1>9

\* The invariant of every behaviour, with the trees.
THEOREM TreesInvariance == Spec => []TreeInv
<1>1. Init => TreeInv
  <2> SUFFICES ASSUME Init PROVE TreeInv
    OBVIOUS
  <2>1. Table("comment") = {}
    BY DEF Init, Table
  <2>2. \A w \in Threads : pending[w].do = "idle"
    BY DEF Init, Idle
  <2> QED
    BY <2>1, <2>2 DEF TreeInv, Aged, Low, RepliesWait, Comments
<1>2. IInv /\ IInv' /\ TreeInv /\ [Next]_vars => TreeInv'
  BY TreeSteps, TreeKeeps
<1> QED
  BY <1>1, <1>2, Invariance, PTL DEF Spec

----------------------------------------------------------------------------
(* Texts and revisions *)

\* A row says a text that it was created with or has a revision of, or nothing.
Held(o, text) == text \in {"", rows[o].created} \cup rows[o].revisions

\* What a thread may write over is what such a row said when the thread read it.
Read(c) == c.o \notin crossed => c.o \in DOMAIN rows /\ Held(c.o, c.read)
TextInv ==
  /\ \A o \in DOMAIN rows \ crossed : Held(o, rows[o].text)
  /\ \A w \in Threads : pending[w].do = "edit" => Read(pending[w])

\* A step, as texts see it.
TextStep ==
  /\ crossed \subseteq crossed'
  /\ \A o \in DOMAIN rows \ DOMAIN rows' : Editing(o) => o \in crossed'
  /\ \A o \in DOMAIN rows \cap DOMAIN rows' :
       /\ rows'[o].created = rows[o].created /\ rows[o].revisions \subseteq rows'[o].revisions
       /\ o \notin crossed =>
            rows'[o].text \in {"", rows'[o].created, rows[o].text} \cup rows'[o].revisions
  /\ \A o \in DOMAIN rows' \ DOMAIN rows : rows'[o].created = rows'[o].text

\* What an edit writes is what the thread had read, nothing, or in a revision.
LEMMA EditWrites ==
  ASSUME TypeInv, NEW c \in Editions, Edit(c), Read(c)
  PROVE  TextStep
<1>1. CASE UNCHANGED db
  BY <1>1 DEF TextStep, db
<1>2. CASE ~UNCHANGED db
  <2> DEFINE old == rows[c.o]
             text == IF c.text = "keep" THEN old.text ELSE c.text
             revisions == IF IsRevised(c) THEN old.revisions \cup {Revision(c.read, c.text)}
                          ELSE old.revisions
             row == [old EXCEPT !.text = text, !.revisions = revisions]
  <2>1. c.o \in DOMAIN rows /\ rows' = [rows EXCEPT ![c.o] = row] /\ UNCHANGED crossed
    BY <1>2 DEF Edit, UpdateRow
  <2>2. old \in RowSet
    BY <2>1 DEF TypeInv
  <2>3. text \in {old.text, "", c.read} \cup revisions
    BY DEF IsRevised, Revision
  <2>4. old.revisions \subseteq revisions
    OBVIOUS
  <2> HIDE DEF text, revisions
  <2>5. row.text = text /\ row.revisions = revisions /\ row.created = old.created
    BY <2>2 DEF RowSet
  <2> HIDE DEF row
  <2>6. rows'[c.o] = row /\ DOMAIN rows' = DOMAIN rows /\ \A o \in DOMAIN rows \ {c.o} : rows'[o] = rows[o]
    BY <2>1
  <2>7. c.o \notin crossed => c.read \in {"", old.created} \cup old.revisions
    BY DEF Read, Held
  <2>8. c.o \notin crossed => text \in {"", row.created, old.text} \cup row.revisions
    BY <2>3, <2>4, <2>5, <2>7
  <2> QED
    BY <2>1, <2>4, <2>5, <2>6, <2>8 DEF TextStep
<1> QED
  BY <1>1, <1>2

\* An insertion or an edit, by whomever.
LEMMA PerformWrites ==
  ASSUME TypeInv, NEW c \in Insertions \cup Editions, Perform(c),
         c.do = "insert" => Ready(c), c.do = "edit" => Read(c)
  PROVE  TextStep
<1>1. CASE c \in Insertions
  <2>1. c.type \in Types /\ c.row \in RowSet /\ InsertRow(c.type, c.row) /\ c.do = "insert"
    BY <1>1 DEF Insertions, Perform
  <2>2. ASSUME NEW o \in ObjectsOf(c.type), Adds(c.type, o, c.row) PROVE TextStep
    BY <2>1, <2>2 DEF Adds, TextStep, Ready
  <2>3. CASE UNCHANGED db
    BY <2>3 DEF TextStep, db
  <2> QED
    BY <2>1, <2>2, <2>3, InsertAdds
<1>2. CASE c \in Editions
  BY <1>2, EditWrites DEF Editions, Perform
<1> QED
  BY <1>1, <1>2

\* Every step is one that texts survive.
LEMMA TextSurvives ==
  ASSUME IInv, TextInv, [Next]_vars
  PROVE  TextStep
<1>1. CASE UNCHANGED db
  BY <1>1 DEF TextStep, db
<1>2. CASE Act
  <2>1. PICK c \in Promised : Perform(c)
    BY <1>2 DEF Act
  <2>2. c.do = "edit" => Read(c)
    BY DEF Promised, Insertions, TextInv, Read
  <2> QED
    BY <2>1, <2>2, PromisedIsReady, PerformWrites DEF IInv
<1>3. CASE Change
  <2>1. PICK o \in DOMAIN rows, row \in RowSet : Keeps(o, row) /\ UpdateRow(o, row)
    BY <1>3 DEF Change
  <2>2. /\ DOMAIN rows' = DOMAIN rows /\ crossed' = crossed
        /\ rows'[o] = row /\ \A x \in DOMAIN rows \ {o} : rows'[x] = rows[x]
    BY <2>1, UpdateChanges DEF IInv
  <2>3. /\ row.text = rows[o].text /\ row.revisions = rows[o].revisions
        /\ row.created = rows[o].created
    BY <2>1 DEF Keeps
  <2> QED
    BY <2>2, <2>3 DEF TextStep
<1>4. ASSUME NEW S, DeleteRows(S) PROVE TextStep
  <2>1. UNCHANGED db \/ Drops(S)
    BY <1>4, DeleteDrops DEF IInv
  <2> QED
    BY <1>1, <2>1 DEF Drops, TextStep
<1>5. ASSUME NEW w \in Threads, Finish(w) PROVE TextStep
  <2>1. PICK c \in Insertions \cup Editions : c = pending[w]
    BY <1>5, ThreadEndKeeps
  <2>2. /\ c.do = "insert" => Ready(c)
        /\ c.do = "edit" => Read(c)
    BY <2>1 DEF IInv, InsertionsWait, TextInv
  <2> QED
    BY <1>5, <2>1, <2>2, PerformWrites DEF Finish, IInv
<1>6. CASE Finish(Loop)
  BY <1>4, <1>6, LoopEndKeeps
<1>7. CASE Next
  <2>1. Promise \/ Act \/ BeginPurge \/ Change \/ Remove \/ End
    BY <1>7, Steps DEF IInv
  <2> QED
    BY <1>1, <1>2, <1>3, <1>4, <1>5, <1>6, <2>1 DEF End, Promise, BeginPurge, Remove
<1> QED
  BY <1>1, <1>7 DEF vars, db

\* A thread that is about to edit was so before the step, or has just read the row.
LEMMA EditsWait ==
  ASSUME IInv, [Next]_vars, NEW w \in Threads, pending'[w].do = "edit"
  PROVE  \/ pending'[w] = pending[w]
         \/ /\ UNCHANGED db /\ pending'[w].o \in DOMAIN rows
            /\ pending'[w].read = rows[pending'[w].o].text
<1>1. CASE Promise
  <2>1. PICK x \in Threads, c \in Promised : pending' = [pending EXCEPT ![x] = c] /\ UNCHANGED db
    BY <1>1 DEF Promise
  <2>2. c.do = "edit" => c.o \in DOMAIN rows /\ c.read = rows[c.o].text
    BY DEF Promised, Insertions
  <2> QED
    BY <2>1, <2>2 DEF IInv, TypeInv
<1>2. CASE BeginPurge
  BY <1>2, ThreadsAssumption DEF BeginPurge, IInv, TypeInv
<1>3. CASE End
  BY <1>3 DEF End, Finish, Idle, IInv, TypeInv
<1>4. CASE Next
  <2>1. Promise \/ Act \/ BeginPurge \/ Change \/ Remove \/ End
    BY <1>4, Steps DEF IInv
  <2> QED
    BY <1>1, <1>2, <1>3, <2>1 DEF Act, Change, Remove
<1> QED
  BY <1>4 DEF vars

\* What rows say stays held, and so does what threads have read.
LEMMA TextKeeps ==
  ASSUME IInv, TextInv, [Next]_vars
  PROVE  TextInv'
<1>1. TextStep
  BY TextSurvives
<1>2. ASSUME NEW o \in DOMAIN rows \cap DOMAIN rows', NEW text, Held(o, text)
      PROVE  Held(o, text)'
  BY <1>1, <1>2 DEF TextStep, Held
<1>3. ASSUME NEW o \in DOMAIN rows' \ crossed' PROVE Held(o, rows[o].text)'
  <2>1. CASE o \in DOMAIN rows
    <3>1. Held(o, rows[o].text) /\ o \notin crossed
      BY <1>1, <1>3, <2>1 DEF TextStep, TextInv
    <3> QED
      BY <1>1, <1>3, <2>1, <3>1 DEF TextStep, Held
  <2>2. CASE o \notin DOMAIN rows
    BY <1>1, <1>3, <2>2 DEF TextStep, Held
  <2> QED
    BY <2>1, <2>2
<1>4. ASSUME NEW w \in Threads, pending'[w].do = "edit" PROVE Read(pending[w])'
  <2>1. PICK c : c = pending'[w]
    OBVIOUS
  <2> SUFFICES ASSUME c.o \notin crossed' PROVE c.o \in DOMAIN rows' /\ Held(c.o, c.read)'
    BY <2>1 DEF Read
  <2>2. c.o \notin crossed
    BY <1>1 DEF TextStep
  <2>3. CASE c = pending[w]
    <3>1. c.o \in DOMAIN rows /\ Held(c.o, c.read) /\ Editing(c.o)
      BY <1>4, <2>1, <2>2, <2>3 DEF TextInv, Read, Editing
    <3>2. c.o \in DOMAIN rows'
      BY <1>1, <3>1 DEF TextStep
    <3> QED
      BY <1>2, <3>1, <3>2
  <2>4. CASE UNCHANGED db /\ c.o \in DOMAIN rows /\ c.read = rows[c.o].text
    BY <2>2, <2>4 DEF TextInv, Held, db
  <2> QED
    BY <1>4, <2>1, <2>3, <2>4, EditsWait
<1> QED
  BY <1>3, <1>4 DEF TextInv

\* The invariant of every behaviour, with the texts.
THEOREM TextsInvariance == Spec => []TextInv
<1>1. Init => TextInv
  BY DEF Init, TextInv, Idle
<1>2. IInv /\ TextInv /\ [Next]_vars => TextInv'
  BY TextKeeps
<1> QED
  BY <1>1, <1>2, Invariance, PTL DEF Spec

\* What a note or a page says, and what its revisions hold, is in the revisions after
\* any step, but for the text it was created with.
THEOREM EditsAreAlwaysKept == Spec => EditsAreKept
<1> DEFINE Kept == \A o \in (DOMAIN rows \cap DOMAIN rows') \ crossed' :
                     {rows[o].text} \cup rows[o].revisions
                       \subseteq {"", rows[o].created} \cup rows'[o].revisions
<1>1. ASSUME IInv, TextInv, [Next]_vars PROVE Kept
  <2>1. TextStep
    BY <1>1, TextSurvives
  <2> QED
    BY <1>1, <2>1 DEF TextInv, TextStep, Held
<1> QED
  BY <1>1, Invariance, TextsInvariance, PTL DEF Spec, EditsAreKept

----------------------------------------------------------------------------
(* What follows from it, and from the kinds of steps *)

\* Every reference of a row finds its row, and names find what is there or was.
THEOREM ReferencesAlwaysHold == Spec => []ReferencesHold
<1>1. IInv => ReferencesHold
  BY DEF IInv, DbInv
<1> QED
  BY <1>1, Invariance, PTL

\* The search index is what a rebuild from the tables would give.
THEOREM IndexAlwaysMirrors == Spec => []IndexMirrorsTables
<1>1. IInv => IndexMirrorsTables
  BY DEF IInv, DbInv
<1> QED
  BY <1>1, Invariance, PTL

\* A row that another references is deleted with it: by its type, by the project of
\* decisions and by the discussion of comments.
LEMMA DoomedTogether ==
  ASSUME IInv, ~CommentsCrossed, NEW p \in ObjectsOf("project"), NEW tasks \in SUBSET ObjectsOf("task"),
         {t \in Table("task") : p \in rows[t].refs} \subseteq tasks
  PROVE  ~Referenced(Doomed(p, tasks))
<1> DEFINE D == Doomed(p, tasks)
<1>1. /\ p \in D /\ tasks \subseteq D
      /\ \A o \in DOMAIN rows : /\ o[1] \in {"discussion", "question", "chat", "decision", "note"}
                                /\ p \in rows[o].refs
                                => o \in D
      /\ \A c, d \in DOMAIN rows : /\ c[1] = "comment" /\ d[1] = "discussion"
                                   /\ d \in rows[c].refs /\ p \in rows[d].refs
                                   => c \in D
      /\ \A k \in DOMAIN rows : k[1] = "todo" /\ rows[k].refs \cap tasks # {} => k \in D
  BY DEF Doomed, Table
<1>2. \A x \in D :
        \/ x = p
        \/ x \in tasks
        \/ x[1] \in {"todo", "question", "chat", "note", "link"}
        \/ x[1] \in {"discussion", "decision"} /\ p \in rows[x].refs
        \/ x[1] = "comment" /\ \E d \in DOMAIN rows : /\ d[1] = "discussion" /\ p \in rows[d].refs
                                                      /\ d \in rows[x].refs
  BY DEF Doomed, Table, LinksOf, ObjectsOf
<1> HIDE DEF D
<1> SUFFICES ASSUME NEW o \in DOMAIN rows \ D, NEW x \in rows[o].refs, x \in D
             PROVE  FALSE
  BY DEF Referenced, D
<1>3. Fits(o[1], rows[o].refs) /\ o[1] \in Types /\ p[1] = "project"
  BY DEF IInv, DbInv, Shapes, TypeInv, Objects, ObjectsOf
<1>4. CASE x = p
  <2>1. p \in rows[o].refs /\ o[1] \notin {"comment", "todo"}
    BY <1>3, <1>4 DEF Fits, ObjectsOf
  <2>2. o[1] \in {"task", "discussion", "question", "chat", "decision", "note"}
    BY <1>3, <2>1 DEF Fits, Types
  <2>3. o[1] = "task" => o \in tasks
    BY <2>1 DEF Table
  <2> QED
    BY <1>1, <2>1, <2>2, <2>3
<1>5. CASE x[1] \in {"todo", "question", "chat", "note", "link"}
  BY <1>3, <1>5 DEF Fits, Types, InProject, ObjectsOf
<1>6. CASE x[1] = "discussion" /\ p \in rows[x].refs
  <2>1. o[1] = "comment"
    BY <1>3, <1>6 DEF Fits, Types, InProject, ObjectsOf
  <2>2. x \in DOMAIN rows
    BY DEF IInv, DbInv, ReferencesHold
  <2> QED
    BY <1>1, <1>6, <2>1, <2>2
<1>7. CASE x[1] = "decision" /\ p \in rows[x].refs
  <2>1. o[1] = "decision"
    BY <1>3, <1>7 DEF Fits, Types, InProject, ObjectsOf
  <2>2. RefsOf(x, "project") = RefsOf(o, "project")
    BY <1>7, <2>1 DEF IInv, DbInv, SameProject, Table, RefsOf
  <2>3. p \in rows[o].refs
    BY <1>3, <1>7, <2>2 DEF RefsOf
  <2> QED
    BY <1>1, <2>1, <2>3
<1>8. ASSUME x[1] = "comment", NEW d \in DOMAIN rows, d[1] = "discussion", p \in rows[d].refs,
             d \in rows[x].refs
      PROVE  FALSE
  <2>1. o[1] = "comment"
    BY <1>3, <1>8 DEF Fits, Types, InProject, ObjectsOf
  <2>2. PICK e \in rows[o].refs \cap rows[x].refs : e[1] = "discussion"
    BY <1>8, <2>1 DEF IInv, DbInv, SameDiscussion, Answers, Table
  <2>3. x \in DOMAIN rows /\ e = d
    BY <1>8, <2>2 DEF IInv, DbInv, Shapes, Fits, ObjectsOf, ReferencesHold
  <2> QED
    BY <1>1, <1>8, <2>1, <2>2, <2>3
<1>9. CASE x \in tasks
  <2>1. x[1] = "task"
    BY <1>9 DEF ObjectsOf
  <2>2. o[1] = "todo"
    BY <1>3, <2>1 DEF Fits, Types, InProject, ObjectsOf
  <2> QED
    BY <1>1, <1>9, <2>2
<1> QED
  BY <1>2, <1>4, <1>5, <1>6, <1>7, <1>8, <1>9

\* The purge of a project finds nothing that stands in its way, but for a task of
\* a tool that was faster.
THEOREM PurgeIsAlwaysFree == Spec => []PurgeIsFree
<1>1. IInv => PurgeIsFree
  <2> SUFFICES ASSUME IInv, ~CommentsCrossed, pending[Loop].do = "purge",
                      {t \in Table("task") : pending[Loop].project \in rows[t].refs}
                        \subseteq pending[Loop].tasks
               PROVE  ~Referenced(Doomed(pending[Loop].project, pending[Loop].tasks))
    BY DEF PurgeIsFree
  <2>1. pending[Loop] \in Purges
    BY DEF IInv, TypeInv, Idle
  <2> QED
    BY <2>1, DoomedTogether DEF Purges
<1> QED
  BY <1>1, Invariance, PTL

\* Insertions and edits leave decisions alone.
LEMMA PerformSpares ==
  ASSUME TypeInv, DbInv, NEW c \in Insertions \cup Editions, Perform(c)
  PROVE  \A d \in Table("decision") : rows'[d] = rows[d]
<1>1. CASE c \in Insertions
  <2>1. c.type \in Types /\ c.row \in RowSet /\ InsertRow(c.type, c.row)
    BY <1>1 DEF Insertions, Perform
  <2>2. UNCHANGED db \/ \E o \in ObjectsOf(c.type) : Adds(c.type, o, c.row)
    BY <2>1, InsertAdds
  <2> QED
    BY <2>2 DEF Adds, db, Table
<1>2. CASE c \in Editions
  <2>1. Edit(c)
    BY <1>2 DEF Editions, Perform
  <2>2. \/ UNCHANGED db
        \/ \E row \in RowSet : c.o[1] # "decision" /\ Mends(c.o, row) /\ UpdateRow(c.o, row)
    BY <1>2, <2>1, EditMends
  <2>3. ASSUME NEW row \in RowSet, c.o[1] # "decision", Mends(c.o, row), UpdateRow(c.o, row)
        PROVE  \A d \in Table("decision") : rows'[d] = rows[d]
    <3>1. c.o \in DOMAIN rows
      BY <2>3 DEF Mends
    <3> QED
      BY <2>3, <3>1, UpdateChanges DEF Table
  <2> QED
    BY <2>2, <2>3 DEF db
<1> QED
  BY <1>1, <1>2

\* A decision is taken once, whatever is written or deleted later.
THEOREM DecidedIsAlwaysFinal == Spec => DecidedIsFinal
<1> DEFINE Final == \A d \in Table("decision") \cap DOMAIN rows' :
                      rows[d].status # "proposed" => rows'[d] = rows[d]
<1>1. ASSUME IInv, [Next]_vars PROVE Final
  <2>1. CASE UNCHANGED db
    BY <2>1 DEF db
  <2>2. ASSUME NEW c \in Insertions \cup Editions, Perform(c) PROVE Final
    BY <1>1, <2>2, PerformSpares DEF IInv
  <2>3. CASE Change
    <3>1. PICK o \in DOMAIN rows, row \in RowSet : Keeps(o, row) /\ UpdateRow(o, row)
      BY <2>3 DEF Change
    <3>2. o[1] = "decision" => rows[o].status = "proposed"
      BY <3>1 DEF Keeps
    <3>3. \A x \in DOMAIN rows \ {o} : rows'[x] = rows[x]
      BY <1>1, <3>1, UpdateChanges DEF IInv
    <3> QED
      BY <3>2, <3>3 DEF Table
  <2>4. ASSUME NEW S, DeleteRows(S) PROVE Final
    <3>1. UNCHANGED db \/ Drops(S)
      BY <1>1, <2>4, DeleteDrops DEF IInv
    <3> QED
      BY <2>1, <3>1 DEF Drops
  <2>5. CASE Next
    <3>1. Promise \/ Act \/ BeginPurge \/ Change \/ Remove \/ End
      BY <1>1, <2>5, Steps DEF IInv
    <3>2. CASE Promise \/ BeginPurge
      BY <2>1, <3>2 DEF Promise, BeginPurge
    <3>3. CASE Act
      BY <2>2, <3>3, PromisedIsReady DEF Act
    <3>4. CASE Remove
      BY <2>4, <3>4 DEF Remove
    <3>5. CASE End
      <4>1. ASSUME NEW w \in Threads, Finish(w) PROVE Final
        BY <1>1, <2>2, <4>1, ThreadEndKeeps DEF Finish
      <4>2. ASSUME Finish(Loop) PROVE Final
        BY <1>1, <2>4, <4>2, LoopEndKeeps
      <4> QED
        BY <3>5, <4>1, <4>2 DEF End
    <3> QED
      BY <2>3, <3>1, <3>2, <3>3, <3>4, <3>5
  <2> QED
    BY <1>1, <2>1, <2>5 DEF vars, db
<1> QED
  BY <1>1, Invariance, PTL DEF Spec, DecidedIsFinal

\* A purge takes what is in the project and links to it; anything else that goes, goes
\* alone; and what is left stays as it was.
THEOREM PurgeIsAlwaysLocal == Spec => PurgeIsLocal
<1> DEFINE lost == DOMAIN rows \ DOMAIN rows'
           Local ==
             lost # {} => /\ rows' = Restrict(rows, DOMAIN rows \ lost)
                          /\ \/ \E o \in lost : lost = {o} /\ o[1] \in {"comment", "link"}
                             \/ \E p \in lost \cap Projects : \A o \in lost : GoesWith(o, p)
<1>0. ASSUME TypeInv, NEW S, Drops(S)
      PROVE  rows' = Restrict(rows, DOMAIN rows \ lost)
  <2>1. DOMAIN rows' = DOMAIN rows \ lost /\ \A x \in DOMAIN rows' : rows'[x] = rows[x]
    BY <1>0 DEF Drops
  <2>2. rows' = [x \in DOMAIN rows' |-> rows'[x]]
    BY <1>0 DEF Drops
  <2> QED
    BY <2>1, <2>2 DEF Restrict
<1>1. ASSUME IInv, [Next]_vars PROVE Local
  <2>1. CASE UNCHANGED db
    BY <2>1 DEF db
  <2>2. ASSUME NEW c \in Promised \cup Insertions \cup Editions,
               c.do = "insert" => Ready(c), Perform(c)
        PROVE  Local
    <3>1. Calm
      BY <1>1, <2>2, PromisedIsReady, PerformKeeps DEF IInv
    <3> QED
      BY <3>1 DEF Calm
  <2>3. CASE Change
    <3>1. DOMAIN rows' = DOMAIN rows
      BY <1>1, <2>3, UpdateChanges DEF Change, IInv
    <3> QED
      BY <3>1
  <2>4. ASSUME NEW o \in ObjectsOf("comment") \cup ObjectsOf("link"), DeleteRows({o})
        PROVE  Local
    <3>1. UNCHANGED db \/ Drops({o})
      BY <1>1, <2>4, DeleteDrops DEF IInv
    <3>2. CASE Drops({o})
      <4>1. rows' = Restrict(rows, DOMAIN rows \ lost)
        BY <1>0, <1>1, <3>2 DEF IInv
      <4>2. lost \subseteq {o} /\ o[1] \in {"comment", "link"}
        BY <3>2 DEF Drops, ObjectsOf
      <4> QED
        BY <4>1, <4>2
    <3> QED
      BY <2>1, <3>1, <3>2
  <2>5. ASSUME NEW c \in Purges, c = pending[Loop], DeleteRows(Doomed(c.project, c.tasks))
        PROVE  Local
    <3>1. UNCHANGED db \/ Drops(Doomed(c.project, c.tasks))
      BY <1>1, <2>5, DeleteDrops DEF IInv
    <3>2. CASE Drops(Doomed(c.project, c.tasks))
      <4>1. /\ c.project \in lost \cap Projects
            /\ \A t \in c.tasks : c.project \in rows[t].refs /\ t[1] = "task"
        BY <1>1, <2>5, <3>2 DEF IInv, PurgeWaits, Purges, Idle, Drops, Doomed, Projects, Table,
                                ObjectsOf
      <4>2. \A o \in Doomed(c.project, c.tasks) : GoesWith(o, c.project)
        BY <4>1 DEF Doomed, Table, LinksOf, BelongsTo, RefsOf, GoesWith
      <4>3. lost \subseteq Doomed(c.project, c.tasks)
        BY <3>2 DEF Drops
      <4>4. rows' = Restrict(rows, DOMAIN rows \ lost)
        BY <1>0, <1>1, <3>2 DEF IInv
      <4> QED
        BY <4>1, <4>2, <4>3, <4>4
    <3> QED
      BY <2>1, <3>1, <3>2
  <2>6. CASE Next
    <3>1. Promise \/ Act \/ BeginPurge \/ Change \/ Remove \/ End
      BY <1>1, <2>6, Steps DEF IInv
    <3>2. CASE Promise \/ BeginPurge
      BY <2>1, <3>2 DEF Promise, BeginPurge
    <3>3. CASE Act
      BY <2>2, <3>3, PromisedIsReady DEF Act
    <3>4. CASE Remove
      BY <2>4, <3>4 DEF Remove
    <3>5. CASE End
      <4>1. ASSUME NEW w \in Threads, Finish(w) PROVE Local
        <5>1. pending[w] \in Insertions \cup Editions /\ Perform(pending[w])
          BY <1>1, <4>1, ThreadEndKeeps DEF Finish
        <5>2. pending[w].do = "insert" => Ready(pending[w])
          BY <1>1 DEF IInv, InsertionsWait
        <5> QED
          BY <2>2, <5>1, <5>2
      <4>2. ASSUME Finish(Loop) PROVE Local
        BY <1>1, <2>5, <4>2, LoopEndKeeps
      <4> QED
        BY <3>5, <4>1, <4>2 DEF End
    <3> QED
      BY <2>3, <3>1, <3>2, <3>3, <3>4, <3>5
  <2> QED
    BY <1>1, <2>1, <2>6 DEF vars, db
<1> QED
  BY <1>1, Invariance, PTL DEF Spec, PurgeIsLocal

\* Comments are trees of bounded depth within one discussion, whatever is trashed, purged
\* and answered from threads, until a comment is purged that one is about to answer.
THEOREM TreesAreAlwaysWhole == Spec => []CommentTrees
<1>1. IInv /\ TreeInv => CommentTrees
  <2> SUFFICES ASSUME IInv, TreeInv, NEW c \in Table("comment"), NEW p \in RefsOf(c, "comment")
               PROVE  /\ p[2] < c[2]
                      /\ ~CommentsCrossed => /\ RefsOf(c, "discussion") = RefsOf(p, "discussion")
                                     /\ Above({c})[MaxDepth] = {}
    BY DEF CommentTrees
  <2>1. p[2] < c[2]
    BY DEF TreeInv, Aged, CommentsOf, RefsOf
  <2>2. ASSUME ~CommentsCrossed PROVE RefsOf(c, "discussion") = RefsOf(p, "discussion")
    <3>1. p[1] = "comment" /\ p \in rows[c].refs /\ c[1] = "comment" /\ c \in DOMAIN rows
      BY DEF RefsOf, Table
    <3>2. PICK d \in rows[c].refs \cap rows[p].refs : d[1] = "discussion"
      BY <2>2, <3>1 DEF IInv, DbInv, SameDiscussion, Answers
    <3>3. p \in DOMAIN rows
      BY <3>1 DEF IInv, DbInv, ReferencesHold
    <3>4. ASSUME NEW x \in DOMAIN rows, x[1] = "comment", d \in rows[x].refs
          PROVE  RefsOf(x, "discussion") = {d}
      <4>1. PICK e \in ObjectsOf("discussion") :
              e \in rows[x].refs /\ rows[x].refs \ {e} \subseteq ObjectsOf("comment")
        BY <3>4 DEF IInv, DbInv, Shapes, Fits
      <4>2. d = e
        BY <3>2, <3>4, <4>1 DEF ObjectsOf
      <4> QED
        BY <4>1, <4>2 DEF RefsOf, ObjectsOf
    <3> QED
      BY <3>1, <3>2, <3>3, <3>4
  <2>3. ~CommentsCrossed => Above({c})[MaxDepth] = {}
    BY DEF TreeInv, Low
  <2> QED
    BY <2>1, <2>2, <2>3
<1> QED
  BY <1>1, Invariance, TreesInvariance, PTL
=============================================================================
