----------------------------- MODULE MCWorkspace -----------------------------
(* Workspace for TLC: behaviours that keep to a few of the tables at a time. *)
EXTENDS Workspace, TLC

\* How many rows of each type there may be, and in all; which texts, beside the empty
\* one; and whether the rows of several identities and archived projects are followed.
Theme(limit, n, texts, owned) ==
  [limit |-> limit, rows |-> n, texts |-> texts \cup {"", "keep"}, owned |-> owned]
Themes ==
  {Theme([project |-> 1, discussion |-> 2, comment |-> 2], 5, {}, FALSE),
   Theme([project |-> 2, discussion |-> 2, comment |-> 1], 4, {}, FALSE),
   Theme([project |-> 1, discussion |-> 1, comment |-> 3], 5, {}, FALSE),
   Theme([project |-> 2, decision |-> 2], 4, {}, FALSE),
   Theme([project |-> 2, decision |-> 1, question |-> 1], 3, {}, FALSE),
   Theme([project |-> 2, note |-> 1], 3, Texts, FALSE),
   Theme([project |-> 1, note |-> 1, question |-> 1], 3, {}, FALSE),
   Theme([project |-> 1, note |-> 1, wiki |-> 1, link |-> 1], 4, {}, FALSE),
   Theme([project |-> 2, task |-> 2, chat |-> 1], 4, {}, TRUE),
   Theme([project |-> 1, task |-> 1, todo |-> 1, question |-> 1], 4, {}, FALSE),
   Theme([project |-> 2, task |-> 1, todo |-> 1], 4, {}, FALSE),
   Theme([wiki |-> 1], 1, Texts, FALSE),
   Theme([wiki |-> 2, link |-> 1], 3, {}, FALSE)}

\* The types, and the texts, that are in rows or that threads are about to write.
Insertions == {pending'[w] : w \in {x \in Threads : pending'[x].do = "insert"}}
Editions == {pending'[w] : w \in {x \in Threads : pending'[x].do = "edit"}}
Aims == {c.type : c \in Insertions} \cup {c.o[1] : c \in Editions}
Written == UNION {{rows'[o].text, rows'[o].created} \cup rows'[o].revisions : o \in DOMAIN rows'}
             \cup {c.row.text : c \in Insertions} \cup {c.text : c \in Editions}

Within(th) ==
  /\ \A o \in DOMAIN rows' : /\ o[1] \in DOMAIN th.limit
                             /\ o[2] <= th.limit[o[1]]
                             /\ ~th.owned => /\ rows'[o].by \cap Clankers = {}
                                             /\ rows'[o].status # "archived"
  /\ Cardinality(DOMAIN rows') <= th.rows
  /\ Aims \cup {o[1] : o \in gone'} \subseteq DOMAIN th.limit
  /\ {o[1] : o \in crossed'} \subseteq DOMAIN th.limit /\ Cardinality(crossed') <= 1
  /\ Written \subseteq th.texts

KeepsToTheme == \E th \in Themes : Within(th)
=============================================================================
