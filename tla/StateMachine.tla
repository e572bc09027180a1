---------------------------- MODULE StateMachine ----------------------------
(***************************************************************************)
(* The nine-state table of app/statemachine.py as constant operators: the  *)
(* data every other module of the workflow shares.  Nothing here has state. *)
(***************************************************************************)

States == {"idea", "plan", "proposed", "approved", "building", "review",
           "done", "paused", "trashed"}

\* The value of tasks.previous_state when the column is NULL.
NoState == "null"

\* Who may act: the column identities.kind.
Kinds == {"human", "clanker"}

\* TRANSITIONS: what may be asked for in each state.  "previous" is a request,
\* never a state.
TRANSITIONS ==
  [s \in States |->
     CASE s = "idea"     -> {"plan", "paused", "trashed"}
       [] s = "plan"     -> {"proposed", "paused", "trashed"}
       [] s = "proposed" -> {"approved", "plan", "paused", "trashed"}
       [] s = "approved" -> {"building", "paused", "trashed"}
       [] s = "building" -> {"review", "paused", "trashed"}
       [] s = "review"   -> {"done", "building", "plan", "approved", "paused",
                             "trashed"}
       [] s = "paused"   -> {"plan", "proposed", "approved", "building",
                             "review", "trashed"}
       [] s = "done"     -> {"previous"}
       [] s = "trashed"  -> {"previous"}]

Requests == States \cup {"previous"}

\* The states left only by "previous"; entering one records where from.
Settled == {"done", "trashed"}

\* DEFAULT_PREVIOUS.get(frm, "plan")
DefaultPrevious(frm) == IF frm = "done" THEN "review" ELSE "plan"

\* is_human_only(frm, to).  (In every module a definition named X_Bug, such as
\* the next one, is X with a plausible bug: nothing uses it, it is there to put
\* in the place of X and see the properties fail.)
IsHumanOnly_RestoreOpen(frm, to) ==
  \/ to = "trashed"
  \/ <<frm, to>> \in {<<"proposed", "approved">>, <<"review", "done">>}
IsHumanOnly(frm, to) ==
  \/ to \in {"trashed", "previous"}
  \/ <<frm, to>> \in {<<"proposed", "approved">>, <<"review", "done">>}

\* The state a request leads to: "previous" is resolved from the row.
Target_AlwaysDefault(frm, previous, to) ==
  IF to # "previous" THEN to ELSE DefaultPrevious(frm)
Target(frm, previous, to) ==
  IF to # "previous" THEN to
  ELSE IF previous # NoState THEN previous ELSE DefaultPrevious(frm)

\* The previous_state column written by a transition frm -> target.
PreviousState_NeverReset(frm, target) == frm
PreviousState(frm, target) == IF target \in Settled THEN frm ELSE NoState

\* _BODY_FROZEN_FOR_AGENTS of app/objects.py.
BodyFrozenForAgents == {"approved", "building", "review", "done"}
=============================================================================
