----------------------------- MODULE ProjectsPage -----------------------------
(***************************************************************************)
(* The page that lists a user's projects, in one or more browser tabs      *)
(* (src/frontend/src/pages/Projects.tsx), with the handlers behind its     *)
(* buttons (handlers_project_lifecycle.go, handlers_projects.go).          *)
(*                                                                         *)
(* A request is a record of `calls' from the click to the last state the   *)
(* page sets for it; the server answers requests in any order.  The name   *)
(* of a project, the search box, the sort order, the menus and the theme   *)
(* decide nothing and are left out; what a project holds is ProjectStore.  *)
(***************************************************************************)
EXTENDS Naturals, FiniteSets

CONSTANTS
    Ids,        \* the projects there are or will be
    Owned,      \* those of this user; the others are shared with the user
    Present,    \* those that exist at first
    WithPdf,    \* those with a compiled PDF
    None, Unmade, Gone,   \* no project; a project not made yet, deleted for good
    Envs        \* the surroundings: records of tabs, views, buttons, acts, faults

Row == [deleted : BOOLEAN, archived : BOOLEAN]

ASSUME IdsAssumption ==
    /\ Owned \subseteq Ids /\ Present \subseteq Ids /\ WithPdf \subseteq Ids
    /\ Unmade \notin Row /\ Gone \notin Row /\ "list" \notin Ids
    /\ \A e \in Envs : e.acts \in Nat /\ e.faults \in Nat /\ IsFiniteSet(e.tabs)

Views == {"all", "mine", "shared", "archived", "trash"}
Updates == {"trash", "restore", "archive", "unarchive"}
Downloads == {"zip", "pdf"}
Asked == {"duplicate", "trash", "purge"}        \* the buttons that open a dialog first
Buttons == Updates \cup Downloads \cup {"duplicate", "purge"}

VARIABLES
    proj,       \* [Ids -> the row of a project, or Unmade, or Gone]
    token,      \* whether the browser holds a token; all tabs share it
    page,       \* [tab -> the state of the component]
    calls,      \* the commands under way
    acts,       \* how often the user acted
    faults,     \* how many requests failed
    kept,       \* history: projects restored and not trashed since
    raced,      \* history: projects restored that a call under way may still delete
    stale,      \* history: tabs whose list the code does not keep right (see Excused)
    env

vars == <<proj, token, page, calls, acts, faults, kept, raced, stale>>

Tabs == UNION {e.tabs : e \in Envs}
IsRow(i) == proj[i] \in Row

\* The projects of a view (handleListProjects).
Listed(view) == {i \in Ids : IsRow(i) /\
    CASE view = "all" -> ~proj[i].deleted /\ ~proj[i].archived
      [] view = "mine" -> i \in Owned /\ ~proj[i].deleted /\ ~proj[i].archived
      [] view = "shared" -> i \notin Owned /\ ~proj[i].deleted /\ ~proj[i].archived
      [] view = "archived" -> i \in Owned /\ proj[i].archived /\ ~proj[i].deleted
      [] view = "trash" -> i \in Owned /\ proj[i].deleted}

\* The component as it is mounted: the list of the first view is asked for.
Fresh == [at |-> "list", view |-> "all", list |-> {}, loading |-> TRUE, gen |-> 1,
          loads |-> {[gen |-> 1, view |-> "all", step |-> "sent", rows |-> {}]},
          busy |-> None, dialog |-> None, modal |-> FALSE, pending |-> FALSE]

Init ==
    /\ proj = [i \in Ids |-> IF i \in Present THEN [deleted |-> FALSE, archived |-> FALSE]
                                              ELSE Unmade]
    /\ token = TRUE
    /\ env \in Envs
    /\ page = [t \in env.tabs |-> Fresh]
    /\ calls = {}
    /\ acts = 0 /\ faults = 0
    /\ kept = {} /\ raced = {} /\ stale = {}

------------------------------------------------------------------------------
(* The user.  A dialog covers the page: nothing behind it can be clicked.   *)

Of(t) == {c \in calls : c.tab = t}
Writes(t) == {c \in Of(t) : c.kind \notin Downloads}
Uncovered(t) == page[t].at = "list" /\ page[t].dialog = None /\ ~page[t].modal
Acts == acts < env.acts /\ acts' = acts + 1
Set(t, new) == page' = [page EXCEPT ![t] = new]

\* The buttons of a row, which differ from view to view.
ArchivedButtons == {"zip", "pdf", "trash", "unarchive"}
TrashButtons == {"duplicate", "zip", "pdf", "restore", "purge"}
RowButtons(view) == CASE view = "archived" -> ArchivedButtons
                      [] view = "trash" -> TrashButtons
                      [] OTHER -> {"duplicate", "zip", "pdf", "archive", "trash"}

\* A button can be clicked when its row is shown and not busy, and the user may do it.
Enabled(t, b, i) ==
    /\ Uncovered(t) /\ ~page[t].loading
    /\ i \in page[t].list /\ b \in RowButtons(page[t].view) \cap env.buttons
    /\ page[t].busy # i
    /\ b \in Updates \cup {"purge"} => i \in Owned
    /\ b = "pdf" => i \in WithPdf

\* A command is sent with the token of the moment; the handler of its answer belongs to the
\* view shown now.
Send(t, kind, i) == calls' = calls \cup
    {[n |-> acts + 1, tab |-> t, kind |-> kind, id |-> i, view |-> page[t].view,
      auth |-> token, step |-> "sent", made |-> None, rows |-> {}]}

\* The code keeps the list right for one command at a time, in the view it was given in,
\* that is answered with all rows: see the hazards.
Excused(t) == stale' = stale \cup {t}

\* A click on a side entry: the list of the view is asked for, an earlier load is aborted.
\* Its answer may already be on the way.
SwitchView(t, v) ==
    /\ Acts /\ Uncovered(t) /\ v \in env.views \ {page[t].view}
    /\ LET g == page[t].gen + 1 IN
         Set(t, [page[t] EXCEPT !.view = v, !.loading = TRUE, !.gen = g,
                   !.loads = @ \cup {[gen |-> g, view |-> v, step |-> "sent", rows |-> {}]}])
    /\ IF Writes(t) = {} THEN stale' = stale \ {t} ELSE Excused(t)
    /\ UNCHANGED <<proj, token, calls, faults, kept, raced>>

\* A button that acts at once.
Press(t, b, i) ==
    /\ Acts /\ Enabled(t, b, i) /\ b \notin Asked
    /\ Set(t, [page[t] EXCEPT !.busy = i])
    /\ Send(t, b, i)
    /\ IF Writes(t) = {} THEN UNCHANGED stale ELSE Excused(t)
    /\ UNCHANGED <<proj, token, faults, kept, raced>>

\* A button that asks first: copy, to the trash, delete for good.
Ask(t, b, i) ==
    /\ Acts /\ Enabled(t, b, i) /\ b \in Asked
    /\ Set(t, [page[t] EXCEPT !.dialog = [kind |-> b, id |-> i]])
    /\ UNCHANGED <<proj, token, calls, faults, kept, raced, stale>>

Confirm(t) ==
    /\ Acts /\ page[t].at = "list" /\ page[t].dialog # None /\ page[t].busy = None
    /\ Set(t, [page[t] EXCEPT !.busy = page[t].dialog.id])
    /\ Send(t, page[t].dialog.kind, page[t].dialog.id)
    /\ IF Writes(t) = {} THEN UNCHANGED stale ELSE Excused(t)
    /\ UNCHANGED <<proj, token, faults, kept, raced>>

CloseDialog(t) ==
    /\ page[t].at = "list" /\ page[t].dialog # None /\ page[t].busy = None
    /\ Set(t, [page[t] EXCEPT !.dialog = None])
    /\ UNCHANGED <<proj, token, calls, acts, faults, kept, raced, stale>>

\* The dialog of a new project: blank, from the sample, an archive or a repository.
OpenModal(t) ==
    /\ Acts /\ Uncovered(t) /\ "create" \in env.buttons
    /\ Set(t, [page[t] EXCEPT !.modal = TRUE])
    /\ UNCHANGED <<proj, token, calls, faults, kept, raced, stale>>

CloseModal(t) ==
    /\ page[t].at = "list" /\ page[t].modal /\ ~page[t].pending
    /\ Set(t, [page[t] EXCEPT !.modal = FALSE])
    /\ UNCHANGED <<proj, token, calls, acts, faults, kept, raced, stale>>

\* A form without an archive or a repository changes nothing but the message.
SubmitModal(t) ==
    /\ Acts /\ page[t].at = "list" /\ page[t].modal /\ ~page[t].pending
    /\ Set(t, [page[t] EXCEPT !.pending = TRUE])
    /\ Send(t, "create", None)
    /\ UNCHANGED <<proj, token, faults, kept, raced, stale>>

\* The title of a row leads to the editor; the component is unmounted.
OpenProject(t, i) ==
    /\ Acts /\ Uncovered(t) /\ ~page[t].loading /\ i \in page[t].list /\ "open" \in env.buttons
    /\ Set(t, [page[t] EXCEPT !.at = i, !.loads = {}])
    /\ UNCHANGED <<proj, token, calls, faults, kept, raced, stale>>

RequestLogout(t) ==
    /\ Acts /\ Uncovered(t) /\ "logout" \in env.buttons
    /\ token' = FALSE
    /\ Set(t, [page[t] EXCEPT !.at = "login", !.loads = {}])
    /\ UNCHANGED <<proj, calls, faults, kept, raced, stale>>

User(t) ==
    \/ \E v \in Views : SwitchView(t, v)
    \/ \E b \in Buttons, i \in Ids : Press(t, b, i) \/ Ask(t, b, i)
    \/ Confirm(t) \/ CloseDialog(t)
    \/ OpenModal(t) \/ CloseModal(t) \/ SubmitModal(t)
    \/ \E i \in Ids : OpenProject(t, i)
    \/ RequestLogout(t)

------------------------------------------------------------------------------
(* The server.                                                             *)

\* Who the server takes the caller for; a trashed project is its owner's alone.
Role(i) == IF ~IsRow(i) \/ (proj[i].deleted /\ i \notin Owned) THEN "none"
           ELSE IF i \in Owned THEN "owner" ELSE "member"

Step(c, s) == calls' = (calls \ {c}) \cup {[c EXCEPT !.step = s]}
Faulty == faults < env.faults /\ faults' = faults + 1

\* What was done is answered, or the answer is lost.
Answered(c, done) ==
    \/ calls' = (calls \ {c}) \cup {done} /\ UNCHANGED faults
    \/ calls' = (calls \ {c}) \cup {[done EXCEPT !.step = "failed"]} /\ Faulty

Refuse(c) == Step(c, "failed") /\ UNCHANGED <<proj, faults, kept, raced>>

\* The condition of each UPDATE, and the row it leaves.
Ready(kind, r) == CASE kind = "trash" -> ~r.deleted
                    [] kind = "restore" -> r.deleted
                    [] kind = "archive" -> ~r.deleted /\ ~r.archived
                    [] kind = "unarchive" -> r.archived /\ ~r.deleted
Updated(kind, r) == CASE kind = "trash" -> [r EXCEPT !.deleted = TRUE]
                      [] kind = "restore" -> [r EXCEPT !.deleted = FALSE]
                      [] kind = "archive" -> [r EXCEPT !.archived = TRUE]
                      [] kind = "unarchive" -> [r EXCEPT !.archived = FALSE]

\* A deletion that has looked at the project, or what made it and takes it back on an error.
MayDelete(d, i) == (d.step = "checked" /\ d.id = i) \/ (d.step = "filling" /\ d.made = i)

\* The four handlers that are one UPDATE each.
HandleUpdate(c) ==
    /\ c.step = "sent" /\ c.kind \in Updates
    /\ IF c.auth /\ Role(c.id) = "owner" /\ Ready(c.kind, proj[c.id])
       THEN /\ proj' = [proj EXCEPT ![c.id] = Updated(c.kind, @)]
            /\ Answered(c, [c EXCEPT !.step = "done"])
            /\ kept' = CASE c.kind = "restore" -> kept \cup {c.id}
                         [] c.kind = "trash" -> kept \ {c.id}
                         [] OTHER -> kept
            /\ raced' = IF c.kind = "restore" /\ \E d \in calls : MayDelete(d, c.id)
                        THEN raced \cup {c.id} ELSE raced
       ELSE Refuse(c)

\* handleDeleteProject reads deleted_at and deletes in a second statement.
CheckDeletedNot(c) ==              \* mutant: without reading deleted_at
    /\ c.step = "sent" /\ c.kind = "purge"
    /\ IF c.auth /\ Role(c.id) = "owner"
       THEN Step(c, "checked") /\ UNCHANGED <<proj, faults, kept, raced>>
       ELSE Refuse(c)

CheckDeleted(c) ==
    /\ c.step = "sent" /\ c.kind = "purge"
    /\ IF c.auth /\ Role(c.id) = "owner" /\ proj[c.id].deleted
       THEN Step(c, "checked") /\ UNCHANGED <<proj, faults, kept, raced>>
       ELSE Refuse(c)

DeleteRow(c) ==
    /\ c.step = "checked"
    /\ proj' = [proj EXCEPT ![c.id] = Gone]
    /\ Answered(c, [c EXCEPT !.step = "done"])
    /\ UNCHANGED <<kept, raced>>

\* A copy, or a new project: the row is there before its files are.  The spare ids bound how
\* many are made; the next one is refused.
Spare == {i \in Owned : proj[i] = Unmade}

NewProject(c) ==
    /\ c.step = "sent" /\ c.kind \in {"duplicate", "create"}
    /\ IF c.auth /\ (c.kind = "duplicate" => Role(c.id) # "none") /\ Spare # {}
       THEN \E i \in Spare :
              /\ proj' = [proj EXCEPT ![i] = [deleted |-> FALSE, archived |-> FALSE]]
              /\ calls' = (calls \ {c}) \cup {[c EXCEPT !.step = "filling", !.made = i]}
              /\ UNCHANGED <<faults, kept, raced>>
       ELSE Refuse(c)

\* Its files are stored, or one is not and the row is deleted again; the deletion may fail too.
FillProject(c) ==
    /\ c.step = "filling"
    /\ \/ IsRow(c.made) /\ UNCHANGED proj /\ Answered(c, [c EXCEPT !.step = "done"])
       \/ ~IsRow(c.made) /\ UNCHANGED <<proj, faults>> /\ Step(c, "failed")
       \/ /\ Faulty /\ Step(c, "failed")
          /\ proj' \in {proj, [proj EXCEPT ![c.made] = Gone]}
    /\ UNCHANGED <<kept, raced>>

HandleDownload(c) ==
    /\ c.step = "sent" /\ c.kind \in Downloads
    /\ IF c.auth /\ Role(c.id) # "none" THEN Answered(c, [c EXCEPT !.step = "done"])
       ELSE Step(c, "failed") /\ UNCHANGED faults
    /\ UNCHANGED <<proj, kept, raced>>

\* A request that reaches no handler, or fails before it did anything.
HandleFails(c) ==
    /\ c.step \in {"sent", "checked"} /\ Faulty /\ Step(c, "failed")
    /\ UNCHANGED <<proj, kept, raced>>

\* What handleListProjects answers for a view: the rows, some of them where the connection to
\* the database breaks between two (nobody asks rows.Err()), or an error.
Lists(view, auth, step, rows) ==
    \/ auth /\ step = "read" /\ rows = Listed(view) /\ UNCHANGED faults
    \/ auth /\ step = "part" /\ rows # Listed(view) /\ Faulty
    \/ step = "unread" /\ rows = {} /\ IF auth THEN Faulty ELSE UNCHANGED faults

\* The list asked for again after a command.
HandleReload(c) ==
    /\ c.step = "reading"
    /\ \E s \in {"read", "part", "unread"}, rows \in SUBSET Listed(c.view) :
         /\ Lists(c.view, c.auth, s, rows)
         /\ calls' = (calls \ {c}) \cup {[c EXCEPT !.step = s, !.rows = rows]}
    /\ UNCHANGED <<proj, kept, raced>>

\* The list of a view.
HandleLoad(t, l) ==
    /\ l \in page[t].loads /\ l.step = "sent"
    /\ \E s \in {"read", "part", "unread"}, rows \in SUBSET Listed(l.view) :
         /\ Lists(l.view, token, s, rows)
         /\ Set(t, [page[t] EXCEPT !.loads = (@ \ {l}) \cup
                                             {[l EXCEPT !.step = s, !.rows = rows]}])
    /\ UNCHANGED <<proj, token, calls, acts, kept, raced, stale>>

Handle(c) == HandleUpdate(c) \/ CheckDeleted(c) \/ DeleteRow(c) \/ NewProject(c)
             \/ FillProject(c) \/ HandleDownload(c) \/ HandleFails(c) \/ HandleReload(c)

Server ==
    \/ \E c \in calls : Handle(c) /\ UNCHANGED <<token, page, acts, stale>>
    \/ \E t \in env.tabs : \E l \in page[t].loads : HandleLoad(t, l)

------------------------------------------------------------------------------
(* The answers.  What an unmounted component sets is lost; nav is not.      *)

Mounted(c) == page[c.tab].at = "list"
Shows(c, new) == page' = IF Mounted(c) THEN [page EXCEPT ![c.tab] = new] ELSE page
Ends(c) == calls' = calls \ {c}
Read == {"read", "part", "unread"}      \* the steps of a list that was answered

\* The answer of a load counts if no other view was chosen since.
LoadAnswerAny(t, l) ==             \* mutant: without the check of the generation
    /\ l \in page[t].loads /\ l.step \in Read
    /\ LET rest == [page[t] EXCEPT !.loads = @ \ {l}, !.loading = FALSE] IN
         Set(t, IF l.step = "unread" THEN rest ELSE [rest EXCEPT !.list = l.rows])
    /\ IF l.step = "read" THEN UNCHANGED stale ELSE Excused(t)
    /\ UNCHANGED <<proj, token, calls, acts, faults, kept, raced>>

LoadAnswer(t, l) ==
    /\ l \in page[t].loads /\ l.step \in Read
    /\ LET rest == [page[t] EXCEPT !.loads = @ \ {l}] IN
         CASE l.gen # page[t].gen -> Set(t, rest)
           [] l.gen = page[t].gen /\ l.step = "unread" ->
                Set(t, [rest EXCEPT !.loading = FALSE])
           [] l.gen = page[t].gen /\ l.step # "unread" ->
                Set(t, [rest EXCEPT !.list = l.rows, !.loading = FALSE])
    /\ IF l.gen # page[t].gen \/ l.step = "read" THEN UNCHANGED stale ELSE Excused(t)
    /\ UNCHANGED <<proj, token, calls, acts, faults, kept, raced>>

\* After a command the dialog closes and the list is asked for again.
CommandDone(c) ==
    /\ c.step = "done" /\ c.kind \notin Downloads \cup {"create"}
    /\ Shows(c, [page[c.tab] EXCEPT !.dialog = IF c.kind \in Asked THEN None ELSE @])
    /\ calls' = (calls \ {c}) \cup {[c EXCEPT !.step = "reading", !.auth = token]}
    /\ UNCHANGED stale

DownloadDone(c) ==
    /\ c.step = "done" /\ c.kind \in Downloads
    /\ Shows(c, [page[c.tab] EXCEPT !.busy = None])
    /\ Ends(c) /\ UNCHANGED stale

CreateDone(c) ==
    /\ c.step = "done" /\ c.kind = "create"
    /\ page' = [page EXCEPT ![c.tab] = [@ EXCEPT !.modal = FALSE, !.pending = FALSE,
                                                 !.at = c.made, !.loads = {}]]
    /\ Ends(c) /\ UNCHANGED stale

\* The dialog stays open and the list as it was; the message says what failed.
CommandFailsBusy(c) ==             \* mutant: the busy row is released after success only
    /\ c.step = "failed"
    /\ Shows(c, [page[c.tab] EXCEPT !.pending = FALSE])
    /\ Ends(c) /\ Excused(c.tab)

CommandFails(c) ==
    /\ c.step = "failed"
    /\ Shows(c, IF c.kind = "create" THEN [page[c.tab] EXCEPT !.pending = FALSE]
                ELSE [page[c.tab] EXCEPT !.busy = None])
    /\ Ends(c) /\ Excused(c.tab)

\* The list is set whatever view is shown; a copy is then opened.
ReloadAnswer(c) ==
    /\ c.step \in Read
    /\ LET new == [page[c.tab] EXCEPT !.busy = None,
                                      !.list = IF c.step = "unread" THEN @ ELSE c.rows]
       IN IF c.kind = "duplicate"
          THEN page' = [page EXCEPT ![c.tab] = [new EXCEPT !.at = c.made, !.loads = {}]]
          ELSE Shows(c, new)
    /\ Ends(c)
    /\ IF c.step = "read" THEN UNCHANGED stale ELSE Excused(c.tab)

Answer(c) == CommandDone(c) \/ DownloadDone(c) \/ CreateDone(c) \/ CommandFails(c)
             \/ ReloadAnswer(c)

Browser ==
    \/ \E c \in calls : Answer(c) /\ UNCHANGED <<proj, token, acts, faults, kept, raced>>
    \/ \E t \in env.tabs : \E l \in page[t].loads : LoadAnswer(t, l)

Next == ((\E t \in env.tabs : User(t)) \/ Server \/ Browser) /\ UNCHANGED env

Spec == Init /\ [][Next]_<<vars, env>>

\* Every request is answered or fails in the end, and the browser handles the answer.
Fairness == WF_vars(Server /\ UNCHANGED env) /\ WF_vars(Browser /\ UNCHANGED env)
FairSpec == Spec /\ Fairness
------------------------------------------------------------------------------
(* Properties.                                                             *)

Steps == {"sent", "checked", "filling", "done", "failed", "reading"} \cup Read

\* Types of all variables.
TypeOK ==
    /\ proj \in [Ids -> Row \cup {Unmade, Gone}]
    /\ token \in BOOLEAN /\ acts \in 0..env.acts /\ faults \in 0..env.faults
    /\ \A t \in env.tabs :
         /\ page[t].at \in Ids \cup {"list", "login"}
         /\ page[t].view \in Views /\ page[t].list \subseteq Ids
         /\ page[t].busy \in Ids \cup {None}
         /\ \A l \in page[t].loads : l.gen \in 1..page[t].gen /\ l.view \in Views
    /\ \A c \in calls : c.step \in Steps /\ c.kind \in Buttons \cup {"create"}
    /\ kept \cup raced \subseteq Ids /\ stale \subseteq env.tabs

AtRest(t) == page[t].at = "list" /\ ~page[t].loading /\ Of(t) = {}

\* What a page shows when nothing is under way is what the server has for the view in its
\* title, over any answers of earlier views that come late and any commands of the page.
\* Excepted are what another tab does, and what Excused names (load, reloadList): two commands
\* at a time, a view changed under one, and an answer that fails or has a part of the rows.
ListShown == Cardinality(env.tabs) = 1 =>
    \A t \in env.tabs \ stale : AtRest(t) => page[t].list = Listed(page[t].view)

\* A project that was restored is not deleted for good by a dialog another tab opened before:
\* "use trash first" (handleDeleteProject).  Excepted are a restore between its two statements,
\* and one of a copy whose files are still being stored (MayDelete).
RestoredStays == \A i \in kept \ raced : IsRow(i)

Waiting(t) == /\ t \in env.tabs /\ page[t].at = "list"
              /\ page[t].loading \/ page[t].busy # None \/ page[t].pending

\* A page that waits stops waiting: the rows come back, their buttons and the dialogs can be
\* used again, whatever fails (the finally of every handler).
PageResponds == \A t \in Tabs : Waiting(t) ~> ~Waiting(t)
==============================================================================
