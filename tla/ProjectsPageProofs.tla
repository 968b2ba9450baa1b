-------------------------- MODULE ProjectsPageProofs --------------------------
(***************************************************************************)
(* Theorems about the page of the projects, for every set of projects and  *)
(* users, any number of tabs, of clicks and of failures.                   *)
(***************************************************************************)
EXTENDS ProjectsPage, FiniteSetTheorems, TLAPS

-----------------------------------------------------------------------------
(* Types. The generations of the loads under way are all different, and a  *)
(* dialog is open only over a list that is not being loaded.               *)

LoadType == [gen : Nat, view : Views, step : {"sent"} \cup Read, rows : SUBSET Ids]

PageType ==
  [at : Ids \cup {"list", "login"}, view : Views, list : SUBSET Ids, loading : BOOLEAN, gen : Nat,
   loads : SUBSET LoadType, busy : Ids \cup {None}, dialog : [kind : Asked, id : Ids] \cup {None},
   modal : BOOLEAN, pending : BOOLEAN]

PageRight(p) ==
  /\ \A l \in p.loads : 1 <= l.gen /\ l.gen <= p.gen
  /\ \A l, m \in p.loads : l.gen = m.gen => l = m
  /\ p.dialog # None => ~p.loading

CallType ==
  [n : Nat, tab : env.tabs, kind : Buttons \cup {"create"}, id : Ids \cup {None}, view : Views,
   auth : BOOLEAN, step : Steps, made : Ids \cup {None}, rows : SUBSET Ids]

\* What the steps of a call say of its kind.
CallRight(c) ==
  /\ c.kind # "create" => c.id \in Ids
  /\ c.step = "checked" => c.kind = "purge"
  /\ c.step = "filling" => c.kind \in {"duplicate", "create"}
  /\ c.kind \in {"duplicate", "create"} /\ c.step \notin {"sent", "failed"} => c.made \in Ids
  /\ c.step \in {"reading"} \cup Read => c.kind \notin Downloads \cup {"create"}

Pages == {p \in PageType : PageRight(p)}
Calls == {c \in CallType : CallRight(c)}

Typed ==
  /\ env \in Envs
  /\ proj \in [Ids -> Row \cup {Unmade, Gone}]
  /\ token \in BOOLEAN /\ acts \in 0..env.acts /\ faults \in 0..env.faults
  /\ page \in [env.tabs -> Pages]
  /\ calls \subseteq Calls
  /\ kept \cup raced \subseteq Ids /\ stale \subseteq env.tabs

LEMMA Kinds ==
  /\ Asked \subseteq Buttons /\ Updates \subseteq Buttons /\ Downloads \subseteq Buttons
  /\ "create" \notin Buttons /\ {"duplicate", "purge"} \subseteq Buttons
  /\ Updates \cap (Downloads \cup {"create", "duplicate", "purge"}) = {}
  /\ Downloads \cap Asked = {} /\ Updates \cap Downloads = {}
BY DEF Asked, Buttons, Updates, Downloads

\* A page of a tab is replaced.
LEMMA PagePut ==
  ASSUME NEW T, page \in [T -> Pages], NEW t \in T, NEW new \in Pages,
         page' = [page EXCEPT ![t] = new]
  PROVE  page' \in [T -> Pages] /\ \A u \in T : page'[u] = IF u = t THEN new ELSE page[u]
OBVIOUS

\* The fields of a page.
LEMMA PageFields ==
  ASSUME NEW p \in Pages
  PROVE  /\ p \in PageType /\ PageRight(p)
         /\ p.at \in Ids \cup {"list", "login"} /\ p.view \in Views /\ p.list \in SUBSET Ids
         /\ p.loading \in BOOLEAN /\ p.gen \in Nat /\ p.loads \in SUBSET LoadType
         /\ p.busy \in Ids \cup {None} /\ p.dialog \in [kind : Asked, id : Ids] \cup {None}
         /\ p.modal \in BOOLEAN /\ p.pending \in BOOLEAN
<1>1. p \in PageType /\ PageRight(p)
  BY DEF Pages
<1> QED
BY <1>1 DEF PageType

\* What the click on a side entry leaves.
LEMMA SwitchedPage ==
  ASSUME NEW p \in Pages, NEW v \in Views, NEW g, g = p.gen + 1, p.dialog = None
  PROVE  [p EXCEPT !.view = v, !.loading = TRUE, !.gen = g,
            !.loads = @ \cup {[gen |-> g, view |-> v, step |-> "sent", rows |-> {}]}] \in Pages
<1> DEFINE l == [gen |-> g, view |-> v, step |-> "sent", rows |-> {}]
           new == [p EXCEPT !.view = v, !.loading = TRUE, !.gen = g, !.loads = @ \cup {l}]
<1>1. p \in PageType /\ PageRight(p) /\ p.gen \in Nat /\ p.loads \in SUBSET LoadType
  BY PageFields
<1>2. l \in LoadType /\ l.gen = g /\ g \in Nat
  BY <1>1 DEF LoadType
<1>3. new \in PageType
  BY <1>1, <1>2 DEF PageType
<1>4. new.loads = p.loads \cup {l} /\ new.gen = g /\ new.dialog = p.dialog
  BY <1>1 DEF PageType
<1>5. \A m \in p.loads : m.gen \in Nat
  BY <1>1 DEF LoadType
<1>6. /\ \A m \in p.loads : 1 <= m.gen /\ m.gen <= p.gen
      /\ \A k, m \in p.loads : k.gen = m.gen => k = m
  BY <1>1 DEF PageRight
<1> HIDE DEF new, l
<1>7. \A m \in new.loads : 1 <= m.gen /\ m.gen <= new.gen
  BY <1>1, <1>2, <1>4, <1>5, <1>6
<1>8. \A k, m \in new.loads : k.gen = m.gen => k = m
  BY <1>1, <1>2, <1>4, <1>5, <1>6
<1>9. PageRight(new)
  BY <1>4, <1>7, <1>8 DEF PageRight
<1> QED
BY <1>3, <1>9 DEF Pages, new, l

\* A page whose loads are some of what they were.
LEMMA PageLike ==
  ASSUME NEW p \in Pages, NEW new \in PageType, new.loads \subseteq p.loads, new.gen = p.gen,
         new.dialog = None \/ ~new.loading
  PROVE  new \in Pages
<1>1. PageRight(new)
  BY PageFields DEF PageRight
<1> QED
BY <1>1 DEF Pages

LEMMA PageSet ==
  ASSUME NEW p \in Pages
  PROVE  /\ \A i \in Ids \cup {None} : [p EXCEPT !.busy = i] \in Pages
         /\ [p EXCEPT !.dialog = None] \in Pages
         /\ ~p.loading => \A d \in [kind : Asked, id : Ids] : [p EXCEPT !.dialog = d] \in Pages
         /\ \A b \in BOOLEAN : [p EXCEPT !.modal = b] \in Pages /\ [p EXCEPT !.pending = b] \in Pages
         /\ \A i \in Ids \cup {"login"} : [p EXCEPT !.at = i, !.loads = {}] \in Pages
         /\ \A i \in Ids : [p EXCEPT !.modal = FALSE, !.pending = FALSE, !.at = i, !.loads = {}] \in Pages
         /\ \A R \in SUBSET Ids : [p EXCEPT !.busy = None, !.list = R] \in Pages
<1>0. p \in PageType /\ (p.dialog = None \/ ~p.loading) /\ p.loads \in SUBSET LoadType
  BY PageFields DEF PageRight
<1>1. ASSUME NEW i \in Ids \cup {None} PROVE [p EXCEPT !.busy = i] \in Pages
  <2> DEFINE new == [p EXCEPT !.busy = i]
  <2>1. new \in PageType /\ new.loads = p.loads /\ new.gen = p.gen /\ new.dialog = p.dialog
        /\ new.loading = p.loading
    BY <1>0 DEF PageType
  <2> QED
  BY <1>0, <2>1, PageLike
<1>2. [p EXCEPT !.dialog = None] \in Pages
  <2> DEFINE new == [p EXCEPT !.dialog = None]
  <2>1. new \in PageType /\ new.loads = p.loads /\ new.gen = p.gen /\ new.dialog = None
    BY <1>0 DEF PageType
  <2> QED
  BY <1>0, <2>1, PageLike
<1>3. ASSUME ~p.loading, NEW d \in [kind : Asked, id : Ids] PROVE [p EXCEPT !.dialog = d] \in Pages
  <2> DEFINE new == [p EXCEPT !.dialog = d]
  <2>1. new \in PageType /\ new.loads = p.loads /\ new.gen = p.gen /\ new.loading = p.loading
    BY <1>0 DEF PageType
  <2> QED
  BY <1>3, <2>1, PageLike
<1>4. ASSUME NEW b \in BOOLEAN PROVE [p EXCEPT !.modal = b] \in Pages /\ [p EXCEPT !.pending = b] \in Pages
  <2> DEFINE new == [p EXCEPT !.modal = b]
             newer == [p EXCEPT !.pending = b]
  <2>1. new \in PageType /\ new.loads = p.loads /\ new.gen = p.gen /\ new.dialog = p.dialog
        /\ new.loading = p.loading
    BY <1>0 DEF PageType
  <2>2. newer \in PageType /\ newer.loads = p.loads /\ newer.gen = p.gen /\ newer.dialog = p.dialog
        /\ newer.loading = p.loading
    BY <1>0 DEF PageType
  <2>3. new \in Pages
    BY <1>0, <2>1, PageLike
  <2>4. newer \in Pages
    BY <1>0, <2>2, PageLike
  <2> QED
  BY <2>3, <2>4
<1>5. ASSUME NEW i \in Ids \cup {"login"} PROVE [p EXCEPT !.at = i, !.loads = {}] \in Pages
  <2> DEFINE new == [p EXCEPT !.at = i, !.loads = {}]
  <2>1. new \in PageType /\ new.loads = {} /\ new.gen = p.gen /\ new.dialog = p.dialog
        /\ new.loading = p.loading
    BY <1>0 DEF PageType
  <2> QED
  BY <1>0, <2>1, PageLike
<1>6. ASSUME NEW i \in Ids PROVE [p EXCEPT !.modal = FALSE, !.pending = FALSE, !.at = i, !.loads = {}] \in Pages
  <2> DEFINE new == [p EXCEPT !.modal = FALSE, !.pending = FALSE, !.at = i, !.loads = {}]
  <2>1. new \in PageType /\ new.loads = {} /\ new.gen = p.gen /\ new.dialog = p.dialog
        /\ new.loading = p.loading
    BY <1>0 DEF PageType
  <2> QED
  BY <1>0, <2>1, PageLike
<1>7. ASSUME NEW R \in SUBSET Ids PROVE [p EXCEPT !.busy = None, !.list = R] \in Pages
  <2> DEFINE new == [p EXCEPT !.busy = None, !.list = R]
  <2>1. new \in PageType /\ new.loads = p.loads /\ new.gen = p.gen /\ new.dialog = p.dialog
        /\ new.loading = p.loading
    BY <1>0 DEF PageType
  <2> QED
  BY <1>0, <2>1, PageLike
<1> QED
BY <1>1, <1>2, <1>3, <1>4, <1>5, <1>6, <1>7

\* What a call becomes.
LEMMA CallFields ==
  ASSUME NEW c \in Calls
  PROVE  /\ c \in CallType /\ CallRight(c)
         /\ c.tab \in env.tabs /\ c.kind \in Buttons \cup {"create"} /\ c.id \in Ids \cup {None}
         /\ c.view \in Views /\ c.auth \in BOOLEAN /\ c.step \in Steps
         /\ c.made \in Ids \cup {None} /\ c.rows \in SUBSET Ids
<1>1. c \in CallType /\ CallRight(c)
  BY DEF Calls
<1> QED
BY <1>1 DEF CallType

\* The fields of a call that stay.
Follows(c, d) == d.tab = c.tab /\ d.kind = c.kind /\ d.id = c.id /\ d.view = c.view

LEMMA CallStep ==
  ASSUME NEW c \in Calls, NEW s \in Steps,
         \/ s = "failed"
         \/ s = "checked" /\ c.kind = "purge"
         \/ s = "done" /\ (c.kind \in {"duplicate", "create"} => c.step = "filling")
  PROVE  LET d == [c EXCEPT !.step = s] IN
         d \in Calls /\ Follows(c, d) /\ d.step = s /\ d.made = c.made
<1> DEFINE d == [c EXCEPT !.step = s]
<1>1. c \in CallType /\ CallRight(c)
  BY CallFields
<1>2. d \in CallType /\ Follows(c, d) /\ d.step = s /\ d.made = c.made
  BY <1>1 DEF CallType, Follows
<1> HIDE DEF d
<1>3. CallRight(d)
  BY <1>1, <1>2, Kinds DEF CallRight, Follows, Downloads, Read
<1> QED
BY <1>2, <1>3 DEF Calls, d

LEMMA CallMade ==
  ASSUME NEW c \in Calls, c.kind \in {"duplicate", "create"}, NEW i \in Ids
  PROVE  LET d == [c EXCEPT !.step = "filling", !.made = i] IN
         d \in Calls /\ Follows(c, d) /\ d.step = "filling" /\ d.made = i
<1> DEFINE d == [c EXCEPT !.step = "filling", !.made = i]
<1>1. c \in CallType /\ CallRight(c)
  BY CallFields
<1>2. d \in CallType /\ Follows(c, d) /\ d.step = "filling" /\ d.made = i
  BY <1>1 DEF CallType, Follows, Steps
<1> HIDE DEF d
<1>3. CallRight(d)
  BY <1>1, <1>2, Kinds DEF CallRight, Follows, Read
<1> QED
BY <1>2, <1>3 DEF Calls, d

LEMMA CallRead ==
  ASSUME NEW c \in Calls, c.step = "reading", NEW s \in Read, NEW R \in SUBSET Ids
  PROVE  LET d == [c EXCEPT !.step = s, !.rows = R] IN
         d \in Calls /\ Follows(c, d) /\ d.step = s /\ d.rows = R
<1> DEFINE d == [c EXCEPT !.step = s, !.rows = R]
<1>1. c \in CallType /\ CallRight(c)
  BY CallFields
<1>2. d \in CallType /\ Follows(c, d) /\ d.step = s /\ d.rows = R /\ d.made = c.made
  BY <1>1 DEF CallType, Follows, Steps
<1> HIDE DEF d
<1>3. CallRight(d)
  BY <1>1, <1>2 DEF CallRight, Follows, Read
<1> QED
BY <1>2, <1>3 DEF Calls, d

LEMMA CallReload ==
  ASSUME NEW c \in Calls, c.step = "done", c.kind \notin Downloads \cup {"create"}, NEW a \in BOOLEAN
  PROVE  LET d == [c EXCEPT !.step = "reading", !.auth = a] IN
         d \in Calls /\ Follows(c, d) /\ d.step = "reading"
<1> DEFINE d == [c EXCEPT !.step = "reading", !.auth = a]
<1>1. c \in CallType /\ CallRight(c)
  BY CallFields
<1>2. d \in CallType /\ Follows(c, d) /\ d.step = "reading" /\ d.made = c.made
  BY <1>1 DEF CallType, Follows, Steps
<1> HIDE DEF d
<1>3. CallRight(d)
  BY <1>1, <1>2 DEF CallRight, Follows
<1> QED
BY <1>2, <1>3 DEF Calls, d

-----------------------------------------------------------------------------
(* What a handler does to its call, to the projects and to the history.    *)

Same == UNCHANGED <<proj, kept, raced>>
NewRow == [deleted |-> FALSE, archived |-> FALSE]

Outcome(c, d) ==
  \/ /\ Same
     /\ \/ d.step \in {"done", "failed", "part", "unread"}
        \/ d.step = "checked" /\ IsRow(c.id) /\ proj[c.id].deleted
        \/ d.step = "read" /\ d.rows = Listed(c.view)
  \/ /\ d.step \in {"done", "failed"} /\ c.kind \in Updates
     /\ IsRow(c.id) /\ Ready(c.kind, proj[c.id])
     /\ proj' = [proj EXCEPT ![c.id] = Updated(c.kind, @)]
     /\ kept' = CASE c.kind = "restore" -> kept \cup {c.id}
                  [] c.kind = "trash" -> kept \ {c.id}
                  [] OTHER -> kept
     /\ raced' = IF c.kind = "restore" /\ \E e \in calls : MayDelete(e, c.id)
                 THEN raced \cup {c.id} ELSE raced
  \/ /\ d.step \in {"done", "failed"} /\ UNCHANGED <<kept, raced>>
     /\ \E i \in Ids : MayDelete(c, i) /\ proj' = [proj EXCEPT ![i] = Gone]
  \/ /\ d.step = "filling" /\ d.made \in Ids /\ proj[d.made] = Unmade
     /\ proj' = [proj EXCEPT ![d.made] = NewRow] /\ UNCHANGED <<kept, raced>>

\* A download changes no project, and a call whose list was read changes nothing any more.
Moved(c, d) ==
  /\ calls' = (calls \ {c}) \cup {d} /\ d \in Calls /\ Follows(c, d)
  /\ faults' \in 0..env.faults
  /\ c.step \in {"sent", "checked", "filling", "reading"}
  /\ Same \/ c.kind \notin Downloads
  /\ Outcome(c, d)

\* A call is answered, or its answer is lost.
LEMMA AnsweredMoves ==
  ASSUME Typed, NEW c \in calls, Answered(c, [c EXCEPT !.step = "done"]),
         c.kind \in {"duplicate", "create"} => c.step = "filling"
  PROVE  \E d \in Calls :
            /\ calls' = (calls \ {c}) \cup {d} /\ Follows(c, d)
            /\ d.step \in {"done", "failed"} /\ faults' \in 0..env.faults
<1> DEFINE d == [c EXCEPT !.step = "done"]
           f == [c EXCEPT !.step = "failed"]
<1>1. c \in Calls /\ c \in CallType
  BY CallFields DEF Typed
<1>2. d \in Calls /\ Follows(c, d) /\ d.step = "done"
  BY <1>1, CallStep DEF Steps
<1>3. f \in Calls /\ Follows(c, f) /\ f.step = "failed"
  BY <1>1, CallStep DEF Steps
<1>4. [d EXCEPT !.step = "failed"] = f
  BY <1>1 DEF CallType
<1>5. env.faults \in Nat /\ faults \in 0..env.faults
  BY IdsAssumption DEF Typed
<1> HIDE DEF d, f
<1>6. CASE calls' = (calls \ {c}) \cup {d} /\ faults' = faults
  BY <1>2, <1>5, <1>6
<1>7. CASE calls' = (calls \ {c}) \cup {f} /\ faults < env.faults /\ faults' = faults + 1
  BY <1>3, <1>5, <1>7
<1>8. \/ calls' = (calls \ {c}) \cup {d} /\ faults' = faults
      \/ calls' = (calls \ {c}) \cup {f} /\ faults < env.faults /\ faults' = faults + 1
  BY <1>4 DEF Answered, Faulty, d
<1> QED
BY <1>6, <1>7, <1>8

\* The answer of a listing, all of it when it is read whole.
LEMMA ListsTyped ==
  ASSUME Typed, NEW view, NEW auth, NEW s, NEW R \in SUBSET Listed(view),
         Lists(view, auth, s, R)
  PROVE  R \in SUBSET Ids /\ (s = "read" => R = Listed(view)) /\ faults' \in 0..env.faults
<1>1. faults \in 0..env.faults /\ env.faults \in Nat
  BY IdsAssumption DEF Typed
<1>2. (s = "read" => R = Listed(view)) /\ (UNCHANGED faults \/ Faulty)
  BY DEF Lists
<1>3. R \in SUBSET Ids
  BY DEF Listed
<1> QED
BY <1>1, <1>2, <1>3 DEF Faulty

\* A call that only takes a step.
LEMMA StepMoves ==
  ASSUME Typed, NEW c \in calls, NEW s \in Steps, Step(c, s), Same,
         UNCHANGED faults \/ Faulty,
         c.step \in {"sent", "checked", "filling", "reading"},
         \/ s = "failed"
         \/ s = "checked" /\ c.kind = "purge" /\ IsRow(c.id) /\ proj[c.id].deleted
  PROVE  \E d : Moved(c, d)
<1> DEFINE d == [c EXCEPT !.step = s]
<1>1. c \in Calls
  BY DEF Typed
<1>2. d \in Calls /\ Follows(c, d) /\ d.step = s
  BY <1>1, CallStep
<1>3. faults' \in 0..env.faults
  BY IdsAssumption DEF Typed, Faulty
<1>4. calls' = (calls \ {c}) \cup {d}
  BY DEF Step
<1> HIDE DEF d
<1>5. Outcome(c, d)
  BY <1>2 DEF Outcome
<1> QED
BY <1>2, <1>3, <1>4, <1>5 DEF Moved

LEMMA RefuseMoves ==
  ASSUME Typed, NEW c \in calls, Refuse(c), c.step = "sent"
  PROVE  \E d : Moved(c, d)
<1>1. Step(c, "failed") /\ Same /\ UNCHANGED faults
  BY DEF Refuse, Same
<1> QED
BY <1>1, StepMoves DEF Steps

LEMMA HandleMoves ==
  ASSUME Typed, NEW c \in calls, Handle(c)
  PROVE  \E d : Moved(c, d)
<1>0. c \in Calls /\ CallRight(c) /\ c.id \in Ids \cup {None} /\ c.made \in Ids \cup {None}
  BY CallFields DEF Typed
<1>1. CASE HandleUpdate(c)
  <2>1. c.step = "sent" /\ c.kind \in Updates
    BY <1>1 DEF HandleUpdate
  <2>2. CASE c.auth /\ Role(c.id) = "owner" /\ Ready(c.kind, proj[c.id])
    <3>1. Answered(c, [c EXCEPT !.step = "done"]) /\ IsRow(c.id)
      BY <1>1, <2>2 DEF HandleUpdate, Role
    <3>2. PICK d \in Calls :
            /\ calls' = (calls \ {c}) \cup {d} /\ Follows(c, d)
            /\ d.step \in {"done", "failed"} /\ faults' \in 0..env.faults
      BY <2>1, <3>1, Kinds, AnsweredMoves
    <3>3. Outcome(c, d)
      BY <1>1, <2>1, <2>2, <3>1, <3>2 DEF HandleUpdate, Outcome
    <3> QED
    BY <2>1, <3>2, <3>3, Kinds DEF Moved
  <2>3. CASE ~(c.auth /\ Role(c.id) = "owner" /\ Ready(c.kind, proj[c.id]))
    BY <1>1, <2>1, <2>3, RefuseMoves DEF HandleUpdate
  <2> QED
  BY <2>2, <2>3
<1>2. CASE CheckDeleted(c)
  <2>1. c.step = "sent" /\ c.kind = "purge"
    BY <1>2 DEF CheckDeleted
  <2>2. CASE c.auth /\ Role(c.id) = "owner" /\ proj[c.id].deleted
    <3>1. Step(c, "checked") /\ Same /\ UNCHANGED faults /\ IsRow(c.id)
      BY <1>2, <2>2 DEF CheckDeleted, Same, Role
    <3> QED
    BY <2>1, <2>2, <3>1, StepMoves DEF Steps
  <2>3. CASE ~(c.auth /\ Role(c.id) = "owner" /\ proj[c.id].deleted)
    BY <1>2, <2>1, <2>3, RefuseMoves DEF CheckDeleted
  <2> QED
  BY <2>2, <2>3
<1>3. CASE DeleteRow(c)
  <2>1. c.step = "checked" /\ c.kind = "purge" /\ c.id \in Ids
    BY <1>0, <1>3 DEF DeleteRow, CallRight
  <2>2. Answered(c, [c EXCEPT !.step = "done"])
    BY <1>3 DEF DeleteRow
  <2>3. PICK d \in Calls :
          /\ calls' = (calls \ {c}) \cup {d} /\ Follows(c, d)
          /\ d.step \in {"done", "failed"} /\ faults' \in 0..env.faults
    BY <2>1, <2>2, AnsweredMoves
  <2>4. MayDelete(c, c.id)
    BY <2>1 DEF MayDelete
  <2>5. Outcome(c, d)
    BY <1>3, <2>1, <2>3, <2>4 DEF DeleteRow, Outcome
  <2> QED
  BY <2>1, <2>3, <2>5 DEF Moved, Downloads
<1>4. CASE NewProject(c)
  <2>1. c.step = "sent" /\ c.kind \in {"duplicate", "create"}
    BY <1>4 DEF NewProject
  <2>2. CASE c.auth /\ (c.kind = "duplicate" => Role(c.id) # "none") /\ Spare # {}
    <3>1. PICK i \in Spare :
            /\ proj' = [proj EXCEPT ![i] = [deleted |-> FALSE, archived |-> FALSE]]
            /\ calls' = (calls \ {c}) \cup {[c EXCEPT !.step = "filling", !.made = i]}
            /\ UNCHANGED <<faults, kept, raced>>
      BY <1>4, <2>2 DEF NewProject
    <3>2. i \in Ids /\ proj[i] = Unmade
      BY <3>1, IdsAssumption DEF Spare
    <3> DEFINE d == [c EXCEPT !.step = "filling", !.made = i]
    <3>3. d \in Calls /\ Follows(c, d) /\ d.step = "filling" /\ d.made = i
      BY <1>0, <2>1, <3>2, CallMade
    <3>4. calls' = (calls \ {c}) \cup {d}
      BY <3>1
    <3> HIDE DEF d
    <3>5. Outcome(c, d)
      BY <3>1, <3>2, <3>3 DEF Outcome, NewRow
    <3>6. faults' \in 0..env.faults
      BY <3>1 DEF Typed
    <3> QED
    BY <2>1, <3>3, <3>4, <3>5, <3>6 DEF Moved, Downloads
  <2>3. CASE ~(c.auth /\ (c.kind = "duplicate" => Role(c.id) # "none") /\ Spare # {})
    BY <1>4, <2>1, <2>3, RefuseMoves DEF NewProject
  <2> QED
  BY <2>2, <2>3
<1>5. CASE FillProject(c)
  <2>1. c.step = "filling" /\ c.kind \in {"duplicate", "create"} /\ c.made \in Ids
        /\ UNCHANGED <<kept, raced>>
    BY <1>0, <1>5 DEF FillProject, CallRight
  <2>2. CASE UNCHANGED proj /\ Answered(c, [c EXCEPT !.step = "done"])
    <3>1. PICK d \in Calls :
            /\ calls' = (calls \ {c}) \cup {d} /\ Follows(c, d)
            /\ d.step \in {"done", "failed"} /\ faults' \in 0..env.faults
      BY <2>1, <2>2, AnsweredMoves
    <3>2. Outcome(c, d)
      BY <2>1, <2>2, <3>1 DEF Outcome, Same
    <3> QED
    BY <2>1, <3>1, <3>2 DEF Moved, Downloads
  <2>3. CASE UNCHANGED <<proj, faults>> /\ Step(c, "failed")
    BY <2>1, <2>3, StepMoves DEF Same, Steps
  <2>4. CASE Faulty /\ Step(c, "failed") /\ proj' = proj
    BY <2>1, <2>4, StepMoves DEF Same, Steps
  <2>5. CASE Faulty /\ Step(c, "failed") /\ proj' = [proj EXCEPT ![c.made] = Gone]
    <3> DEFINE d == [c EXCEPT !.step = "failed"]
    <3>1. d \in Calls /\ Follows(c, d) /\ d.step = "failed"
      BY <1>0, CallStep DEF Steps
    <3>2. calls' = (calls \ {c}) \cup {d}
      BY <2>5 DEF Step
    <3>3. faults' \in 0..env.faults
      BY <2>5, IdsAssumption DEF Typed, Faulty
    <3> HIDE DEF d
    <3>4. MayDelete(c, c.made)
      BY <2>1 DEF MayDelete
    <3>5. Outcome(c, d)
      BY <2>1, <2>5, <3>1, <3>4 DEF Outcome
    <3> QED
    BY <2>1, <3>1, <3>2, <3>3, <3>5 DEF Moved, Downloads
  <2>6. \/ UNCHANGED proj /\ Answered(c, [c EXCEPT !.step = "done"])
        \/ UNCHANGED <<proj, faults>> /\ Step(c, "failed")
        \/ Faulty /\ Step(c, "failed") /\ proj' = proj
        \/ Faulty /\ Step(c, "failed") /\ proj' = [proj EXCEPT ![c.made] = Gone]
    BY <1>5 DEF FillProject
  <2> QED
  BY <2>2, <2>3, <2>4, <2>5, <2>6
<1>6. CASE HandleDownload(c)
  <2>1. c.step = "sent" /\ c.kind \in Downloads /\ Same
    BY <1>6 DEF HandleDownload, Same
  <2>2. CASE Answered(c, [c EXCEPT !.step = "done"])
    <3>1. PICK d \in Calls :
            /\ calls' = (calls \ {c}) \cup {d} /\ Follows(c, d)
            /\ d.step \in {"done", "failed"} /\ faults' \in 0..env.faults
      BY <2>1, <2>2, AnsweredMoves DEF Downloads
    <3>2. Outcome(c, d)
      BY <2>1, <3>1 DEF Outcome
    <3> QED
    BY <2>1, <3>1, <3>2 DEF Moved
  <2>3. CASE Step(c, "failed") /\ UNCHANGED faults
    BY <2>1, <2>3, StepMoves DEF Steps
  <2> QED
  BY <1>6, <2>2, <2>3 DEF HandleDownload
<1>7. CASE HandleFails(c)
  BY <1>7, StepMoves DEF HandleFails, Same, Steps
<1>8. CASE HandleReload(c)
  <2>1. PICK s \in Read, R \in SUBSET Listed(c.view) :
          /\ Lists(c.view, c.auth, s, R)
          /\ calls' = (calls \ {c}) \cup {[c EXCEPT !.step = s, !.rows = R]}
    BY <1>8 DEF HandleReload, Read
  <2> DEFINE d == [c EXCEPT !.step = s, !.rows = R]
  <2>2. R \in SUBSET Ids /\ (s = "read" => R = Listed(c.view)) /\ faults' \in 0..env.faults
    BY <2>1, ListsTyped
  <2>3. c.step = "reading" /\ Same
    BY <1>8 DEF HandleReload, Same
  <2>4. d \in Calls /\ Follows(c, d) /\ d.step = s /\ d.rows = R
    <3>1. c \in Calls /\ c.step = "reading" /\ s \in Read /\ R \in SUBSET Ids
      BY <1>0, <2>2, <2>3
    <3> QED
    BY ONLY <3>1, CallRead
  <2>5. calls' = (calls \ {c}) \cup {d}
    BY <2>1
  <2> HIDE DEF d
  <2>6. Outcome(c, d)
    BY <2>2, <2>3, <2>4 DEF Outcome, Read
  <2> QED
  BY <2>2, <2>3, <2>4, <2>5, <2>6 DEF Moved
<1> QED
BY <1>1, <1>2, <1>3, <1>4, <1>5, <1>6, <1>7, <1>8 DEF Handle

-----------------------------------------------------------------------------
(* The types are kept.                                                     *)

LEMMA TypedAgain ==
  ASSUME Typed, UNCHANGED env, proj' \in [Ids -> Row \cup {Unmade, Gone}],
         token' \in BOOLEAN, acts' \in 0..env.acts, faults' \in 0..env.faults,
         page' \in [env.tabs -> Pages], calls' \subseteq Calls,
         kept' \cup raced' \subseteq Ids, stale' \subseteq env.tabs
  PROVE  Typed'
<1>1. Calls' = Calls
  BY DEF Calls, CallType, CallRight
<1>2. Pages' = Pages
  BY DEF Pages, PageType, PageRight, LoadType
<1> QED
BY <1>1, <1>2 DEF Typed

\* A click changes no project and sends one command at most, of the view shown.
Clicked(t) ==
  /\ UNCHANGED <<proj, faults, kept, raced>>
  /\ token' \in BOOLEAN /\ acts' \in 0..env.acts
  /\ page' \in [env.tabs -> Pages]
  /\ stale' \subseteq env.tabs
  /\ \/ calls' = calls
     \/ \E k \in Calls : /\ k.step = "sent" /\ k.tab = t /\ k.view = page[t].view
                         /\ calls' = calls \cup {k}

LEMMA SendAdds ==
  ASSUME Typed, NEW t \in env.tabs, NEW kind \in Buttons \cup {"create"}, NEW i \in Ids \cup {None},
         kind # "create" => i \in Ids, Send(t, kind, i)
  PROVE  \E k \in Calls : /\ k.step = "sent" /\ k.tab = t /\ k.view = page[t].view /\ k.kind = kind
                          /\ calls' = calls \cup {k}
<1> DEFINE k == [n |-> acts + 1, tab |-> t, kind |-> kind, id |-> i, view |-> page[t].view,
                 auth |-> token, step |-> "sent", made |-> None, rows |-> {}]
<1>1. page[t] \in Pages /\ page[t].view \in Views
  BY PageFields DEF Typed
<1>2. acts + 1 \in Nat /\ token \in BOOLEAN
  BY IdsAssumption DEF Typed
<1>3. k \in CallType
  BY <1>1, <1>2 DEF CallType, Steps
<1>4. CallRight(k)
  BY DEF CallRight, Read
<1>5. k \in Calls
  BY <1>3, <1>4 DEF Calls
<1> QED
BY <1>5 DEF Send

LEMMA ActsTyped ==
  ASSUME Typed, Acts PROVE acts' \in 0..env.acts
BY IdsAssumption DEF Typed, Acts

LEMMA SetTyped ==
  ASSUME Typed, NEW t \in env.tabs, NEW new \in Pages, Set(t, new)
  PROVE  page' \in [env.tabs -> Pages] /\ \A u \in env.tabs : page'[u] = IF u = t THEN new ELSE page[u]
BY PagePut DEF Typed, Set

LEMMA UserClicks ==
  ASSUME Typed, NEW t \in env.tabs, User(t)
  PROVE  Clicked(t)
<1>1. page[t] \in Pages /\ token \in BOOLEAN /\ stale \subseteq env.tabs /\ acts \in 0..env.acts
  BY DEF Typed
<1>2. ASSUME NEW v \in Views, SwitchView(t, v) PROVE Clicked(t)
  <2> DEFINE g == page[t].gen + 1
             new == [page[t] EXCEPT !.view = v, !.loading = TRUE, !.gen = g,
                       !.loads = @ \cup {[gen |-> g, view |-> v, step |-> "sent", rows |-> {}]}]
  <2>1. Set(t, new) /\ page[t].dialog = None
    BY <1>2 DEF SwitchView, Uncovered
  <2>2. new \in Pages
    BY <1>1, <2>1, SwitchedPage
  <2> HIDE DEF new
  <2>3. page' \in [env.tabs -> Pages]
    BY <2>1, <2>2, SetTyped
  <2>4. stale' \subseteq env.tabs /\ acts' \in 0..env.acts
    BY <1>1, <1>2, ActsTyped DEF SwitchView, Excused
  <2> QED
  BY <1>1, <1>2, <2>3, <2>4 DEF SwitchView, Clicked
<1>3. ASSUME NEW b \in Buttons, NEW i \in Ids, Press(t, b, i) PROVE Clicked(t)
  <2> DEFINE new == [page[t] EXCEPT !.busy = i]
  <2>1. new \in Pages
    BY <1>1, PageSet
  <2>2. Set(t, new)
    BY <1>3 DEF Press
  <2> HIDE DEF new
  <2>3. page' \in [env.tabs -> Pages]
    BY <2>1, <2>2, SetTyped
  <2>4. stale' \subseteq env.tabs /\ acts' \in 0..env.acts
    BY <1>1, <1>3, ActsTyped DEF Press, Excused
  <2>5. Send(t, b, i)
    BY <1>3 DEF Press
  <2>6. \E k \in Calls : /\ k.step = "sent" /\ k.tab = t /\ k.view = page[t].view
                         /\ calls' = calls \cup {k}
    BY <2>5, SendAdds, Kinds
  <2> QED
  BY <1>1, <1>3, <2>3, <2>4, <2>6 DEF Press, Clicked
<1>4. ASSUME NEW b \in Buttons, NEW i \in Ids, Ask(t, b, i) PROVE Clicked(t)
  <2> DEFINE d == [kind |-> b, id |-> i]
             new == [page[t] EXCEPT !.dialog = d]
  <2>1. d \in [kind : Asked, id : Ids] /\ ~page[t].loading
    BY <1>4 DEF Ask, Enabled
  <2>2. Set(t, new)
    BY <1>4 DEF Ask
  <2> HIDE DEF d
  <2>3. new \in Pages
    BY <1>1, <2>1, PageSet
  <2> HIDE DEF new
  <2>4. page' \in [env.tabs -> Pages]
    BY <2>2, <2>3, SetTyped
  <2> QED
  BY <1>1, <1>4, <2>4, ActsTyped DEF Ask, Clicked
<1>5. CASE Confirm(t)
  <2> DEFINE d == page[t].dialog
             new == [page[t] EXCEPT !.busy = d.id]
  <2>1. d \in [kind : Asked, id : Ids]
    BY <1>1, <1>5, PageFields DEF Confirm
  <2>2. d.kind \in Buttons /\ d.kind # "create" /\ d.id \in Ids
    BY <2>1, Kinds
  <2>3. Set(t, new) /\ Send(t, d.kind, d.id)
    BY <1>5 DEF Confirm
  <2> HIDE DEF d
  <2>4. new \in Pages
    BY <1>1, <2>2, PageSet
  <2> HIDE DEF new
  <2>5. page' \in [env.tabs -> Pages]
    BY <2>3, <2>4, SetTyped
  <2>6. stale' \subseteq env.tabs /\ acts' \in 0..env.acts
    BY <1>1, <1>5, ActsTyped DEF Confirm, Excused
  <2>7. \E k \in Calls : /\ k.step = "sent" /\ k.tab = t /\ k.view = page[t].view
                         /\ calls' = calls \cup {k}
    BY <2>2, <2>3, SendAdds
  <2> QED
  BY <1>1, <1>5, <2>5, <2>6, <2>7 DEF Confirm, Clicked
<1>6. CASE CloseDialog(t)
  <2> DEFINE new == [page[t] EXCEPT !.dialog = None]
  <2>1. new \in Pages /\ Set(t, new)
    BY <1>1, <1>6, PageSet DEF CloseDialog
  <2> HIDE DEF new
  <2>2. page' \in [env.tabs -> Pages]
    BY <2>1, SetTyped
  <2> QED
  BY <1>1, <1>6, <2>2 DEF CloseDialog, Clicked
<1>7. CASE OpenModal(t)
  <2> DEFINE new == [page[t] EXCEPT !.modal = TRUE]
  <2>1. new \in Pages /\ Set(t, new)
    BY <1>1, <1>7, PageSet DEF OpenModal
  <2> HIDE DEF new
  <2>2. page' \in [env.tabs -> Pages]
    BY <2>1, SetTyped
  <2> QED
  BY <1>1, <1>7, <2>2, ActsTyped DEF OpenModal, Clicked
<1>8. CASE CloseModal(t)
  <2> DEFINE new == [page[t] EXCEPT !.modal = FALSE]
  <2>1. new \in Pages /\ Set(t, new)
    BY <1>1, <1>8, PageSet DEF CloseModal
  <2> HIDE DEF new
  <2>2. page' \in [env.tabs -> Pages]
    BY <2>1, SetTyped
  <2> QED
  BY <1>1, <1>8, <2>2 DEF CloseModal, Clicked
<1>9. CASE SubmitModal(t)
  <2> DEFINE new == [page[t] EXCEPT !.pending = TRUE]
  <2>1. new \in Pages /\ Set(t, new) /\ Send(t, "create", None)
    BY <1>1, <1>9, PageSet DEF SubmitModal
  <2> HIDE DEF new
  <2>2. page' \in [env.tabs -> Pages]
    BY <2>1, SetTyped
  <2>3. \E k \in Calls : /\ k.step = "sent" /\ k.tab = t /\ k.view = page[t].view
                         /\ calls' = calls \cup {k}
    BY <2>1, SendAdds
  <2> QED
  BY <1>1, <1>9, <2>2, <2>3, ActsTyped DEF SubmitModal, Clicked
<1>10. ASSUME NEW i \in Ids, OpenProject(t, i) PROVE Clicked(t)
  <2> DEFINE new == [page[t] EXCEPT !.at = i, !.loads = {}]
  <2>1. new \in Pages /\ Set(t, new)
    BY <1>1, <1>10, PageSet DEF OpenProject
  <2> HIDE DEF new
  <2>2. page' \in [env.tabs -> Pages]
    BY <2>1, SetTyped
  <2> QED
  BY <1>1, <1>10, <2>2, ActsTyped DEF OpenProject, Clicked
<1>11. CASE RequestLogout(t)
  <2> DEFINE new == [page[t] EXCEPT !.at = "login", !.loads = {}]
  <2>1. new \in Pages /\ Set(t, new)
    BY <1>1, <1>11, PageSet DEF RequestLogout
  <2> HIDE DEF new
  <2>2. page' \in [env.tabs -> Pages]
    BY <2>1, SetTyped
  <2> QED
  BY <1>1, <1>11, <2>2, ActsTyped DEF RequestLogout, Clicked
<1> QED
BY <1>2, <1>3, <1>4, <1>5, <1>6, <1>7, <1>8, <1>9, <1>10, <1>11 DEF User

\* A load is answered by the server.
LEMMA LoadHandled ==
  ASSUME NEW p \in Pages, NEW l \in p.loads, NEW s \in Read, NEW R \in SUBSET Ids
  PROVE  LET m == [l EXCEPT !.step = s, !.rows = R] IN
         /\ m.gen = l.gen /\ m.view = l.view /\ m.step = s /\ m.rows = R
         /\ [p EXCEPT !.loads = (@ \ {l}) \cup {m}] \in Pages
<1> DEFINE m == [l EXCEPT !.step = s, !.rows = R]
           new == [p EXCEPT !.loads = (@ \ {l}) \cup {m}]
<1>1. p \in PageType /\ PageRight(p) /\ p.loads \in SUBSET LoadType
  BY PageFields
<1>2. m \in LoadType /\ m.gen = l.gen /\ m.view = l.view /\ m.step = s /\ m.rows = R
  BY <1>1 DEF LoadType
<1> HIDE DEF m
<1>3. new \in PageType /\ new.loads = (p.loads \ {l}) \cup {m} /\ new.gen = p.gen
      /\ new.dialog = p.dialog /\ new.loading = p.loading
  BY <1>1, <1>2 DEF PageType
<1> HIDE DEF new
<1>4. PageRight(new)
  BY <1>1, <1>2, <1>3 DEF PageRight
<1>5. new \in Pages
  BY <1>3, <1>4 DEF Pages
<1> QED
BY <1>2, <1>5 DEF m, new

LEMMA LoadDone ==
  ASSUME NEW p \in Pages, NEW l \in p.loads
  PROVE  LET rest == [p EXCEPT !.loads = @ \ {l}] IN
         /\ rest \in Pages /\ [rest EXCEPT !.loading = FALSE] \in Pages
         /\ [rest EXCEPT !.list = l.rows, !.loading = FALSE] \in Pages
<1> DEFINE rest == [p EXCEPT !.loads = @ \ {l}]
           shown == [rest EXCEPT !.loading = FALSE]
           read == [rest EXCEPT !.list = l.rows, !.loading = FALSE]
<1>1. p \in PageType /\ p.loads \in SUBSET LoadType /\ (p.dialog = None \/ ~p.loading)
  BY PageFields DEF PageRight
<1>2. l.rows \in SUBSET Ids
  BY <1>1 DEF LoadType
<1>3. rest \in PageType /\ rest.loads = p.loads \ {l} /\ rest.gen = p.gen
      /\ rest.dialog = p.dialog /\ rest.loading = p.loading
  BY <1>1 DEF PageType
<1>4. shown \in PageType /\ shown.loads = p.loads \ {l} /\ shown.gen = p.gen
      /\ ~shown.loading
  BY <1>1 DEF PageType
<1>5. read \in PageType /\ read.loads = p.loads \ {l} /\ read.gen = p.gen
      /\ ~read.loading
  BY <1>1, <1>2 DEF PageType
<1> HIDE DEF rest, shown, read
<1>6. rest \in Pages
  BY <1>1, <1>3, PageLike
<1>7. shown \in Pages
  BY <1>4, PageLike
<1>8. read \in Pages
  BY <1>5, PageLike
<1> QED
BY <1>6, <1>7, <1>8 DEF rest, shown, read

\* An answer takes its call away, or makes it the reading of the list.
Replied(c) ==
  /\ page' \in [env.tabs -> Pages] /\ stale' \subseteq env.tabs
  /\ c.step \in {"done", "failed"} \cup Read
  /\ \/ calls' = calls \ {c}
     \/ \E d \in Calls : /\ d.step = "reading" /\ Follows(c, d)
                         /\ calls' = (calls \ {c}) \cup {d}

LEMMA ShowsTyped ==
  ASSUME Typed, NEW c \in calls, NEW new \in Pages, Shows(c, new)
  PROVE  page' \in [env.tabs -> Pages]
<1>1. c.tab \in env.tabs
  BY CallFields DEF Typed
<1> QED
BY <1>1 DEF Typed, Shows

LEMMA AnswerReplies ==
  ASSUME Typed, NEW c \in calls, Answer(c)
  PROVE  Replied(c)
<1>1. c \in Calls /\ CallRight(c) /\ c.tab \in env.tabs /\ c.rows \in SUBSET Ids
  BY CallFields DEF Typed
<1>2. page[c.tab] \in Pages /\ token \in BOOLEAN /\ stale \subseteq env.tabs
  BY <1>1 DEF Typed
<1>3. CASE CommandDone(c)
  <2> DEFINE new == [page[c.tab] EXCEPT !.dialog = IF c.kind \in Asked THEN None ELSE @]
             d == [c EXCEPT !.step = "reading", !.auth = token]
  <2>1. c.step = "done" /\ c.kind \notin Downloads \cup {"create"} /\ Shows(c, new)
        /\ calls' = (calls \ {c}) \cup {d} /\ UNCHANGED stale
    BY <1>3 DEF CommandDone
  <2>2. d \in Calls /\ Follows(c, d) /\ d.step = "reading"
    BY <1>1, <1>2, <2>1, CallReload
  <2>3. [page[c.tab] EXCEPT !.dialog = None] \in Pages
    BY <1>2, PageSet
  <2>4. [page[c.tab] EXCEPT !.dialog = @] = page[c.tab]
    BY <1>2, PageFields DEF PageType
  <2>5. new \in Pages
    BY <1>2, <2>3, <2>4
  <2> HIDE DEF d, new
  <2>6. page' \in [env.tabs -> Pages]
    BY <2>1, <2>5, ShowsTyped
  <2> QED
  BY <1>2, <2>1, <2>2, <2>6 DEF Replied
<1>4. CASE DownloadDone(c)
  <2> DEFINE new == [page[c.tab] EXCEPT !.busy = None]
  <2>1. Shows(c, new) /\ new \in Pages
    BY <1>2, <1>4, PageSet DEF DownloadDone
  <2> HIDE DEF new
  <2>2. page' \in [env.tabs -> Pages]
    BY <2>1, ShowsTyped
  <2> QED
  BY <1>2, <1>4, <2>2 DEF DownloadDone, Replied, Ends
<1>5. CASE CreateDone(c)
  <2> DEFINE new == [page[c.tab] EXCEPT !.modal = FALSE, !.pending = FALSE, !.at = c.made, !.loads = {}]
  <2>1. c.made \in Ids
    BY <1>1, <1>5 DEF CreateDone, CallRight
  <2>2. new \in Pages
    BY <1>2, <2>1, PageSet
  <2>3. page' = [page EXCEPT ![c.tab] = new]
    BY <1>5 DEF CreateDone
  <2> HIDE DEF new
  <2>4. page' \in [env.tabs -> Pages]
    BY <1>1, <2>2, <2>3 DEF Typed
  <2> QED
  BY <1>2, <1>5, <2>4 DEF CreateDone, Replied, Ends
<1>6. CASE CommandFails(c)
  <2>1. /\ [page[c.tab] EXCEPT !.pending = FALSE] \in Pages
        /\ [page[c.tab] EXCEPT !.busy = None] \in Pages
    BY <1>2, PageSet
  <2>2. \E new \in Pages : Shows(c, new)
    BY <1>6, <2>1 DEF CommandFails
  <2>3. page' \in [env.tabs -> Pages]
    BY <2>2, ShowsTyped
  <2> QED
  BY <1>1, <1>2, <1>6, <2>3 DEF CommandFails, Replied, Ends, Excused
<1>7. CASE ReloadAnswer(c)
  <2> DEFINE R == IF c.step = "unread" THEN page[c.tab].list ELSE c.rows
             new == [page[c.tab] EXCEPT !.busy = None, !.list = R]
             gone == [new EXCEPT !.at = c.made, !.loads = {}]
  <2>1. R \in SUBSET Ids
    BY <1>1, <1>2, PageFields
  <2>2. new = [page[c.tab] EXCEPT !.busy = None, !.list = IF c.step = "unread" THEN @ ELSE c.rows]
    BY <1>2, PageFields DEF PageType
  <2>3. new \in Pages
    BY <1>2, <2>1, PageSet
  <2>4. c.kind = "duplicate" => c.made \in Ids
    BY <1>1, <1>7 DEF ReloadAnswer, CallRight, Read
  <2> HIDE DEF new
  <2>5. c.kind = "duplicate" => gone \in Pages
    BY <2>3, <2>4, PageSet
  <2>6. IF c.kind = "duplicate" THEN page' = [page EXCEPT ![c.tab] = gone] ELSE Shows(c, new)
    BY <1>7, <2>2 DEF ReloadAnswer
  <2> HIDE DEF gone
  <2>7. page' \in [env.tabs -> Pages]
    BY <1>1, <2>3, <2>5, <2>6, ShowsTyped DEF Typed
  <2> QED
  BY <1>1, <1>2, <1>7, <2>7 DEF ReloadAnswer, Replied, Ends, Excused
<1> QED
BY <1>3, <1>4, <1>5, <1>6, <1>7 DEF Answer

LEMMA LoadTyped ==
  ASSUME Typed, NEW t \in env.tabs, NEW l \in page[t].loads, HandleLoad(t, l) \/ LoadAnswer(t, l)
  PROVE  /\ page' \in [env.tabs -> Pages] /\ faults' \in 0..env.faults /\ stale' \subseteq env.tabs
         /\ UNCHANGED <<proj, token, calls, acts, kept, raced>>
<1>1. page[t] \in Pages /\ stale \subseteq env.tabs /\ faults \in 0..env.faults /\ env.faults \in Nat
  BY IdsAssumption DEF Typed
<1>2. CASE HandleLoad(t, l)
  <2>1. PICK s \in Read, R \in SUBSET Listed(l.view) :
         /\ Lists(l.view, token, s, R)
         /\ Set(t, [page[t] EXCEPT !.loads = (@ \ {l}) \cup
                                             {[l EXCEPT !.step = s, !.rows = R]}])
    BY <1>2 DEF HandleLoad, Read
  <2> DEFINE new == [page[t] EXCEPT !.loads = (@ \ {l}) \cup {[l EXCEPT !.step = s, !.rows = R]}]
  <2>2. R \in SUBSET Ids /\ faults' \in 0..env.faults
    BY <2>1, ListsTyped
  <2>3. Set(t, new)
    BY <2>1
  <2>4. new \in Pages
    BY <1>1, <2>2, LoadHandled
  <2> HIDE DEF new
  <2>5. page' \in [env.tabs -> Pages]
    BY <2>3, <2>4, SetTyped
  <2> QED
  BY <1>1, <1>2, <2>2, <2>5 DEF HandleLoad
<1>3. CASE LoadAnswer(t, l)
  <2> DEFINE rest == [page[t] EXCEPT !.loads = @ \ {l}]
  <2>1. /\ rest \in Pages /\ [rest EXCEPT !.loading = FALSE] \in Pages
        /\ [rest EXCEPT !.list = l.rows, !.loading = FALSE] \in Pages
    BY <1>1, LoadDone
  <2>2. \/ Set(t, rest) \/ Set(t, [rest EXCEPT !.loading = FALSE])
        \/ Set(t, [rest EXCEPT !.list = l.rows, !.loading = FALSE])
    BY <1>3 DEF LoadAnswer
  <2>3. \E new \in Pages : Set(t, new)
    BY <2>1, <2>2
  <2>4. page' \in [env.tabs -> Pages]
    BY <2>3, SetTyped
  <2> QED
  BY <1>1, <1>3, <2>4 DEF LoadAnswer, Excused
<1> QED
BY <1>2, <1>3

\* What a handler leaves of the projects and of the history.
LEMMA OutcomeTyped ==
  ASSUME Typed, NEW c \in calls, NEW d, Moved(c, d)
  PROVE  proj' \in [Ids -> Row \cup {Unmade, Gone}] /\ kept' \cup raced' \subseteq Ids
<1>1. proj \in [Ids -> Row \cup {Unmade, Gone}] /\ kept \cup raced \subseteq Ids
  BY DEF Typed
<1>2. c \in Calls /\ c.id \in Ids \cup {None} /\ CallRight(c)
  BY CallFields DEF Typed
<1>3. CASE Same
  BY <1>1, <1>3 DEF Same
<1>4. CASE /\ c.kind \in Updates /\ IsRow(c.id)
           /\ proj' = [proj EXCEPT ![c.id] = Updated(c.kind, @)]
           /\ kept' = CASE c.kind = "restore" -> kept \cup {c.id}
                        [] c.kind = "trash" -> kept \ {c.id}
                        [] OTHER -> kept
           /\ raced' = IF c.kind = "restore" /\ \E e \in calls : MayDelete(e, c.id)
                       THEN raced \cup {c.id} ELSE raced
  <2>1. c.id \in Ids
    BY <1>2, <1>4, Kinds DEF CallRight
  <2>2. proj[c.id] \in Row
    BY <1>4 DEF IsRow
  <2>3. Updated(c.kind, proj[c.id]) \in Row
    BY <1>4, <2>2 DEF Updates, Updated, Row
  <2>4. kept' \subseteq Ids
    BY <1>1, <1>4, <2>1
  <2>5. raced' \subseteq Ids
    BY <1>1, <1>4, <2>1
  <2> QED
  BY <1>1, <1>4, <2>1, <2>3, <2>4, <2>5
<1>5. CASE UNCHANGED <<kept, raced>> /\ \E i \in Ids : proj' = [proj EXCEPT ![i] = Gone]
  BY <1>1, <1>5
<1>6. CASE /\ d.made \in Ids /\ proj' = [proj EXCEPT ![d.made] = NewRow] /\ UNCHANGED <<kept, raced>>
  BY <1>1, <1>6 DEF NewRow, Row
<1> QED
BY <1>3, <1>4, <1>5, <1>6 DEF Moved, Outcome

\* The steps of the system, one at a time.
LEMMA NextCases ==
  ASSUME Next
  PROVE  /\ UNCHANGED env
         /\ \/ \E t \in env.tabs : User(t)
            \/ \E c \in calls : Handle(c) /\ UNCHANGED <<token, page, acts, stale>>
            \/ \E t \in env.tabs : \E l \in page[t].loads : HandleLoad(t, l) \/ LoadAnswer(t, l)
            \/ \E c \in calls : Answer(c) /\ UNCHANGED <<proj, token, acts, faults, kept, raced>>
BY DEF Next, Server, Browser

LEMMA TypedNext ==
  ASSUME Typed, [Next]_<<vars, env>> PROVE Typed'
<1>0. /\ proj \in [Ids -> Row \cup {Unmade, Gone}] /\ token \in BOOLEAN /\ acts \in 0..env.acts
      /\ faults \in 0..env.faults /\ page \in [env.tabs -> Pages] /\ calls \subseteq Calls
      /\ kept \cup raced \subseteq Ids /\ stale \subseteq env.tabs
  BY DEF Typed
<1>1. ASSUME UNCHANGED env, NEW t \in env.tabs, User(t) PROVE Typed'
  <2>1. Clicked(t)
    BY <1>1, UserClicks
  <2>2. calls' \subseteq Calls
    BY <1>0, <2>1 DEF Clicked
  <2> QED
  BY <1>0, <1>1, <2>1, <2>2, TypedAgain DEF Clicked
<1>2. ASSUME UNCHANGED env, NEW c \in calls, Handle(c), UNCHANGED <<token, page, acts, stale>> PROVE Typed'
  <2>1. PICK d : Moved(c, d)
    BY <1>2, HandleMoves
  <2>2. proj' \in [Ids -> Row \cup {Unmade, Gone}] /\ kept' \cup raced' \subseteq Ids
    BY <2>1, OutcomeTyped
  <2>3. calls' \subseteq Calls /\ faults' \in 0..env.faults
    BY <1>0, <2>1 DEF Moved
  <2> QED
  BY <1>0, <1>2, <2>2, <2>3, TypedAgain
<1>3. ASSUME UNCHANGED env, NEW t \in env.tabs, NEW l \in page[t].loads, HandleLoad(t, l) \/ LoadAnswer(t, l)
      PROVE  Typed'
  <2>1. /\ page' \in [env.tabs -> Pages] /\ faults' \in 0..env.faults /\ stale' \subseteq env.tabs
        /\ UNCHANGED <<proj, token, calls, acts, kept, raced>>
    BY <1>3, LoadTyped
  <2> QED
  BY <1>0, <1>3, <2>1, TypedAgain
<1>4. ASSUME UNCHANGED env, NEW c \in calls, Answer(c), UNCHANGED <<proj, token, acts, faults, kept, raced>>
      PROVE  Typed'
  <2>1. Replied(c)
    BY <1>4, AnswerReplies
  <2>2. calls' \subseteq Calls
    BY <1>0, <2>1 DEF Replied
  <2> QED
  BY <1>0, <1>4, <2>1, <2>2, TypedAgain DEF Replied
<1>5. CASE UNCHANGED <<vars, env>>
  BY <1>0, <1>5, TypedAgain DEF vars
<1> QED
BY <1>1, <1>2, <1>3, <1>4, <1>5, NextCases

LEMMA InitTyped == ASSUME Init PROVE Typed
<1>1. Fresh \in PageType
  BY DEF Fresh, PageType, LoadType, Views
<1>2. PageRight(Fresh)
  BY DEF Fresh, PageRight
<1>3. Fresh \in Pages
  BY <1>1, <1>2 DEF Pages
<1>4. proj \in [Ids -> Row \cup {Unmade, Gone}]
  BY DEF Init, Row
<1>5. env \in Envs /\ env.acts \in Nat /\ env.faults \in Nat
  BY IdsAssumption DEF Init
<1>6. page \in [env.tabs -> Pages]
  BY <1>3 DEF Init
<1> QED
BY <1>4, <1>5, <1>6 DEF Init, Typed

LEMMA PageIsTyped == Spec => []Typed
BY InitTyped, TypedNext, PTL DEF Spec

LEMMA TypedOK == ASSUME Typed PROVE TypeOK
<1>1. ASSUME NEW t \in env.tabs
      PROVE  /\ page[t].at \in Ids \cup {"list", "login"}
             /\ page[t].view \in Views /\ page[t].list \subseteq Ids
             /\ page[t].busy \in Ids \cup {None}
             /\ \A l \in page[t].loads : l.gen \in 1..page[t].gen /\ l.view \in Views
  <2>1. page[t] \in Pages
    BY DEF Typed
  <2>2. /\ page[t].loads \in SUBSET LoadType /\ page[t].gen \in Nat
        /\ \A l \in page[t].loads : 1 <= l.gen /\ l.gen <= page[t].gen
    BY <2>1, PageFields DEF PageRight
  <2>3. \A l \in page[t].loads : l.gen \in 1..page[t].gen /\ l.view \in Views
    BY <2>2 DEF LoadType
  <2> QED
  BY <2>1, <2>3, PageFields
<1>2. \A c \in calls : c.step \in Steps /\ c.kind \in Buttons \cup {"create"}
  BY CallFields DEF Typed
<1> QED
BY <1>1, <1>2 DEF Typed, TypeOK

\* The page, the calls and the projects keep their types: in particular every load under way has a
\* generation the tab has reached, whatever was clicked, answered or lost.
THEOREM PageTypes == Spec => []TypeOK
BY PageIsTyped, TypedOK, PTL

-----------------------------------------------------------------------------
(* A restored project. No call under way may delete it: a deletion that    *)
(* has looked at the project found it deleted, and what fills a copy has   *)
(* made it itself.                                                         *)

Spared ==
  /\ \A i \in kept \ raced : IsRow(i) /\ ~proj[i].deleted
  /\ \A c \in calls, i \in kept \ raced : ~MayDelete(c, i)

LEMMA SparedHandled ==
  ASSUME Typed, Spared, NEW c \in calls, NEW d, Moved(c, d)
  PROVE  Spared'
<1>1. proj \in [Ids -> Row \cup {Unmade, Gone}] /\ kept \cup raced \subseteq Ids
  BY DEF Typed
<1>2. c \in Calls /\ CallRight(c) /\ d \in Calls /\ CallRight(d) /\ Follows(c, d)
      /\ calls' = (calls \ {c}) \cup {d}
  BY CallFields DEF Typed, Moved
<1>3. \A i \in kept \ raced : IsRow(i) /\ ~proj[i].deleted /\ i \in Ids
  BY <1>1 DEF Spared
<1>4. \A e \in calls, i \in kept \ raced : ~MayDelete(e, i)
  BY DEF Spared
<1>5. \A e \in calls' : e = d \/ e \in calls
  BY <1>2
<1>6. CASE /\ Same
           /\ \/ d.step \in {"done", "failed", "part", "unread"}
              \/ d.step = "checked" /\ IsRow(c.id) /\ proj[c.id].deleted
              \/ d.step = "read" /\ d.rows = Listed(c.view)
  <2>1. \A i \in kept \ raced : ~MayDelete(d, i)
    BY <1>2, <1>3, <1>6 DEF MayDelete, Follows
  <2>2. \A e \in calls', i \in kept \ raced : ~MayDelete(e, i)
    BY <1>4, <1>5, <2>1
  <2>3. kept' = kept /\ raced' = raced /\ proj' = proj
    BY <1>6 DEF Same
  <2> QED
  BY <1>3, <2>2, <2>3 DEF Spared, MayDelete, IsRow
<1>7. CASE /\ d.step \in {"done", "failed"} /\ c.kind \in Updates
           /\ IsRow(c.id) /\ Ready(c.kind, proj[c.id])
           /\ proj' = [proj EXCEPT ![c.id] = Updated(c.kind, @)]
           /\ kept' = CASE c.kind = "restore" -> kept \cup {c.id}
                        [] c.kind = "trash" -> kept \ {c.id}
                        [] OTHER -> kept
           /\ raced' = IF c.kind = "restore" /\ \E e \in calls : MayDelete(e, c.id)
                       THEN raced \cup {c.id} ELSE raced
  <2>1. c.id \in Ids /\ proj[c.id] \in Row
    BY <1>2, <1>7, Kinds DEF CallRight, IsRow
  <2>2. \A i : ~MayDelete(d, i)
    BY <1>7 DEF MayDelete
  <2>3. /\ proj'[c.id] = Updated(c.kind, proj[c.id])
        /\ \A i \in Ids : i # c.id => proj'[i] = proj[i]
    BY <1>1, <1>7, <2>1
  <2>4. CASE c.kind = "restore"
    <3>1. kept' = kept \cup {c.id} /\ raced \subseteq raced'
          /\ (c.id \in raced' \/ \A e \in calls : ~MayDelete(e, c.id))
      BY <1>7, <2>4
    <3>2. proj'[c.id] \in Row /\ ~proj'[c.id].deleted
      BY <2>1, <2>3, <2>4 DEF Updated, Row
    <3>3. \A i \in kept' \ raced' : i = c.id \/ i \in kept \ raced
      BY <3>1
    <3>4. \A i \in kept' \ raced' : proj'[i] \in Row /\ ~proj'[i].deleted
      BY <1>3, <2>3, <3>2, <3>3 DEF IsRow
    <3>5. \A e \in calls', i \in kept' \ raced' : ~MayDelete(e, i)
      BY <1>4, <1>5, <2>2, <3>1, <3>3
    <3> QED
    BY <3>4, <3>5 DEF Spared, MayDelete, IsRow
  <2>5. CASE c.kind = "trash"
    <3>1. kept' = kept \ {c.id} /\ raced' = raced
      BY <1>7, <2>5
    <3>2. \A i \in kept' \ raced' : i # c.id /\ i \in kept \ raced
      BY <3>1
    <3>3. \A i \in kept' \ raced' : proj'[i] \in Row /\ ~proj'[i].deleted
      BY <1>3, <2>3, <3>2 DEF IsRow
    <3>4. \A e \in calls', i \in kept' \ raced' : ~MayDelete(e, i)
      BY <1>4, <1>5, <2>2, <3>2
    <3> QED
    BY <3>3, <3>4 DEF Spared, MayDelete, IsRow
  <2>6. CASE c.kind \in {"archive", "unarchive"}
    <3>1. kept' = kept /\ raced' = raced
      BY <1>7, <2>6
    <3>2. proj'[c.id] \in Row /\ proj'[c.id].deleted = proj[c.id].deleted
      BY <2>1, <2>3, <2>6 DEF Updated, Row
    <3>3. \A i \in kept' \ raced' : proj'[i] \in Row /\ ~proj'[i].deleted
      BY <1>3, <2>3, <3>1, <3>2 DEF IsRow
    <3>4. \A e \in calls', i \in kept' \ raced' : ~MayDelete(e, i)
      BY <1>4, <1>5, <2>2, <3>1
    <3> QED
    BY <3>3, <3>4 DEF Spared, MayDelete, IsRow
  <2> QED
  BY <1>7, <2>4, <2>5, <2>6 DEF Updates
<1>8. CASE /\ d.step \in {"done", "failed"} /\ UNCHANGED <<kept, raced>>
           /\ \E i \in Ids : MayDelete(c, i) /\ proj' = [proj EXCEPT ![i] = Gone]
  <2>1. PICK j \in Ids : MayDelete(c, j) /\ proj' = [proj EXCEPT ![j] = Gone]
    BY <1>8
  <2>2. \A i \in kept \ raced : i # j
    BY <1>4, <2>1
  <2>3. \A i \in kept \ raced : proj'[i] \in Row /\ ~proj'[i].deleted
    BY <1>1, <1>3, <2>1, <2>2 DEF IsRow
  <2>4. \A i : ~MayDelete(d, i)
    BY <1>8 DEF MayDelete
  <2>5. \A e \in calls', i \in kept \ raced : ~MayDelete(e, i)
    BY <1>4, <1>5, <2>4
  <2> QED
  BY <1>8, <2>3, <2>5 DEF Spared, MayDelete, IsRow
<1>9. CASE /\ d.step = "filling" /\ d.made \in Ids /\ proj[d.made] = Unmade
           /\ proj' = [proj EXCEPT ![d.made] = NewRow] /\ UNCHANGED <<kept, raced>>
  <2>1. \A i \in kept \ raced : i # d.made
    BY <1>3, <1>9, IdsAssumption DEF IsRow
  <2>2. \A i \in kept \ raced : proj'[i] \in Row /\ ~proj'[i].deleted
    BY <1>1, <1>3, <1>9, <2>1 DEF IsRow
  <2>3. \A i \in kept \ raced : ~MayDelete(d, i)
    BY <1>9, <2>1 DEF MayDelete
  <2>4. \A e \in calls', i \in kept \ raced : ~MayDelete(e, i)
    BY <1>4, <1>5, <2>3
  <2> QED
  BY <1>9, <2>2, <2>4 DEF Spared, MayDelete, IsRow
<1> QED
BY <1>6, <1>7, <1>8, <1>9 DEF Moved, Outcome

\* A step that changes no project, and after which no call may delete that could not before.
LEMMA SparedStill ==
  ASSUME Spared, UNCHANGED <<proj, kept, raced>>,
         \A e \in calls' : e \in calls \/ e.step \notin {"checked", "filling"}
  PROVE  Spared'
<1>1. \A e \in calls', i \in kept \ raced : ~MayDelete(e, i)
  BY DEF Spared, MayDelete
<1> QED
BY <1>1 DEF Spared, MayDelete, IsRow

LEMMA SparedNext ==
  ASSUME Typed, Spared, [Next]_<<vars, env>> PROVE Spared'
<1>1. ASSUME NEW t \in env.tabs, User(t) PROVE Spared'
  <2>1. Clicked(t)
    BY <1>1, UserClicks
  <2> QED
  BY <2>1, SparedStill DEF Clicked
<1>2. ASSUME NEW c \in calls, Handle(c) PROVE Spared'
  BY <1>2, HandleMoves, SparedHandled
<1>3. ASSUME NEW t \in env.tabs, NEW l \in page[t].loads, HandleLoad(t, l) \/ LoadAnswer(t, l)
      PROVE  Spared'
  BY <1>3, LoadTyped, SparedStill
<1>4. ASSUME NEW c \in calls, Answer(c), UNCHANGED <<proj, token, acts, faults, kept, raced>>
      PROVE  Spared'
  <2>1. Replied(c)
    BY <1>4, AnswerReplies
  <2>2. \A e \in calls' : e \in calls \/ e.step \notin {"checked", "filling"}
    BY <2>1 DEF Replied
  <2> QED
  BY <1>4, <2>2, SparedStill
<1>5. CASE UNCHANGED <<vars, env>>
  BY <1>5, SparedStill DEF vars
<1> QED
BY <1>1, <1>2, <1>3, <1>4, <1>5, NextCases

LEMMA InitSpared == ASSUME Init PROVE Spared
BY DEF Init, Spared

LEMMA SparedStays == ASSUME Spared PROVE RestoredStays
BY DEF Spared, RestoredStays

\* A project that was restored is there as long as it is not trashed again, whatever dialogs other
\* tabs still have open over the trash: handleDeleteProject deletes what it found deleted. Excepted
\* are the two races the history names, a deletion between its two statements and a copy whose
\* files are still being stored.
THEOREM RestoredAreSpared == Spec => []RestoredStays
<1>1. Spec => [](Typed /\ Spared)
  BY InitTyped, TypedNext, InitSpared, SparedNext, PTL DEF Spec
<1> QED
BY <1>1, SparedStays, PTL

-----------------------------------------------------------------------------
(* What a page shows. While the list of a view is loading no command of    *)
(* the tab is under way, and the load of the newest generation has the     *)
(* rows of the view; once it is shown, one command at most is under way,   *)
(* and the rows it reads again are those of the view.                      *)

Rows(f, v) == {i \in Ids : f[i] \in Row /\
    CASE v = "all" -> ~f[i].deleted /\ ~f[i].archived
      [] v = "mine" -> i \in Owned /\ ~f[i].deleted /\ ~f[i].archived
      [] v = "shared" -> i \notin Owned /\ ~f[i].deleted /\ ~f[i].archived
      [] v = "archived" -> i \in Owned /\ f[i].archived /\ ~f[i].deleted
      [] v = "trash" -> i \in Owned /\ f[i].deleted}

Commands(C) == {c \in C : c.kind \notin Downloads}

LoadingRight(p, W, f) ==
  /\ W = {}
  /\ \A l \in p.loads : l.gen = p.gen =>
       l.view = p.view /\ (l.step = "read" => l.rows = Rows(f, p.view))

ShownRight(p, W, f) ==
  /\ \A l \in p.loads : l.gen # p.gen
  /\ \A c, d \in W : c = d
  /\ \A c \in W : c.view = p.view /\ (c.step = "read" => c.rows = Rows(f, p.view))
  /\ W = {} => p.list = Rows(f, p.view)

Right(p, W, f) == IF p.loading THEN LoadingRight(p, W, f) ELSE ShownRight(p, W, f)

\* Whether the code keeps the list of a tab right, the commands of a new project aside: they
\* end in another page or in a failure.
Follower(t) == page[t].at = "list" /\ t \notin stale /\ \A c \in calls : c.kind # "create"

Shown == \A t \in env.tabs :
  env.tabs = {t} => (Follower(t) => Right(page[t], Commands(calls), proj))

\* The rows that are listed are a function of the projects.
LEMMA ListedRows ==
  ASSUME NEW v PROVE Listed(v) = Rows(proj, v)
BY DEF Listed, Rows, IsRow

\* What does not touch the list nor its loads.
LEMMA RightSame ==
  ASSUME NEW p, NEW q, NEW W, NEW f, Right(p, W, f),
         q.view = p.view, q.list = p.list, q.loading = p.loading, q.gen = p.gen, q.loads = p.loads
  PROVE  Right(q, W, f)
BY DEF Right, LoadingRight, ShownRight

\* A command of the view shown is sent, when none is under way.
LEMMA RightSent ==
  ASSUME NEW p, NEW q, NEW C, NEW k, NEW f, Right(p, Commands(C), f), Commands(C) = {}, ~p.loading,
         q.view = p.view, q.list = p.list, q.loading = p.loading, q.gen = p.gen, q.loads = p.loads,
         k.view = p.view, k.step = "sent"
  PROVE  Right(q, Commands(C \cup {k}), f)
<1>1. ShownRight(p, {}, f)
  BY DEF Right
<1>2. Commands(C \cup {k}) = {} \/ Commands(C \cup {k}) = {k}
  BY DEF Commands
<1>3. ShownRight(q, Commands(C \cup {k}), f)
  BY <1>1, <1>2 DEF ShownRight
<1> QED
BY <1>3 DEF Right

LEMMA UserShows ==
  ASSUME Typed, NEW t, env.tabs = {t}, User(t), Follower(t)',
         Follower(t) => Right(page[t], Commands(calls), proj)
  PROVE  Right(page'[t], Commands(calls'), proj')
<1> DEFINE p == page[t]
           q == page'[t]
<1>1. /\ p \in Pages /\ p \in PageType /\ PageRight(p) /\ p.gen \in Nat /\ p.loads \in SUBSET LoadType
      /\ t \in env.tabs /\ page \in [env.tabs -> Pages]
  BY PageFields DEF Typed
<1>2. q.at = "list" /\ t \notin stale' /\ \A c \in calls' : c.kind # "create"
  BY DEF Follower
<1>3. Writes(t) = Commands(calls)
  BY CallFields DEF Writes, Of, Commands, Typed
<1>4. ASSUME NEW v \in Views, SwitchView(t, v) PROVE Right(q, Commands(calls'), proj')
  <2> DEFINE g == p.gen + 1
             l == [gen |-> g, view |-> v, step |-> "sent", rows |-> {}]
  <2>1. q = [p EXCEPT !.view = v, !.loading = TRUE, !.gen = g, !.loads = @ \cup {l}]
        /\ calls' = calls
    BY <1>1, <1>4 DEF SwitchView, Set
  <2>2. q.view = v /\ q.loading /\ q.gen = g /\ q.loads = p.loads \cup {l}
    BY <1>1, <2>1 DEF PageType
  <2>3. Writes(t) = {}
    BY <1>2, <1>4 DEF SwitchView, Excused
  <2>4. l.gen = g /\ l.view = v /\ l.step = "sent" /\ g = p.gen + 1
    OBVIOUS
  <2> HIDE DEF l, g
  <2>5. \A m \in p.loads : m.gen # g
    BY <1>1, <2>4 DEF PageRight, LoadType
  <2>6. LoadingRight(q, Commands(calls'), proj')
    BY <1>3, <2>1, <2>2, <2>3, <2>4, <2>5 DEF LoadingRight
  <2> QED
  BY <2>2, <2>6 DEF Right
<1>5. ASSUME NEW b \in Buttons, NEW i \in Ids, Press(t, b, i) PROVE Right(q, Commands(calls'), proj')
  <2>1. /\ Send(t, b, i) /\ page' = [page EXCEPT ![t] = [p EXCEPT !.busy = i]] /\ ~p.loading
        /\ IF Writes(t) = {} THEN UNCHANGED stale ELSE Excused(t)
        /\ UNCHANGED proj
    BY <1>5 DEF Press, Set, Enabled
  <2>2. q = [p EXCEPT !.busy = i]
    BY <1>1, <2>1
  <2>3. /\ q.view = p.view /\ q.list = p.list /\ q.loading = p.loading /\ q.gen = p.gen
        /\ q.loads = p.loads /\ q.at = p.at
    BY <1>1, <2>2 DEF PageType
  <2>4. PICK k \in Calls : k.step = "sent" /\ k.tab = t /\ k.view = p.view /\ calls' = calls \cup {k}
    BY <1>1, <2>1, SendAdds, Kinds
  <2>5. Writes(t) = {} /\ stale' = stale
    BY <1>2, <2>1 DEF Excused
  <2>6. Follower(t)
    BY <1>2, <2>3, <2>4, <2>5 DEF Follower
  <2> HIDE DEF p, q
  <2>7. Right(p, Commands(calls), proj)
    BY <2>6 DEF p
  <2>8. Right(q, Commands(calls \cup {k}), proj)
    BY <1>3, <2>1, <2>3, <2>4, <2>5, <2>7, RightSent
  <2> QED
  BY <2>1, <2>4, <2>8
<1>6. CASE Confirm(t)
  <2>1. /\ Send(t, p.dialog.kind, p.dialog.id) /\ p.dialog # None
        /\ page' = [page EXCEPT ![t] = [p EXCEPT !.busy = p.dialog.id]]
        /\ IF Writes(t) = {} THEN UNCHANGED stale ELSE Excused(t)
        /\ UNCHANGED proj
    BY <1>6 DEF Confirm, Set
  <2>2. q = [p EXCEPT !.busy = p.dialog.id]
    BY <1>1, <2>1
  <2>3. /\ q.view = p.view /\ q.list = p.list /\ q.loading = p.loading /\ q.gen = p.gen
        /\ q.loads = p.loads /\ q.at = p.at
    BY <1>1, <2>2 DEF PageType
  <2>4. ~p.loading /\ p.dialog \in [kind : Asked, id : Ids]
    BY <1>1, <2>1, PageFields DEF PageRight
  <2>5. p.dialog.kind \in Buttons /\ p.dialog.id \in Ids /\ p.dialog.kind # "create"
    BY <2>4, Kinds
  <2>6. PICK k \in Calls : k.step = "sent" /\ k.tab = t /\ k.view = p.view /\ calls' = calls \cup {k}
    BY <1>1, <2>1, <2>5, SendAdds
  <2>7. Writes(t) = {} /\ stale' = stale
    BY <1>2, <2>1 DEF Excused
  <2>8. Follower(t)
    BY <1>2, <2>3, <2>6, <2>7 DEF Follower
  <2> HIDE DEF p, q
  <2>9. Right(p, Commands(calls), proj)
    BY <2>8 DEF p
  <2>10. Right(q, Commands(calls \cup {k}), proj)
    BY <1>3, <2>3, <2>4, <2>6, <2>7, <2>9, RightSent
  <2> QED
  BY <2>1, <2>6, <2>10 DEF q
<1>7. ASSUME q.view = p.view, q.list = p.list, q.loading = p.loading, q.gen = p.gen, q.loads = p.loads,
             q.at = p.at, UNCHANGED <<proj, calls, stale>>
      PROVE  Right(q, Commands(calls'), proj')
  <2>1. Follower(t)
    BY <1>2, <1>7 DEF Follower
  <2> HIDE DEF p, q
  <2>2. Right(p, Commands(calls), proj)
    BY <2>1 DEF p
  <2>3. Right(q, Commands(calls), proj)
    BY <1>7, <2>2, RightSame
  <2> QED
  BY <1>7, <2>3
<1>8. ASSUME NEW b \in Buttons, NEW i \in Ids, Ask(t, b, i) PROVE Right(q, Commands(calls'), proj')
  <2>1. q = [p EXCEPT !.dialog = [kind |-> b, id |-> i]] /\ UNCHANGED <<proj, calls, stale>>
    BY <1>1, <1>8 DEF Ask, Set
  <2>2. /\ q.view = p.view /\ q.list = p.list /\ q.loading = p.loading /\ q.gen = p.gen
        /\ q.loads = p.loads /\ q.at = p.at
    BY <1>1, <2>1 DEF PageType
  <2> QED
  BY <1>7, <2>1, <2>2
<1>9. CASE CloseDialog(t)
  <2>1. q = [p EXCEPT !.dialog = None] /\ UNCHANGED <<proj, calls, stale>>
    BY <1>1, <1>9 DEF CloseDialog, Set
  <2>2. /\ q.view = p.view /\ q.list = p.list /\ q.loading = p.loading /\ q.gen = p.gen
        /\ q.loads = p.loads /\ q.at = p.at
    BY <1>1, <2>1 DEF PageType
  <2> QED
  BY <1>7, <2>1, <2>2
<1>10. CASE OpenModal(t) \/ CloseModal(t)
  <2>1. (q = [p EXCEPT !.modal = TRUE] \/ q = [p EXCEPT !.modal = FALSE]) /\ UNCHANGED <<proj, calls, stale>>
    BY <1>1, <1>10 DEF OpenModal, CloseModal, Set
  <2>2. /\ q.view = p.view /\ q.list = p.list /\ q.loading = p.loading /\ q.gen = p.gen
        /\ q.loads = p.loads /\ q.at = p.at
    BY <1>1, <2>1 DEF PageType
  <2> QED
  BY <1>7, <2>1, <2>2
<1>11. ~SubmitModal(t)
  <2>1. SUFFICES ASSUME SubmitModal(t) PROVE FALSE
    OBVIOUS
  <2>2. Send(t, "create", None)
    BY <2>1 DEF SubmitModal
  <2>3. \E k \in calls' : k.kind = "create"
    BY <1>1, <2>2, SendAdds
  <2> QED
  BY <1>2, <2>3
<1>12. ASSUME NEW i \in Ids, OpenProject(t, i) PROVE FALSE
  <2>1. q.at = i
    BY <1>1, <1>12 DEF OpenProject, Set, PageType
  <2> QED
  BY <1>2, <2>1, IdsAssumption
<1>13. ~RequestLogout(t)
  <2>1. SUFFICES ASSUME RequestLogout(t) PROVE FALSE
    OBVIOUS
  <2>2. q.at = "login"
    BY <1>1, <2>1 DEF RequestLogout, Set, PageType
  <2> QED
  BY <1>2, <2>2
<1> QED
BY <1>4, <1>5, <1>6, <1>8, <1>9, <1>10, <1>11, <1>12, <1>13 DEF User

LEMMA HandlerShows ==
  ASSUME Typed, NEW t, env.tabs = {t}, NEW c \in calls, NEW d, Moved(c, d),
         UNCHANGED <<page, stale>>, Follower(t)',
         Follower(t) => Right(page[t], Commands(calls), proj)
  PROVE  Right(page'[t], Commands(calls'), proj')
<1>1. c \in Calls /\ d \in Calls /\ Follows(c, d) /\ calls' = (calls \ {c}) \cup {d}
  BY DEF Moved, Typed
<1>2. \A k \in calls : k.kind # "create"
  <2>1. \A k \in calls' : k.kind # "create"
    BY DEF Follower
  <2> QED
  BY <1>1, <2>1 DEF Follows
<1>3. Right(page[t], Commands(calls), proj)
  BY <1>2 DEF Follower
<1>4. CASE c.kind \in Downloads
  <2>1. Commands(calls') = Commands(calls)
    BY <1>1, <1>4 DEF Commands, Follows
  <2>2. proj' = proj /\ page' = page
    BY <1>4 DEF Moved, Same
  <2> QED
  BY <1>3, <2>1, <2>2
<1>5. CASE c.kind \notin Downloads
  <2>1. c \in Commands(calls)
    BY <1>5 DEF Commands
  <2>2. ShownRight(page[t], Commands(calls), proj) /\ ~page[t].loading
    BY <1>3, <2>1 DEF Right, LoadingRight
  <2>3. Commands(calls) = {c} /\ c.view = page[t].view
    BY <2>1, <2>2 DEF ShownRight
  <2>4. Commands(calls') = {d}
    BY <1>1, <1>5, <2>3 DEF Commands, Follows
  <2>5. d.step = "read" => proj' = proj /\ d.rows = Rows(proj, d.view)
    <3>1. d.step = "read" => Same /\ d.rows = Listed(c.view)
      BY DEF Moved, Outcome
    <3> QED
    BY <1>1, <3>1, ListedRows DEF Same, Follows
  <2>6. d.view = page[t].view
    BY <1>1, <2>3 DEF Follows
  <2>7. ShownRight(page[t], {d}, proj')
    BY <2>2, <2>5, <2>6 DEF ShownRight
  <2> QED
  BY <2>2, <2>4, <2>7 DEF Right
<1> QED
BY <1>4, <1>5

LEMMA LoadShows ==
  ASSUME Typed, NEW t, env.tabs = {t}, NEW l \in page[t].loads, HandleLoad(t, l) \/ LoadAnswer(t, l),
         Follower(t)', Follower(t) => Right(page[t], Commands(calls), proj)
  PROVE  Right(page'[t], Commands(calls'), proj')
<1> DEFINE p == page[t]
           q == page'[t]
<1>1. /\ p \in Pages /\ p \in PageType /\ PageRight(p) /\ p.gen \in Nat /\ p.loads \in SUBSET LoadType
      /\ t \in env.tabs /\ page \in [env.tabs -> Pages]
  BY PageFields DEF Typed
<1>2. q.at = "list" /\ t \notin stale' /\ \A c \in calls' : c.kind # "create"
  BY DEF Follower
<1>3. UNCHANGED <<proj, calls>>
  BY DEF HandleLoad, LoadAnswer
<1>4. \A m \in p.loads : m.gen = l.gen => m = l
  BY <1>1 DEF PageRight
<1> SUFFICES Right(q, Commands(calls), proj)
  BY <1>3
<1>5. CASE HandleLoad(t, l)
  <2>1. PICK s \in Read, R \in SUBSET Listed(l.view) :
         /\ Lists(l.view, token, s, R)
         /\ Set(t, [p EXCEPT !.loads = (@ \ {l}) \cup {[l EXCEPT !.step = s, !.rows = R]}])
    BY <1>5 DEF HandleLoad, Read
  <2> DEFINE m == [l EXCEPT !.step = s, !.rows = R]
  <2>2. q = [p EXCEPT !.loads = (@ \ {l}) \cup {m}]
    BY <1>1, <2>1 DEF Set
  <2>3. R \in SUBSET Ids /\ (s = "read" => R = Rows(proj, l.view))
    BY <2>1, ListedRows, ListsTyped
  <2>4. m.gen = l.gen /\ m.view = l.view /\ m.step = s /\ m.rows = R
    <3>1. l \in LoadType
      BY <1>1
    <3> QED
    BY <3>1 DEF LoadType
  <2> HIDE DEF m
  <2>5. /\ q.view = p.view /\ q.list = p.list /\ q.loading = p.loading /\ q.gen = p.gen
        /\ q.loads = (p.loads \ {l}) \cup {m} /\ q.at = p.at
    BY <1>1, <2>2 DEF PageType
  <2>6. Follower(t)
    BY <1>2, <1>3, <1>5, <2>5 DEF Follower, HandleLoad
  <2>7. Right(p, Commands(calls), proj)
    BY <2>6
  <2>8. CASE p.loading
    <3>1. LoadingRight(p, Commands(calls), proj)
      BY <2>7, <2>8 DEF Right
    <3>2. LoadingRight(q, Commands(calls), proj)
      <4> HIDE DEF p, q
      <4>1. l.gen = p.gen => l.view = p.view
        BY <3>1 DEF LoadingRight, p
      <4> QED
      BY <2>3, <2>4, <2>5, <3>1, <4>1 DEF LoadingRight
    <3> QED
    BY <2>5, <2>8, <3>2 DEF Right
  <2>9. CASE ~p.loading
    <3>1. ShownRight(p, Commands(calls), proj)
      BY <2>7, <2>9 DEF Right
    <3>2. l.gen # p.gen
      BY <3>1 DEF ShownRight
    <3> HIDE DEF p, q
    <3>3. ShownRight(q, Commands(calls), proj)
      BY <2>4, <2>5, <3>1, <3>2 DEF ShownRight
    <3> QED
    BY <2>5, <2>9, <3>3 DEF Right
  <2> QED
  BY <2>8, <2>9
<1>6. CASE LoadAnswer(t, l)
  <2> DEFINE rest == [p EXCEPT !.loads = @ \ {l}]
  <2>1. CASE l.gen # p.gen
    <3>1. q = rest /\ stale' = stale
      BY <1>1, <1>6, <2>1 DEF LoadAnswer, Set
    <3>2. /\ q.view = p.view /\ q.list = p.list /\ q.loading = p.loading /\ q.gen = p.gen
          /\ q.loads = p.loads \ {l} /\ q.at = p.at
      BY <1>1, <3>1 DEF PageType
    <3>3. Follower(t)
      BY <1>2, <1>3, <3>1, <3>2 DEF Follower
    <3>4. Right(p, Commands(calls), proj)
      BY <3>3
    <3> HIDE DEF p, q
    <3> QED
    BY <3>2, <3>4 DEF Right, LoadingRight, ShownRight
  <2>2. CASE l.gen = p.gen /\ l.step = "read"
    <3>1. q = [rest EXCEPT !.list = l.rows, !.loading = FALSE] /\ stale' = stale
      BY <1>1, <1>6, <2>2 DEF LoadAnswer, Set
    <3>2. /\ q.view = p.view /\ q.list = l.rows /\ ~q.loading /\ q.gen = p.gen
          /\ q.loads = p.loads \ {l} /\ q.at = p.at
      BY <1>1, <3>1 DEF PageType
    <3>3. Follower(t)
      BY <1>2, <1>3, <3>1, <3>2 DEF Follower
    <3>4. Right(p, Commands(calls), proj)
      BY <3>3
    <3>5. LoadingRight(p, Commands(calls), proj)
      BY <2>2, <3>4 DEF Right, ShownRight
    <3>6. Commands(calls) = {} /\ l.rows = Rows(proj, p.view)
      BY <2>2, <3>5 DEF LoadingRight
    <3>7. \A m \in q.loads : m.gen # q.gen
      BY <1>4, <2>2, <3>2
    <3> HIDE DEF p, q
    <3>8. ShownRight(q, Commands(calls), proj)
      BY <3>2, <3>6, <3>7 DEF ShownRight
    <3> QED
    BY <3>2, <3>8 DEF Right
  <2>3. ~(l.gen = p.gen /\ l.step # "read")
    BY <1>1, <1>2, <1>6 DEF LoadAnswer, Excused
  <2> QED
  BY <2>1, <2>2, <2>3
<1> QED
BY <1>5, <1>6

LEMMA AnswerShows ==
  ASSUME Typed, NEW t, env.tabs = {t}, NEW c \in calls, Answer(c), UNCHANGED proj,
         Follower(t)', Follower(t) => Right(page[t], Commands(calls), proj)
  PROVE  Right(page'[t], Commands(calls'), proj')
<1> DEFINE p == page[t]
           q == page'[t]
<1>1. /\ p \in Pages /\ p \in PageType /\ t \in env.tabs /\ page \in [env.tabs -> Pages]
      /\ c \in Calls /\ c.tab = t /\ CallRight(c) /\ token \in BOOLEAN
  BY PageFields, CallFields DEF Typed
<1>2. q.at = "list" /\ t \notin stale' /\ \A k \in calls' : k.kind # "create"
  BY DEF Follower
<1>3. ~CreateDone(c)
  <2>1. SUFFICES ASSUME CreateDone(c) PROVE FALSE
    OBVIOUS
  <2>2. c.made \in Ids
    BY <1>1, <2>1 DEF CreateDone, CallRight
  <2>3. q.at = c.made
    BY <1>1, <2>1 DEF CreateDone, PageType
  <2> QED
  BY <1>2, <2>2, <2>3, IdsAssumption
<1>4. ~CommandFails(c)
  BY <1>1, <1>2 DEF CommandFails, Excused
<1>5. CASE DownloadDone(c)
  <2>1. p.at = "list" /\ q = [p EXCEPT !.busy = None] /\ calls' = calls \ {c} /\ stale' = stale
        /\ c.kind \in Downloads
    BY <1>1, <1>2, <1>5 DEF DownloadDone, Shows, Mounted, Ends
  <2>2. /\ q.view = p.view /\ q.list = p.list /\ q.loading = p.loading /\ q.gen = p.gen
        /\ q.loads = p.loads
    BY <1>1, <2>1 DEF PageType
  <2>3. Commands(calls') = Commands(calls)
    BY <2>1 DEF Commands
  <2>4. c.kind # "create"
    BY <2>1 DEF Downloads
  <2>5. Right(p, Commands(calls), proj)
    BY <1>2, <2>1, <2>4 DEF Follower
  <2> HIDE DEF p, q
  <2>6. Right(q, Commands(calls), proj)
    BY <2>2, <2>5, RightSame
  <2> QED
  BY <2>3, <2>6 DEF q
<1>6. CASE CommandDone(c)
  <2> DEFINE d == [c EXCEPT !.step = "reading", !.auth = token]
  <2>1. /\ c.step = "done" /\ c.kind \notin Downloads \cup {"create"}
        /\ q = [p EXCEPT !.dialog = IF c.kind \in Asked THEN None ELSE @]
        /\ p.at = "list" /\ calls' = (calls \ {c}) \cup {d} /\ stale' = stale
    BY <1>1, <1>2, <1>6 DEF CommandDone, Shows, Mounted
  <2>2. d \in Calls /\ Follows(c, d) /\ d.step = "reading"
    BY <1>1, <2>1, CallReload
  <2> HIDE DEF d
  <2>3. /\ q.view = p.view /\ q.list = p.list /\ q.loading = p.loading /\ q.gen = p.gen
        /\ q.loads = p.loads
    BY <1>1, <2>1 DEF PageType
  <2>4. Right(p, Commands(calls), proj)
    BY <1>2, <2>1 DEF Follower
  <2>5. c \in Commands(calls)
    BY <2>1 DEF Commands
  <2> HIDE DEF p, q
  <2>6. ~p.loading /\ ShownRight(p, Commands(calls), proj)
    BY <2>4, <2>5 DEF Right, LoadingRight
  <2>7. Commands(calls) = {c} /\ c.view = p.view
    BY <2>5, <2>6 DEF ShownRight
  <2>8. Commands(calls') = {d}
    BY <2>1, <2>2, <2>7 DEF Commands, Follows
  <2>9. ShownRight(q, {d}, proj)
    BY <2>2, <2>3, <2>6, <2>7 DEF ShownRight, Follows
  <2> QED
  BY <2>3, <2>6, <2>8, <2>9 DEF Right, q
<1>7. CASE ReloadAnswer(c)
  <2>1. c.step = "read" /\ stale' = stale /\ calls' = calls \ {c}
    BY <1>1, <1>2, <1>7 DEF ReloadAnswer, Excused, Ends
  <2>2. c.kind \notin Downloads \cup {"create"}
    BY <1>1, <2>1 DEF CallRight, Read
  <2> DEFINE new == [p EXCEPT !.busy = None, !.list = IF c.step = "unread" THEN @ ELSE c.rows]
  <2>3. c.kind # "duplicate"
    <3>1. SUFFICES ASSUME c.kind = "duplicate" PROVE FALSE
      OBVIOUS
    <3>2. c.made \in Ids
      BY <1>1, <2>1, <3>1 DEF CallRight
    <3>3. q = [new EXCEPT !.at = c.made, !.loads = {}]
      BY <1>1, <1>7, <3>1 DEF ReloadAnswer
    <3>4. q.at = c.made
      BY <1>1, <3>3 DEF PageType
    <3> QED
    BY <1>2, <3>2, <3>4, IdsAssumption
  <2>4. p.at = "list" /\ q = new
    BY <1>1, <1>2, <1>7, <2>3 DEF ReloadAnswer, Shows, Mounted
  <2>5. /\ q.view = p.view /\ q.list = c.rows /\ q.loading = p.loading /\ q.gen = p.gen
        /\ q.loads = p.loads
    BY <1>1, <2>1, <2>4 DEF PageType
  <2>6. Right(p, Commands(calls), proj)
    BY <1>2, <2>1, <2>2, <2>4 DEF Follower
  <2>7. c \in Commands(calls)
    BY <2>2 DEF Commands
  <2> HIDE DEF p, q
  <2>8. ~p.loading /\ ShownRight(p, Commands(calls), proj)
    BY <2>6, <2>7 DEF Right, LoadingRight
  <2>9. Commands(calls) = {c} /\ c.rows = Rows(proj, p.view)
    BY <2>1, <2>7, <2>8 DEF ShownRight
  <2>10. Commands(calls') = {}
    BY <2>1, <2>9 DEF Commands
  <2>11. ShownRight(q, {}, proj)
    BY <2>5, <2>8, <2>9 DEF ShownRight
  <2> QED
  BY <2>5, <2>8, <2>10, <2>11 DEF Right, q
<1> QED
BY <1>3, <1>4, <1>5, <1>6, <1>7 DEF Answer

LEMMA ShownNext ==
  ASSUME Typed, Shown, [Next]_<<vars, env>> PROVE Shown'
<1>1. env' = env
  BY NextCases DEF vars
<1> SUFFICES ASSUME NEW t \in env.tabs, env.tabs = {t}, Follower(t)'
             PROVE  Right(page'[t], Commands(calls'), proj')
  BY <1>1 DEF Shown
<1>2. Follower(t) => Right(page[t], Commands(calls), proj)
  BY DEF Shown
<1>3. ASSUME NEW u \in env.tabs, User(u) PROVE Right(page'[t], Commands(calls'), proj')
  <2>1. User(t)
    BY <1>3
  <2> QED
  BY <1>2, <2>1, UserShows
<1>4. ASSUME NEW c \in calls, Handle(c), UNCHANGED <<token, page, acts, stale>>
      PROVE  Right(page'[t], Commands(calls'), proj')
  <2>1. PICK d : Moved(c, d)
    BY <1>4, HandleMoves
  <2> QED
  BY <1>2, <1>4, <2>1, HandlerShows
<1>5. ASSUME NEW u \in env.tabs, NEW l \in page[u].loads, HandleLoad(u, l) \/ LoadAnswer(u, l)
      PROVE  Right(page'[t], Commands(calls'), proj')
  <2>1. u = t
    OBVIOUS
  <2> QED
  BY <1>2, <1>5, <2>1, LoadShows
<1>6. ASSUME NEW c \in calls, Answer(c), UNCHANGED <<proj, token, acts, faults, kept, raced>>
      PROVE  Right(page'[t], Commands(calls'), proj')
  BY <1>2, <1>6, AnswerShows
<1>7. CASE UNCHANGED <<vars, env>>
  <2>1. Follower(t)
    BY <1>7 DEF Follower, vars
  <2> QED
  BY <1>2, <1>7, <2>1 DEF vars
<1> QED
BY <1>3, <1>4, <1>5, <1>6, <1>7, NextCases

LEMMA InitShown == ASSUME Init PROVE Shown
<1> SUFFICES ASSUME NEW t \in env.tabs PROVE Right(page[t], Commands(calls), proj)
  BY DEF Shown
<1>1. page[t] = Fresh /\ Commands(calls) = {}
  BY DEF Init, Commands
<1>2. LoadingRight(Fresh, {}, proj)
  BY DEF LoadingRight, Fresh
<1> QED
BY <1>1, <1>2 DEF Right, Fresh

LEMMA ShownListed == ASSUME Typed, Shown PROVE ListShown
<1> SUFFICES ASSUME Cardinality(env.tabs) = 1, NEW t \in env.tabs \ stale, AtRest(t)
             PROVE  page[t].list = Listed(page[t].view)
  BY DEF ListShown
<1>1. IsFiniteSet(env.tabs)
  BY IdsAssumption DEF Typed
<1>2. env.tabs = {t}
  BY <1>1, FS_Singleton
<1>3. calls = {}
  BY <1>2, CallFields DEF AtRest, Of, Typed
<1>4. Follower(t) /\ Commands(calls) = {}
  BY <1>3 DEF Follower, AtRest, Commands
<1>5. ShownRight(page[t], {}, proj)
  BY <1>2, <1>4 DEF Shown, Right, AtRest
<1> QED
BY <1>5, ListedRows DEF ShownRight

\* When nothing is under way the only page shows what the server has for the view in its title,
\* whatever views were chosen in between, in whatever order their lists came, and after any
\* commands the code handles one at a time (load, reloadList).
THEOREM PageIsShown == Spec => []ListShown
<1>1. Spec => [](Typed /\ Shown)
  BY InitTyped, TypedNext, InitShown, ShownNext, PTL DEF Spec
<1> QED
BY <1>1, ShownListed, PTL
================================================================================
