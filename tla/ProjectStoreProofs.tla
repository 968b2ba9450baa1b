-------------------------- MODULE ProjectStoreProofs --------------------------
(***************************************************************************)
(* Theorems about the files of the projects, for every number of requests, *)
(* faults, projects and files and any menu of requests.                    *)
(***************************************************************************)
EXTENDS ProjectStore, TLAPS

USE DEF vars, tables, control, faultVars, history, Places, Kinds, Ended, Makes, Removals

-----------------------------------------------------------------------------
(* Types. A request goes through the labels of its kind (Flow), a project  *)
(* is one that was there or that a request made, and a request about a     *)
(* project or a snapshot is later than the one that made it (Rooted).      *)

Labels(kind) ==
  CASE kind \in {"put", "import"} -> {"store", "row"}
    [] kind = "open" -> {"count", "welcome", "welcomeRow"}
    [] kind = "remove" -> {"erase", "eraseRows"}
    [] kind = "removeAll" -> {"list", "erase", "eraseRows"}
    [] kind = "snapshot" -> {"list", "insert", "store"}
    [] kind = "restore" -> {"list", "store", "row"}
    [] kind = "duplicate" -> {"find", "list", "insert", "store", "row", "undo"}
    [] kind = "create" -> {"insert", "store", "row", "undo", "count", "welcome", "welcomeRow"}
    [] kind = "drop" -> {"check", "delete"}
    [] kind = "dropSnapshot" -> {"update", "tree"}
    [] OTHER -> {"update"}

PCs == {"new", "find", "list", "insert", "store", "row", "undo", "count", "welcome", "welcomeRow",
        "erase", "eraseRows", "update", "tree", "check", "delete"} \cup Ended

Flow ==
  \A r \in Requests :
    /\ IF req[r] = None THEN pc[r] = "new" ELSE pc[r] \in Labels(Kind(r)) \cup Ended
    /\ pc[r] = "row" => cur[r] \in Paths

IsProject(p) == p \in Given \/ (p \in Requests /\ req[p] # None /\ Kind(p) \in Makes)

Rooted ==
  /\ \A p \in projects : IsProject(p)
  /\ \A r \in Requests : req[r] # None /\ Kind(r) # "create" =>
       IsProject(req[r].project) /\ req[r].project # r
  /\ \A r \in Requests : req[r] # None /\ Kind(r) \in {"restore", "dropSnapshot"} =>
       /\ req[req[r].snapshot] # None /\ Kind(req[r].snapshot) = "snapshot"
       /\ req[r].snapshot # r

Types ==
  /\ projects \subseteq Places /\ trashed \subseteq projects
  /\ rows \in [Places -> SUBSET Paths]
  /\ manifest \in [Requests -> (SUBSET Paths) \cup {None}]
  /\ object \in [Places -> [Paths -> Contents \cup {None}]]
  /\ req \in [Requests -> Menu \cup {None}] /\ pc \in [Requests -> PCs]
  /\ todo \in [Requests -> SUBSET Paths] /\ cur \in [Requests -> Paths \cup {None}]
  /\ gone \subseteq Requests /\ faults \in 0..FaultBound
  /\ crossed \subseteq Requests /\ torn \subseteq Places \X Paths
  /\ last \in [Places \X Paths -> Requests \cup {None}]
  /\ asOf \in [Requests -> [Paths -> Contents \cup {None}]]

\* What the foreign keys keep.
ForeignKeys ==
  /\ \A p \in Places \ projects : rows[p] = {}
  /\ \A s \in Requests : manifest[s] # None =>
       req[s] # None /\ Kind(s) = "snapshot" /\ req[s].project \in projects

Typed == Types /\ Flow /\ Rooted /\ ForeignKeys

\* What a request is about.
LEMMA Asked ==
  ASSUME Typed, NEW r \in Requests, req[r] # None
  PROVE  /\ req[r] \in Menu /\ Kind(r) \in Kinds
         /\ req[r].project \in Places /\ req[r].paths \in SUBSET Paths
         /\ req[r].content \in Contents /\ req[r].snapshot \in Requests
         /\ Target(r) \in Places /\ Destination(r) \in Places
<1>1. /\ req[r] \in Menu
      /\ req[r] \in [kind : Kinds, project : Places, paths : SUBSET Paths,
                     content : Contents, snapshot : Requests]
  BY StoreAssumption DEF Typed, Types
<1>2. req[r].kind \in Kinds /\ req[r].project \in Places
  BY <1>1
<1>3. Target(r) \in Places /\ Destination(r) \in Places
  BY <1>2 DEF Target, Destination
<1> QED
BY <1>1, <1>2, <1>3 DEF Kind

\* The label of a running request tells its kind.
LEMMA KindOfLabel ==
  ASSUME Typed, NEW r \in Requests
  PROVE  /\ pc[r] \notin {"new", "ok", "error", "killed"} => req[r] # None /\ Active(r)
         /\ pc[r] = "find" => Kind(r) = "duplicate"
         /\ pc[r] = "list" => Kind(r) \in {"removeAll", "snapshot", "restore", "duplicate"}
         /\ pc[r] = "insert" => Kind(r) \in {"snapshot", "duplicate", "create"}
         /\ pc[r] = "store" => Kind(r) \in {"put", "import", "snapshot", "restore", "duplicate", "create"}
         /\ pc[r] = "row" => Kind(r) \in {"put", "import", "restore", "duplicate", "create"}
         /\ pc[r] = "undo" => Kind(r) \in Makes
         /\ pc[r] \in {"count", "welcome", "welcomeRow"} => Kind(r) \in {"open", "create"}
         /\ pc[r] \in {"erase", "eraseRows"} => Kind(r) \in Removals
         /\ pc[r] \in {"check", "delete"} => Kind(r) = "drop"
         /\ pc[r] = "tree" => Kind(r) = "dropSnapshot"
         /\ pc[r] = "update" => Kind(r) \in {"dropSnapshot", "trash", "untrash"}
<1>1. IF req[r] = None THEN pc[r] = "new" ELSE pc[r] \in Labels(Kind(r)) \cup Ended
  BY DEF Typed, Flow
<1>2. req[r] # None => Kind(r) \in Kinds
  BY Asked
<1>3. CASE req[r] = None
  BY <1>1, <1>3
<1>4. CASE req[r] # None
  BY <1>1, <1>2, <1>4 DEF Labels, Active
<1> QED
BY <1>3, <1>4

LEMMA FilePut ==
  ASSUME NEW place \in Places, NEW f \in Paths, NEW c \in Contents \cup {None},
         object \in [Places -> [Paths -> Contents \cup {None}]],
         object' = [object EXCEPT ![place][f] = c]
  PROVE  /\ object' \in [Places -> [Paths -> Contents \cup {None}]]
         /\ \A p \in Places, g \in Paths :
              object'[p][g] = IF p = place /\ g = f THEN c ELSE object[p][g]
<1>1. [object[place] EXCEPT ![f] = c] \in [Paths -> Contents \cup {None}]
  OBVIOUS
<1> QED
BY <1>1

-----------------------------------------------------------------------------
(* What a step of a request does to the object store.                      *)

\* The file a request puts or takes.
Wrote(r, place, f, c) ==
  \/ pc[r] = "store" /\ f \in todo[r] /\ place = Destination(r) /\ c = Source(r, f) /\ c # None
  \/ pc[r] = "welcome" /\ place = Target(r) /\ f = Readme /\ c = ReadmeText
  \/ pc[r] = "erase" /\ f \in todo[r] /\ place = req[r].project /\ c = None
  \/ pc[r] = "tree" /\ place = req[r].snapshot /\ c = None

LEMMA SourceTyped ==
  ASSUME Typed, NEW r \in Requests, req[r] # None, NEW f \in Paths
  PROVE  Source(r, f) \in Contents \cup {None}
<1>1. object[req[r].project][f] \in Contents \cup {None}
  BY Asked DEF Typed, Types
<1>2. object[req[r].snapshot][f] \in Contents \cup {None}
  BY Asked DEF Typed, Types
<1>3. req[r].content \in Contents
  BY Asked
<1> QED
BY <1>1, <1>2, <1>3 DEF Source

LEMMA ObjectStep ==
  ASSUME Typed, NEW r \in Requests, Step(r)
  PROVE  \/ object' = object
         \/ \E place \in Places, f \in Paths, c \in Contents \cup {None} :
              Wrote(r, place, f, c) /\ object' = [object EXCEPT ![place][f] = c]
<1> DEFINE Goal == \/ object' = object
                   \/ \E place \in Places, f \in Paths, c \in Contents \cup {None} :
                        Wrote(r, place, f, c) /\ object' = [object EXCEPT ![place][f] = c]
<1>1. ASSUME NEW f \in Paths, StoreFile(r, f) PROVE Goal
  <2>1. pc[r] = "store" /\ f \in todo[r]
    BY <1>1 DEF StoreFile
  <2>2. req[r] # None
    BY <2>1, KindOfLabel
  <2>3. Destination(r) \in Places /\ Source(r, f) \in Contents \cup {None}
    BY <2>2, Asked, SourceTyped
  <2>4. \/ object' = object
        \/ Source(r, f) # None /\ object' = [object EXCEPT ![Destination(r)][f] = Source(r, f)]
    BY <1>1 DEF StoreFile, PutFile, MayHaveHappened
  <2> QED
  BY <2>1, <2>3, <2>4 DEF Wrote
<1>2. ASSUME Welcome(r) PROVE Goal
  <2>1. pc[r] = "welcome"
    BY <1>2 DEF Welcome
  <2>2. Target(r) \in Places /\ Readme \in Paths /\ ReadmeText \in Contents \cup {None}
    BY <2>1, KindOfLabel, Asked, StoreAssumption
  <2>3. object' = object \/ object' = [object EXCEPT ![Target(r)][Readme] = ReadmeText]
    BY <1>2 DEF Welcome, PutFile, MayHaveHappened
  <2> QED
  BY <2>1, <2>2, <2>3 DEF Wrote
<1>3. ASSUME NEW f \in Paths, Erase(r, f) PROVE Goal
  <2>1. pc[r] = "erase" /\ f \in todo[r]
    BY <1>3 DEF Erase
  <2>2. req[r].project \in Places
    BY <2>1, KindOfLabel, Asked
  <2>3. object' = object \/ object' = [object EXCEPT ![req[r].project][f] = None]
    BY <1>3 DEF Erase, PutFile, MayHaveHappened
  <2> QED
  BY <2>1, <2>2, <2>3 DEF Wrote
<1>4. ASSUME RemoveTree(r) PROVE Goal
  <2>1. pc[r] = "tree"
    BY <1>4 DEF RemoveTree
  <2>2. req[r].snapshot \in Places
    BY <2>1, KindOfLabel, Asked
  <2>3. object' = object \/ \E f \in Paths : object' = [object EXCEPT ![req[r].snapshot][f] = None]
    BY <1>4 DEF RemoveTree, PutFile, Tree
  <2> QED
  BY <2>1, <2>2, <2>3 DEF Wrote
<1>5. ASSUME FindProject(r) \/ List(r) \/ Insert(r) \/ StoreRow(r) \/ Undo(r) \/ Count(r) \/ WelcomeRow(r)
      PROVE  object' = object
  BY <1>5 DEF FindProject, List, Insert, StoreRow, Undo, Count, WelcomeRow
<1>6. ASSUME EraseRows(r) \/ DropSnapshot(r) \/ Trash(r) PROVE object' = object
  BY <1>6 DEF EraseRows, DropSnapshot, Trash
<1>7. ASSUME CheckTrashed(r) \/ DropProject(r) PROVE object' = object
  BY <1>7 DEF CheckTrashed, DropProject
<1>8. object' = object => Goal
  OBVIOUS
<1> HIDE DEF Goal
<1>9. Goal
  BY <1>1, <1>2, <1>3, <1>4, <1>5, <1>6, <1>7, <1>8 DEF Step
<1> QED
BY <1>9 DEF Goal

-----------------------------------------------------------------------------
(* What a step of a request does to the tables.                            *)

TableSteps(r) ==
  \/ UNCHANGED tables
  \/ pc[r] = "insert" /\ InsertRow(r)
  \/ pc[r] = "row" /\ PutRow(r, cur[r])
  \/ pc[r] = "welcomeRow" /\ PutRow(r, Readme)
  \/ pc[r] = "undo" /\ DeleteRow(r)
  \/ pc[r] = "delete" /\ DeleteRow(req[r].project)
  \/ pc[r] = "eraseRows" /\ DeleteRows(r)
  \/ pc[r] = "update" /\ Kind(r) = "dropSnapshot" /\ ManifestOf(r) # None /\ DropManifest(r)
  \/ pc[r] = "update" /\ Kind(r) \in {"trash", "untrash"} /\ Mark(r)

LEMMA TableStep == \A r \in Requests : Step(r) => TableSteps(r)
<1> SUFFICES ASSUME NEW r \in Requests, Step(r) PROVE TableSteps(r)
  OBVIOUS
<1>1. CASE Insert(r)
  BY <1>1 DEF Insert, MayHaveHappened, TableSteps
<1>2. CASE StoreRow(r)
  BY <1>2 DEF StoreRow, MayHaveHappened, TableSteps
<1>3. CASE Undo(r)
  BY <1>3 DEF Undo, MayHaveHappened, TableSteps
<1>4. CASE WelcomeRow(r)
  BY <1>4 DEF WelcomeRow, MayHaveHappened, TableSteps
<1>5. CASE EraseRows(r)
  BY <1>5 DEF EraseRows, MayHaveHappened, TableSteps
<1>6. CASE DropSnapshot(r)
  BY <1>6 DEF DropSnapshot, MayHaveHappened, TableSteps
<1>7. CASE Trash(r)
  BY <1>7 DEF Trash, MayHaveHappened, TableSteps
<1>8. CASE DropProject(r)
  BY <1>8 DEF DropProject, MayHaveHappened, TableSteps
<1>9. CASE \/ FindProject(r) \/ List(r) \/ Count(r) \/ Welcome(r) \/ RemoveTree(r) \/ CheckTrashed(r)
           \/ \E f \in Paths : StoreFile(r, f) \/ Erase(r, f)
  BY <1>9 DEF FindProject, List, Count, Welcome, RemoveTree, CheckTrashed, StoreFile, Erase, TableSteps
<1> QED
BY <1>1, <1>2, <1>3, <1>4, <1>5, <1>6, <1>7, <1>8, <1>9 DEF Step

-----------------------------------------------------------------------------
(* Where a step of a request leads.                                        *)

\* The label of a request is that of the call it makes next.
LEMMA Labelled ==
  ASSUME NEW r \in Requests, Step(r)
  PROVE  /\ pc[r] \notin {"new", "ok", "error", "killed"}
         /\ pc[r] = "find" => FindProject(r)
         /\ pc[r] = "list" => List(r)
         /\ pc[r] = "insert" => Insert(r)
         /\ pc[r] = "store" => \E f \in Paths : StoreFile(r, f)
         /\ pc[r] = "row" => StoreRow(r)
         /\ pc[r] = "undo" => Undo(r)
         /\ pc[r] = "count" => Count(r)
         /\ pc[r] = "welcome" => Welcome(r)
         /\ pc[r] = "welcomeRow" => WelcomeRow(r)
         /\ pc[r] = "erase" => \E f \in Paths : Erase(r, f)
         /\ pc[r] = "eraseRows" => EraseRows(r)
         /\ pc[r] = "update" => DropSnapshot(r) \/ Trash(r)
         /\ pc[r] = "tree" => RemoveTree(r)
         /\ pc[r] = "check" => CheckTrashed(r)
         /\ pc[r] = "delete" => DropProject(r)
<1>1. /\ FindProject(r) => pc[r] = "find"
      /\ List(r) => pc[r] = "list"
      /\ Insert(r) => pc[r] = "insert"
      /\ \A f \in Paths : StoreFile(r, f) => pc[r] = "store"
      /\ StoreRow(r) => pc[r] = "row"
      /\ Undo(r) => pc[r] = "undo"
      /\ Count(r) => pc[r] = "count"
      /\ Welcome(r) => pc[r] = "welcome"
      /\ WelcomeRow(r) => pc[r] = "welcomeRow"
  BY DEF FindProject, List, Insert, StoreFile, StoreRow, Undo, Count, Welcome, WelcomeRow
<1>2. /\ \A f \in Paths : Erase(r, f) => pc[r] = "erase"
      /\ EraseRows(r) => pc[r] = "eraseRows"
      /\ DropSnapshot(r) => pc[r] = "update"
      /\ Trash(r) => pc[r] = "update"
      /\ RemoveTree(r) => pc[r] = "tree"
      /\ CheckTrashed(r) => pc[r] = "check"
      /\ DropProject(r) => pc[r] = "delete"
  BY DEF Erase, EraseRows, DropSnapshot, RemoveTree, Trash, CheckTrashed, DropProject
<1> QED
BY <1>1, <1>2 DEF Step

\* A step of one request leaves the others where they are, and its own goes to
\* a label of its kind.
\* A listing takes some of the files for all, which it is unless its call failed.
Lists(r, part) ==
  /\ Listed(r) # None /\ part \in SUBSET Listed(r)
  /\ part = Listed(r) \/ (Fails(r) /\ Kind(r) # "restore")
  /\ todo' = [todo EXCEPT ![r] = part]
  /\ asOf' = [asOf EXCEPT ![r] = [f \in Paths |->
       IF f \in Listed(r) /\ Kind(r) \in {"snapshot", "duplicate"}
         THEN object[req[r].project][f] ELSE None]]
  /\ Goto(r, AfterList(r, part))

LEMMA ListCases ==
  ASSUME NEW r \in Requests, List(r)
  PROVE  (\E part : Lists(r, part)) \/ (Goto(r, "error") /\ UNCHANGED <<todo, asOf>>)
  BY DEF List, Lists

LEMMA StepFrame ==
  ASSUME Typed, NEW r \in Requests, Step(r)
  PROVE  /\ UNCHANGED <<req, crossed, last>>
         /\ pc' = [pc EXCEPT ![r] = pc'[r]]
         /\ pc'[r] \in Labels(Kind(r)) \cup Ended
         /\ \A s \in Requests \ {r} :
              todo'[s] = todo[s] /\ cur'[s] = cur[s] /\ asOf'[s] = asOf[s]
         /\ torn \subseteq torn' /\ broken \subseteq broken'
         /\ broken' \subseteq broken \cup {<<r, pc[r]>>}
         /\ UNCHANGED gone /\ faults' \in 0..FaultBound
<1> DEFINE Control == /\ UNCHANGED <<req, crossed, last>> /\ torn \subseteq torn'
                      /\ \A s \in Requests \ {r} :
                           todo'[s] = todo[s] /\ cur'[s] = cur[s] /\ asOf'[s] = asOf[s]
           Faulting == Works(r) \/ Fails(r)
<1>0. /\ pc \in [Requests -> PCs] /\ todo \in [Requests -> SUBSET Paths]
      /\ cur \in [Requests -> Paths \cup {None}] /\ faults \in 0..FaultBound
      /\ asOf \in [Requests -> [Paths -> Contents \cup {None}]]
  BY DEF Typed, Types
<1>1. Kind(r) \in Kinds /\ req[r] # None
  BY Labelled, KindOfLabel, Asked
<1>2. ASSUME Faulting
      PROVE  /\ broken \subseteq broken' /\ broken' \subseteq broken \cup {<<r, pc[r]>>}
             /\ UNCHANGED gone /\ faults' \in 0..FaultBound
  BY <1>0, <1>2, StoreAssumption DEF Works, Fails
<1>3. ASSUME FindProject(r) \/ List(r) PROVE Control /\ Faulting
  BY <1>0, <1>3 DEF FindProject, List
<1>4. ASSUME Insert(r) \/ StoreRow(r) \/ \E f \in Paths : StoreFile(r, f) PROVE Control /\ Faulting
  BY <1>0, <1>4 DEF Insert, StoreRow, StoreFile
<1>5. ASSUME Undo(r) \/ Count(r) \/ Welcome(r) \/ WelcomeRow(r) PROVE Control /\ Faulting
  BY <1>0, <1>5 DEF Undo, Count, Welcome, WelcomeRow
<1>6. ASSUME EraseRows(r) \/ \E f \in Paths : Erase(r, f) PROVE Control /\ Faulting
  BY <1>0, <1>6 DEF Erase, EraseRows
<1>7. ASSUME DropSnapshot(r) \/ RemoveTree(r) \/ Trash(r) PROVE Control /\ Faulting
  BY <1>0, <1>7 DEF DropSnapshot, RemoveTree, Trash
<1>8. ASSUME CheckTrashed(r) \/ DropProject(r) PROVE Control /\ Faulting
  BY <1>0, <1>8 DEF CheckTrashed, DropProject
<1>9. Control /\ Faulting
  BY <1>3, <1>4, <1>5, <1>6, <1>7, <1>8 DEF Step
<1>10. pc' = [pc EXCEPT ![r] = pc'[r]] /\ pc'[r] \in Labels(Kind(r)) \cup Ended
  <2> DEFINE Led(L) == pc' = [pc EXCEPT ![r] = pc'[r]] /\ pc'[r] \in L
  <2>1. ASSUME FindProject(r) PROVE Led({"list", "error"}) /\ Kind(r) = "duplicate"
    BY <1>0, <2>1, KindOfLabel DEF FindProject, Goto
  <2>2. ASSUME List(r) PROVE /\ \E part : Led({AfterList(r, part), "error"})
                             /\ Kind(r) \in {"removeAll", "snapshot", "restore", "duplicate"}
    <3>1. Kind(r) \in {"removeAll", "snapshot", "restore", "duplicate"}
      BY <2>2, KindOfLabel DEF List
    <3>2. ASSUME NEW part, Goto(r, AfterList(r, part)) \/ Goto(r, "error")
          PROVE  Led({AfterList(r, part), "error"})
      BY <1>0, <3>2 DEF Goto
    <3> QED
    BY <2>2, <3>1, <3>2, ListCases DEF Lists
  <2>3. ASSUME Insert(r) PROVE /\ Led({After(r, todo[r]), "error"})
                               /\ Kind(r) \in {"snapshot", "duplicate", "create"}
    BY <1>0, <2>3, KindOfLabel DEF Insert, Goto
  <2>4. ASSUME NEW f \in Paths, StoreFile(r, f)
        PROVE  /\ Led({"row", After(r, todo[r] \ {f}), OnStoreError(r, todo[r] \ {f})})
               /\ Kind(r) \in {"put", "import", "snapshot", "restore", "duplicate", "create"}
               /\ Kind(r) = "snapshot" => pc'[r] # "row"
    <3>1. \/ /\ Goto(r, IF Kind(r) = "snapshot" THEN After(r, todo[r] \ {f}) ELSE "row")
          \/ Goto(r, OnStoreError(r, todo[r] \ {f}))
      BY <2>4 DEF StoreFile
    <3>2. Kind(r) \in {"put", "import", "snapshot", "restore", "duplicate", "create"}
      BY <2>4, KindOfLabel DEF StoreFile
    <3> QED
    BY <1>0, <3>1, <3>2 DEF Goto, After, OnStoreError
  <2>5. ASSUME StoreRow(r)
        PROVE  /\ Led({After(r, todo[r]), OnError(r, todo[r])})
               /\ Kind(r) \in {"put", "import", "restore", "duplicate", "create"}
    BY <1>0, <2>5, KindOfLabel DEF StoreRow, Goto
  <2>6. ASSUME Undo(r) PROVE Led({"error"})
    BY <1>0, <2>6 DEF Undo, Goto
  <2>7. ASSUME Count(r) \/ Welcome(r) \/ WelcomeRow(r)
        PROVE  Led({"ok", "welcome", "welcomeRow", "error"}) /\ Kind(r) \in {"open", "create"}
    BY <1>0, <2>7, KindOfLabel DEF Count, Welcome, WelcomeRow, Goto
  <2>8. ASSUME EraseRows(r) \/ \E f \in Paths : Erase(r, f)
        PROVE  Led({"erase", "eraseRows", "ok", "error"}) /\ Kind(r) \in Removals
    BY <1>0, <2>8, KindOfLabel DEF EraseRows, Erase, Goto
  <2>9. ASSUME RemoveTree(r) PROVE Led({"tree", "ok"}) /\ Kind(r) = "dropSnapshot"
    BY <1>0, <2>9, KindOfLabel DEF RemoveTree, Goto
  <2>10. ASSUME DropSnapshot(r) PROVE Led({"tree", "error"}) /\ Kind(r) = "dropSnapshot"
    BY <1>0, <2>10 DEF DropSnapshot, Goto
  <2>11. ASSUME Trash(r) PROVE Led({"ok", "error"})
    BY <1>0, <2>11 DEF Trash, Goto
  <2>12. ASSUME CheckTrashed(r) \/ DropProject(r)
         PROVE  Led({"delete", "ok", "error"}) /\ Kind(r) = "drop"
    BY <1>0, <2>12, KindOfLabel DEF CheckTrashed, DropProject, Goto
  <2>13. /\ Kind(r) \in {"removeAll", "snapshot", "restore", "duplicate"} =>
              \A part : AfterList(r, part) \in Labels(Kind(r)) \cup Ended
         /\ Kind(r) \in {"put", "import", "snapshot", "restore", "duplicate", "create"} =>
              \A R : After(r, R) \in Labels(Kind(r)) \cup Ended
    BY DEF AfterList, After, Labels
  <2>14. ASSUME Kind(r) \in {"put", "import", "restore", "duplicate", "create"}, NEW R
         PROVE  OnError(r, R) \in Labels(Kind(r)) \cup Ended
    <3>1. Kind(r) \notin Makes => Target(r) # r
      BY <1>1, <2>14 DEF Typed, Rooted, Target
    <3> QED
    BY <2>14, <3>1 DEF OnError, Skips, After, Labels
  <2>15. ASSUME Kind(r) \in {"put", "import", "snapshot", "restore", "duplicate", "create"}, NEW R
         PROVE  OnStoreError(r, R) \in Labels(Kind(r)) \cup Ended
    BY <2>13, <2>14, <2>15 DEF OnStoreError
  <2>16. Led(Labels(Kind(r)) \cup Ended)
    <3>1. CASE \E f \in Paths : StoreFile(r, f)
      BY <2>4, <2>13, <2>15, <3>1 DEF Labels
    <3>2. CASE FindProject(r) \/ List(r) \/ Insert(r) \/ StoreRow(r)
      BY <2>1, <2>2, <2>3, <2>5, <2>13, <2>14, <3>2 DEF Labels
    <3>3. CASE Undo(r) \/ Trash(r)
      BY <2>6, <2>11, <3>3
    <3>4. CASE Count(r) \/ Welcome(r) \/ WelcomeRow(r)
      <4>1. pc'[r] # "error" \/ Kind(r) \in {"open", "create"}
        BY <2>7, <3>4
      <4> QED
      BY <2>7, <3>4, <4>1 DEF Labels
    <3>5. CASE \/ EraseRows(r) \/ RemoveTree(r) \/ DropSnapshot(r) \/ CheckTrashed(r) \/ DropProject(r)
               \/ \E f \in Paths : Erase(r, f)
      BY <2>8, <2>9, <2>10, <2>12, <3>5 DEF Labels
    <3> QED
    BY <3>1, <3>2, <3>3, <3>4, <3>5 DEF Step
  <2> QED
  BY <2>16
<1> QED
BY <1>2, <1>9, <1>10

\* What a request writes is files of projects or of snapshots.
LEMMA WritesTyped ==
  ASSUME NEW r \in Requests, NEW q \in Menu
  PROVE  Writes(r, q) \subseteq Places \X Paths
<1>1. q \in [kind : Kinds, project : Places, paths : SUBSET Paths,
             content : Contents, snapshot : Requests]
  BY StoreAssumption
<1>2. /\ q.kind \in Kinds /\ q.project \in Places /\ q.paths \in SUBSET Paths
      /\ q.snapshot \in Places /\ r \in Places /\ Readme \in Paths
  BY <1>1, StoreAssumption
<1> QED
BY <1>2 DEF Writes, Files

LEMMA StepControlTyped ==
  ASSUME Typed, NEW r \in Requests, Step(r)
  PROVE  /\ todo' \in [Requests -> SUBSET Paths]
         /\ cur' \in [Requests -> Paths \cup {None}]
         /\ pc'[r] = "row" => cur'[r] \in Paths
         /\ asOf' \in [Requests -> [Paths -> Contents \cup {None}]]
         /\ torn' \subseteq Places \X Paths
<1>0. /\ pc \in [Requests -> PCs] /\ todo \in [Requests -> SUBSET Paths]
      /\ cur \in [Requests -> Paths \cup {None}] /\ torn \subseteq Places \X Paths
      /\ asOf \in [Requests -> [Paths -> Contents \cup {None}]]
      /\ pc[r] = "row" => cur[r] \in Paths
  BY DEF Typed, Types, Flow
<1>1. CASE List(r)
  <2>1. req[r] # None /\ pc[r] = "list" /\ Kind(r) \in {"removeAll", "snapshot", "restore", "duplicate"}
    BY <1>1, KindOfLabel DEF List
  <2>2. req[r].project \in Places /\ req[r].snapshot \in Requests
    BY <2>1, Asked
  <2>3. Listed(r) \in (SUBSET Paths) \cup {None}
    BY <2>2 DEF Listed, ManifestOf, Typed, Types
  <2>4. todo' \in [Requests -> SUBSET Paths]
    BY <1>0, <1>1, <2>3, ListCases DEF Lists
  <2>5. asOf' \in [Requests -> [Paths -> Contents \cup {None}]]
    <3>1. \A f \in Paths : object[req[r].project][f] \in Contents \cup {None}
      BY <2>2 DEF Typed, Types
    <3>2. [f \in Paths |-> IF f \in Listed(r) /\ Kind(r) \in {"snapshot", "duplicate"}
                             THEN object[req[r].project][f] ELSE None]
             \in [Paths -> Contents \cup {None}]
      BY <3>1
    <3> QED
    BY <1>0, <1>1, <3>2, ListCases DEF Lists
  <2>6. pc'[r] # "row"
    BY <1>0, <1>1, <2>1, ListCases DEF Lists, Goto, AfterList, After
  <2> QED
  BY <1>0, <1>1, <2>4, <2>5, <2>6 DEF List
<1>2. ASSUME NEW f \in Paths, StoreFile(r, f)
      PROVE  /\ todo' \in [Requests -> SUBSET Paths] /\ cur' \in [Requests -> Paths \cup {None}]
             /\ pc'[r] = "row" => cur'[r] \in Paths
             /\ UNCHANGED <<asOf, torn>>
  BY <1>0, <1>2 DEF StoreFile
<1>3. CASE StoreRow(r)
  <2>1. pc'[r] # "row"
    BY <1>0, <1>3 DEF StoreRow, Goto, OnError, After
  <2> QED
  BY <1>0, <1>3, <2>1 DEF StoreRow
<1>4. ASSUME NEW f \in Paths, Erase(r, f)
      PROVE  /\ todo' \in [Requests -> SUBSET Paths] /\ pc'[r] # "row"
             /\ UNCHANGED <<cur, asOf, torn>>
  BY <1>0, <1>4 DEF Erase, Goto
<1>5. CASE EraseRows(r)
  <2>1. Writes(r, req[r]) \subseteq Places \X Paths
    BY <1>5, KindOfLabel, Asked, WritesTyped DEF EraseRows
  <2>2. pc'[r] # "row"
    BY <1>0, <1>5 DEF EraseRows, Goto
  <2> QED
  BY <1>0, <1>5, <2>1, <2>2 DEF EraseRows
<1>6. CASE FindProject(r) \/ Insert(r) \/ Undo(r) \/ Count(r) \/ Welcome(r) \/ WelcomeRow(r)
  <2>1. UNCHANGED <<todo, cur, asOf, torn>>
    BY <1>6 DEF FindProject, Insert, Undo, Count, Welcome, WelcomeRow
  <2>2. pc'[r] # "row"
    BY <1>0, <1>6 DEF FindProject, Insert, Undo, Count, Welcome, WelcomeRow, Goto, After
  <2> QED
  BY <1>0, <2>1, <2>2
<1>7. CASE DropSnapshot(r) \/ RemoveTree(r) \/ Trash(r) \/ CheckTrashed(r) \/ DropProject(r)
  <2>1. UNCHANGED <<todo, cur, asOf, torn>>
    BY <1>7 DEF DropSnapshot, RemoveTree, Trash, CheckTrashed, DropProject
  <2>2. pc'[r] # "row"
    BY <1>0, <1>7 DEF DropSnapshot, RemoveTree, Trash, CheckTrashed, DropProject, Goto
  <2> QED
  BY <1>0, <2>1, <2>2
<1> QED
BY <1>0, <1>1, <1>2, <1>3, <1>4, <1>5, <1>6, <1>7 DEF Step

\* The tables and what the foreign keys keep of them.
LEMMA StepTablesTyped ==
  ASSUME Typed, NEW r \in Requests, Step(r)
  PROVE  /\ projects' \subseteq Places /\ trashed' \subseteq projects'
         /\ \A p \in projects' : p \in projects \/ (p = r /\ Kind(r) \in Makes /\ pc[r] = "insert")
         /\ rows' \in [Places -> SUBSET Paths]
         /\ manifest' \in [Requests -> (SUBSET Paths) \cup {None}]
         /\ \A p \in Places \ projects' : rows'[p] = {}
         /\ \A s \in Requests : manifest'[s] # None =>
              req[s] # None /\ Kind(s) = "snapshot" /\ req[s].project \in projects'
<1> DEFINE Goal == /\ projects' \subseteq Places /\ trashed' \subseteq projects'
                   /\ \A p \in projects' : p \in projects \/ (p = r /\ Kind(r) \in Makes /\ pc[r] = "insert")
                   /\ rows' \in [Places -> SUBSET Paths]
                   /\ manifest' \in [Requests -> (SUBSET Paths) \cup {None}]
                   /\ \A p \in Places \ projects' : rows'[p] = {}
                   /\ \A s \in Requests : manifest'[s] # None =>
                        req[s] # None /\ Kind(s) = "snapshot" /\ req[s].project \in projects'
<1> SUFFICES Goal
  OBVIOUS
<1>0. /\ projects \subseteq Places /\ trashed \subseteq projects
      /\ rows \in [Places -> SUBSET Paths]
      /\ manifest \in [Requests -> (SUBSET Paths) \cup {None}]
      /\ \A p \in Places \ projects : rows[p] = {}
      /\ \A s \in Requests : manifest[s] # None =>
           req[s] # None /\ Kind(s) = "snapshot" /\ req[s].project \in projects
      /\ todo[r] \in SUBSET Paths /\ r \in Places
  BY DEF Typed, Types, ForeignKeys
<1>1. req[r] # None /\ req[r].project \in Places /\ req[r].snapshot \in Requests
      /\ Target(r) \in Places
  BY Labelled, KindOfLabel, Asked
<1>2. CASE UNCHANGED tables
  BY <1>0, <1>2
<1>3. CASE pc[r] = "insert" /\ InsertRow(r)
  <2>1. Kind(r) \in {"snapshot", "duplicate", "create"}
    BY <1>3, KindOfLabel
  <2>2. CASE Kind(r) = "snapshot"
    BY <1>0, <1>1, <1>3, <2>2 DEF InsertRow
  <2>3. CASE Kind(r) # "snapshot"
    BY <1>0, <1>1, <1>3, <2>1, <2>3 DEF InsertRow
  <2> QED
  BY <2>2, <2>3
<1>4. ASSUME NEW f \in Paths, PutRow(r, f) PROVE Goal
  BY <1>0, <1>1, <1>4 DEF PutRow, RowFits
<1>5. ASSUME NEW p \in Places, DeleteRow(p) PROVE Goal
  BY <1>0, <1>1, <1>5 DEF DeleteRow
<1>6. CASE DeleteRows(r)
  BY <1>0, <1>1, <1>6 DEF DeleteRows
<1>7. CASE DropManifest(r)
  BY <1>0, <1>1, <1>7 DEF DropManifest
<1>8. CASE Mark(r)
  BY <1>0, <1>1, <1>8 DEF Mark
<1>9. pc[r] = "row" => cur[r] \in Paths
  BY DEF Typed, Flow
<1> HIDE DEF Goal
<1>10. CASE pc[r] = "row" /\ PutRow(r, cur[r])
  BY <1>4, <1>9, <1>10
<1>11. CASE pc[r] = "welcomeRow" /\ PutRow(r, Readme)
  BY <1>4, <1>11, StoreAssumption
<1>12. CASE DeleteRow(r) \/ DeleteRow(req[r].project)
  BY <1>0, <1>1, <1>5, <1>12
<1> QED
BY <1>2, <1>3, <1>6, <1>7, <1>8, <1>10, <1>11, <1>12, TableStep DEF TableSteps

LEMMA StepTyped == \A r \in Requests : Typed /\ Step(r) => Typed'
<1> SUFFICES ASSUME NEW r \in Requests, Typed, Step(r) PROVE Typed'
  OBVIOUS
<1>1. object' \in [Places -> [Paths -> Contents \cup {None}]]
  <2>1. object \in [Places -> [Paths -> Contents \cup {None}]]
    BY DEF Typed, Types
  <2> QED
  BY <2>1, ObjectStep, FilePut
<1>2. /\ UNCHANGED <<req, crossed, last, gone>> /\ pc' = [pc EXCEPT ![r] = pc'[r]]
      /\ pc'[r] \in Labels(Kind(r)) \cup Ended /\ faults' \in 0..FaultBound
      /\ \A s \in Requests \ {r} : cur'[s] = cur[s]
  BY StepFrame
<1>3. req[r] # None
  BY Labelled, KindOfLabel
<1>4. pc'[r] \in PCs
  <2>1. Labels(Kind(r)) \subseteq PCs
    BY <1>3, Asked DEF Labels, PCs
  <2> QED
  BY <1>2, <2>1 DEF PCs
<1>5. Types'
  <2>1. /\ Types /\ req' = req /\ crossed' = crossed /\ last' = last /\ gone' = gone
        /\ pc' \in [Requests -> PCs]
    BY <1>2, <1>4 DEF Typed, Types
  <2> QED
  BY <1>1, <1>2, <2>1, StepControlTyped, StepTablesTyped DEF Types
<1>6. \A s \in Requests : pc'[s] = IF s = r THEN pc'[r] ELSE pc[s]
  BY <1>2 DEF Typed, Types
<1>7. Flow'
  <2> SUFFICES ASSUME NEW s \in Requests
               PROVE  /\ IF req'[s] = None THEN pc'[s] = "new" ELSE pc'[s] \in Labels(Kind(s)') \cup Ended
                      /\ pc'[s] = "row" => cur'[s] \in Paths
    BY DEF Flow
  <2>1. Kind(s)' = Kind(s) /\ req'[s] = req[s]
    BY <1>2 DEF Kind
  <2>2. CASE s = r
    BY <1>2, <1>3, <2>1, <2>2, StepControlTyped
  <2>3. CASE s # r
    BY <1>2, <1>6, <2>1, <2>3 DEF Typed, Flow
  <2> QED
  BY <2>2, <2>3
<1>8. Rooted'
  <2>1. \A p : IsProject(p)' <=> IsProject(p)
    BY <1>2 DEF IsProject, Kind
  <2>2. \A p \in projects' : IsProject(p)
    BY <1>3, StepTablesTyped DEF Typed, Rooted, IsProject
  <2> QED
  BY <1>2, <2>1, <2>2 DEF Typed, Rooted, Kind
<1>9. ForeignKeys'
  BY <1>2, StepTablesTyped DEF ForeignKeys, Kind
<1> QED
BY <1>5, <1>7, <1>8, <1>9 DEF Typed

-----------------------------------------------------------------------------
(* A request arrives, a client goes away, the process is killed.           *)

\* The requests that a new one meets.
Met(r, q) == {s \in Requests : Active(s) /\ Common(r, q, s) # {}}

ArriveAs(r, q) ==
  /\ req[r] = None
  /\ q.kind # "create" => q.project \in projects
  /\ q.kind \in {"restore", "dropSnapshot"} =>
       req[q.snapshot] # None /\ Kind(q.snapshot) = "snapshot"
  /\ req' = [req EXCEPT ![r] = q]
  /\ pc' = [pc EXCEPT ![r] = First(q)]
  /\ todo' = [todo EXCEPT ![r] = q.paths]
  /\ crossed' = crossed \cup Met(r, q) \cup (IF Met(r, q) # {} THEN {r} ELSE {})
  /\ last' = [k \in DOMAIN last |-> IF k \in Writes(r, q) THEN r ELSE last[k]]
  /\ torn' = torn \cup UNION {Common(r, q, s) :
               s \in {t \in Met(r, q) : {q.kind, Kind(t)} \cap Removals # {}}}
  /\ UNCHANGED <<tables, object, cur, faultVars, asOf>>

LEMMA Arrived == \A r \in Requests : Arrive(r) => \E q \in Menu : ArriveAs(r, q)
  BY DEF Arrive, ArriveAs, Met, Goto

LEMMA MenuTyped ==
  ASSUME NEW q \in Menu
  PROVE  /\ q.kind \in Kinds /\ q.project \in Places /\ q.paths \in SUBSET Paths
         /\ q.content \in Contents /\ q.snapshot \in Requests /\ q # None
<1>1. q \in [kind : Kinds, project : Places, paths : SUBSET Paths,
             content : Contents, snapshot : Requests]
  BY StoreAssumption
<1> QED
BY <1>1, StoreAssumption

\* The request is there from now on, and the others are as they were.
LEMMA ArrivedFrame ==
  ASSUME Typed, NEW r \in Requests, NEW q \in Menu, ArriveAs(r, q)
  PROVE  /\ \A s \in Requests : req'[s] = IF s = r THEN q ELSE req[s]
         /\ \A s \in Requests : pc'[s] = IF s = r THEN First(q) ELSE pc[s]
         /\ \A s \in Requests : todo'[s] = IF s = r THEN q.paths ELSE todo[s]
         /\ \A k \in Places \X Paths : last'[k] = IF k \in Writes(r, q) THEN r ELSE last[k]
         /\ req[r] = None /\ pc[r] = "new" /\ ~Active(r) /\ r \notin projects
         /\ q.kind # "create" => q.project # r
         /\ q.kind \in {"restore", "dropSnapshot"} => q.snapshot # r
  BY StoreAssumption DEF ArriveAs, Typed, Types, Flow, Rooted, IsProject, Active

LEMMA ArriveTyped == \A r \in Requests : Typed /\ Arrive(r) => Typed'
<1> SUFFICES ASSUME NEW r \in Requests, Typed, NEW q \in Menu, ArriveAs(r, q) PROVE Typed'
  BY Arrived
<1>0. /\ \A s \in Requests : req'[s] = IF s = r THEN q ELSE req[s]
      /\ \A s \in Requests : pc'[s] = IF s = r THEN First(q) ELSE pc[s]
      /\ req[r] = None /\ r \notin projects
      /\ q.kind # "create" => q.project # r
      /\ q.kind \in {"restore", "dropSnapshot"} => q.snapshot # r
  BY ArrivedFrame
<1>1. First(q) \in Labels(q.kind) /\ First(q) # "row" /\ First(q) \in PCs
  BY MenuTyped DEF First, Labels, PCs
<1>2. Types'
  <2>1. Writes(r, q) \subseteq Places \X Paths
    BY WritesTyped
  <2>2. \A s \in Met(r, q) : Common(r, q, s) \subseteq Places \X Paths
    <3> TAKE s \in Met(r, q)
    <3>1. s \in Requests /\ req[s] \in Menu
      BY Asked DEF Met, Active
    <3>2. Writes(s, req[s]) \subseteq Places \X Paths
      BY <3>1, WritesTyped
    <3> QED
    BY <2>1, <3>2 DEF Common
  <2>3. torn' \subseteq Places \X Paths /\ crossed' \subseteq Requests
    BY <2>2 DEF ArriveAs, Typed, Types, Met
  <2>4. last' \in [Places \X Paths -> Requests \cup {None}]
    BY DEF ArriveAs, Typed, Types
  <2>5. /\ req' \in [Requests -> Menu \cup {None}] /\ todo' \in [Requests -> SUBSET Paths]
        /\ pc' \in [Requests -> PCs]
    BY <1>1, MenuTyped DEF ArriveAs, Typed, Types
  <2> QED
  BY <2>3, <2>4, <2>5 DEF ArriveAs, Typed, Types
<1>3. Flow'
  <2>1. cur' = cur
    BY DEF ArriveAs
  <2> QED
  BY <1>0, <1>1, <2>1, MenuTyped DEF Typed, Flow, Kind
<1>4. Rooted'
  <2>1. ASSUME NEW p, IsProject(p) PROVE IsProject(p)'
    BY <1>0, <2>1 DEF IsProject, Kind
  <2>2. \A p \in projects' : IsProject(p)'
    BY <2>1 DEF ArriveAs, Typed, Rooted
  <2>3. /\ q.kind # "create" => IsProject(q.project)
        /\ q.kind \in {"restore", "dropSnapshot"} =>
             req[q.snapshot] # None /\ Kind(q.snapshot) = "snapshot"
    BY DEF ArriveAs, Typed, Rooted
  <2>4. \A s \in Requests \ {r} : req'[s] = req[s] /\ Kind(s)' = Kind(s)
    BY <1>0 DEF Kind
  <2>5. req'[r] = q /\ Kind(r)' = q.kind
    BY <1>0 DEF Kind
  <2>6. ASSUME NEW s \in Requests, req'[s] # None, Kind(s)' # "create"
        PROVE  IsProject(req[s].project)' /\ req'[s].project # s
    <3>1. PICK p : p = req'[s].project
      OBVIOUS
    <3>2. p # s /\ IsProject(p)
      <4>1. CASE s = r
        BY <1>0, <2>3, <2>5, <2>6, <3>1, <4>1
      <4>2. CASE s # r
        <5>1. req'[s] = req[s] /\ Kind(s)' = Kind(s)
          BY <2>4, <4>2
        <5> QED
        BY <2>6, <3>1, <5>1 DEF Typed, Rooted
      <4> QED
      BY <4>1, <4>2
    <3>3. IsProject(p)'
      BY <2>1, <3>2
    <3> QED
    BY <3>1, <3>2, <3>3 DEF IsProject, Kind
  <2>7. ASSUME NEW s \in Requests, req'[s] # None, Kind(s)' \in {"restore", "dropSnapshot"}
        PROVE  /\ req'[req'[s].snapshot] # None /\ Kind(req[s].snapshot)' = "snapshot"
               /\ req'[s].snapshot # s
    <3>1. PICK d : d = req'[s].snapshot
      OBVIOUS
    <3>2. d \in Requests /\ d # s /\ d # r /\ req[d] # None /\ Kind(d) = "snapshot"
      <4>1. CASE s = r
        BY <1>0, <2>3, <2>5, <2>7, <3>1, <4>1, MenuTyped
      <4>2. CASE s # r
        <5>1. req'[s] = req[s] /\ Kind(s)' = Kind(s) /\ req[s].snapshot \in Requests
          BY <2>4, <2>7, <4>2, Asked
        <5> QED
        BY <1>0, <2>7, <3>1, <5>1 DEF Typed, Rooted
      <4> QED
      BY <4>1, <4>2
    <3> QED
    BY <2>4, <3>1, <3>2 DEF Kind
  <2> QED
  BY <2>2, <2>6, <2>7 DEF Rooted
<1>5. ForeignKeys'
  BY <1>0 DEF ArriveAs, Typed, ForeignKeys, Kind
<1> QED
BY <1>2, <1>3, <1>4, <1>5 DEF Typed

LEMMA DisconnectTyped == \A r \in Requests : Typed /\ Disconnect(r) => Typed'
<1> SUFFICES ASSUME NEW r \in Requests, Typed, Disconnect(r) PROVE Typed'
  OBVIOUS
<1>1. Types'
  BY StoreAssumption DEF Disconnect, Typed, Types
<1> QED
BY <1>1 DEF Disconnect, Typed, Flow, Rooted, IsProject, ForeignKeys, Kind

LEMMA KillTyped == Typed /\ Kill => Typed'
<1> SUFFICES ASSUME Typed, Kill PROVE Typed'
  OBVIOUS
<1>1. \A r \in Requests : pc'[r] = IF Active(r) THEN "killed" ELSE pc[r]
  BY DEF Kill
<1>2. Types'
  <2>1. pc' \in [Requests -> PCs] /\ faults' \in 0..FaultBound
    BY StoreAssumption DEF Kill, Typed, Types, PCs
  <2>2. \A r \in Requests : Active(r) => Writes(r, req[r]) \subseteq Places \X Paths
    BY Asked, WritesTyped DEF Active
  <2>3. torn' \subseteq Places \X Paths
    BY <2>2 DEF Kill, Typed, Types
  <2> QED
  BY <2>1, <2>3 DEF Kill, Typed, Types
<1>3. Flow'
  BY <1>1 DEF Kill, Typed, Flow, Active, Kind
<1>4. Rooted' /\ ForeignKeys'
  BY DEF Kill, Typed, Rooted, IsProject, ForeignKeys, Kind
<1> QED
BY <1>2, <1>3, <1>4 DEF Typed

LEMMA NextTyped == Typed /\ [Next]_vars => Typed'
<1>1. Typed /\ UNCHANGED vars => Typed'
  BY DEF Typed, Types, Flow, Rooted, IsProject, ForeignKeys, Kind
<1> QED
BY <1>1, ArriveTyped, DisconnectTyped, KillTyped, StepTyped DEF Next

LEMMA InitTyped == Init => Typed
<1> SUFFICES ASSUME Init PROVE Typed
  OBVIOUS
<1>1. Types
  BY StoreAssumption DEF Init, Types, NoFiles, PCs
<1>2. Flow /\ Rooted /\ ForeignKeys
  BY StoreAssumption DEF Init, Flow, Rooted, IsProject, ForeignKeys
<1> QED
BY <1>1, <1>2 DEF Typed

\* Rows, objects and requests keep their types, and a project that is deleted
\* leaves no file and no snapshot in the tables.
THEOREM StoreTypes == Spec => []TypeOK
<1>1. Typed => TypeOK
  BY DEF Typed, Types, ForeignKeys, TypeOK
<1> QED
BY <1>1, InitTyped, NextTyped, PTL DEF Spec

-----------------------------------------------------------------------------
(* Snapshots. Nothing is where no request has put it (Untouched); a copy   *)
(* is made where there is none, and the tree of a snapshot is removed only *)
(* when its row is gone for good (Copies).                                 *)

\* A file changes when the request at its label writes it.
LEMMA FileStep ==
  ASSUME Typed, NEW r \in Requests, Step(r), NEW p \in Places, NEW f \in Paths
  PROVE  \/ object'[p][f] = object[p][f]
         \/ \E c \in Contents \cup {None} : Wrote(r, p, f, c) /\ object'[p][f] = c
<1>1. object \in [Places -> [Paths -> Contents \cup {None}]]
  BY DEF Typed, Types
<1>2. CASE object' = object
  BY <1>2
<1>3. ASSUME NEW place \in Places, NEW g \in Paths, NEW c \in Contents \cup {None},
             Wrote(r, place, g, c), object' = [object EXCEPT ![place][g] = c]
      PROVE  \/ object'[p][f] = object[p][f]
             \/ \E d \in Contents \cup {None} : Wrote(r, p, f, d) /\ object'[p][f] = d
  <2>1. object'[p][f] = IF p = place /\ f = g THEN c ELSE object[p][f]
    BY <1>1, <1>3, FilePut
  <2> QED
  BY <1>3, <2>1
<1> QED
BY <1>2, <1>3, ObjectStep

\* Whose files a request writes: a project's, its own if it is a snapshot, or
\* those of the snapshot it deletes.
LEMMA WrotePlace ==
  ASSUME Typed, NEW r \in Requests, NEW p \in Places, NEW f, NEW c, Wrote(r, p, f, c)
  PROVE  /\ pc[r] \in {"store", "welcome", "erase", "tree"}
         /\ \/ IsProject(p)
            \/ pc[r] = "store" /\ Kind(r) = "snapshot" /\ p = r
            \/ pc[r] = "tree" /\ p = req[r].snapshot /\ c = None
         /\ p \in Given \/ req[p] # None
<1>1. pc[r] \in {"store", "welcome", "erase", "tree"}
  BY DEF Wrote
<1>2. req[r] # None
  BY <1>1, KindOfLabel
<1>3. IsProject(Target(r)) \/ Kind(r) \notin {"put", "import", "restore", "duplicate", "create", "open"}
  BY <1>2 DEF Typed, Rooted, Target, IsProject
<1>4. CASE pc[r] = "store"
  <2>1. Kind(r) \in {"put", "import", "snapshot", "restore", "duplicate", "create"}
    BY <1>4, KindOfLabel
  <2> QED
  BY <1>2, <1>3, <1>4, <2>1 DEF Wrote, Destination, IsProject
<1>5. CASE pc[r] = "welcome"
  <2>1. Kind(r) \in {"open", "create"}
    BY <1>5, KindOfLabel
  <2> QED
  BY <1>3, <1>5, <2>1 DEF Wrote, IsProject
<1>6. CASE pc[r] = "erase"
  <2>1. Kind(r) \in Removals
    BY <1>6, KindOfLabel
  <2> QED
  BY <1>2, <1>6, <2>1 DEF Wrote, Typed, Rooted, IsProject
<1>7. CASE pc[r] = "tree"
  <2>1. Kind(r) = "dropSnapshot"
    BY <1>7, KindOfLabel
  <2> QED
  BY <1>2, <1>7, <2>1 DEF Wrote, Typed, Rooted
<1> QED
BY <1>1, <1>4, <1>5, <1>6, <1>7

Early == {"new", "find", "list", "insert"}

Untouched ==
  \A r \in Requests :
    /\ pc[r] \in Early => r \notin projects /\ manifest[r] = None
    /\ req[r] = None => \A f \in Paths : object[r][f] = None

Copies ==
  \A r \in Requests :
    /\ pc[r] \in {"list", "insert"} /\ Kind(r) = "snapshot" => \A f \in Paths : object[r][f] = None
    /\ pc[r] = "store" /\ Kind(r) = "snapshot" => \A f \in todo[r] : object[r][f] = None
    /\ pc[r] = "tree" => manifest[req[r].snapshot] = None /\ pc[req[r].snapshot] \notin Early

\* A request that has made its row does not go back.
LEMMA NotEarlyAgain ==
  ASSUME Typed, NEW r \in Requests, Step(r), pc'[r] \in Early
  PROVE  pc[r] \in {"find", "list"} /\ UNCHANGED tables /\ object' = object
<1>0. pc \in [Requests -> PCs]
  BY DEF Typed, Types
<1>1. CASE FindProject(r) \/ List(r)
  BY <1>1 DEF FindProject, List
<1>2. ~(Insert(r) \/ StoreRow(r) \/ \E f \in Paths : StoreFile(r, f))
  BY <1>0 DEF Early, Insert, StoreRow, StoreFile, Goto, After, OnError, OnStoreError
<1>3. ~(Undo(r) \/ Count(r) \/ Welcome(r) \/ WelcomeRow(r))
  BY <1>0 DEF Early, Undo, Count, Welcome, WelcomeRow, Goto
<1>4. ~(EraseRows(r) \/ DropSnapshot(r) \/ Trash(r) \/ CheckTrashed(r) \/ DropProject(r))
  BY <1>0 DEF Early, EraseRows, DropSnapshot, Trash, CheckTrashed, DropProject, Goto
<1>5. ~(RemoveTree(r) \/ \E f \in Paths : Erase(r, f))
  BY <1>0 DEF Early, RemoveTree, Erase, Goto
<1> QED
BY <1>1, <1>2, <1>3, <1>4, <1>5 DEF Step

\* Which rows of snapshots a step makes.
LEMMA ManifestStep ==
  ASSUME Typed, NEW r \in Requests, Step(r), NEW s \in Requests, manifest'[s] # manifest[s]
  PROVE  \/ s = r /\ pc[r] = "insert" /\ Kind(r) = "snapshot" /\ manifest'[s] = todo[r]
         \/ manifest'[s] = None
<1>1. manifest \in [Requests -> (SUBSET Paths) \cup {None}]
  BY DEF Typed, Types
<1> QED
BY <1>1, TableStep DEF TableSteps, InsertRow, PutRow, DeleteRow, DeleteRows, DropManifest, Mark

LEMMA UntouchedStep == Typed /\ Untouched /\ [Next]_vars => Untouched'
<1> SUFFICES ASSUME Typed, Untouched, [Next]_vars PROVE Untouched'
  OBVIOUS
<1>1. ASSUME NEW r \in Requests, Step(r) PROVE Untouched'
  <2>0. /\ req' = req /\ \A s \in Requests : pc'[s] = IF s = r THEN pc'[r] ELSE pc[s]
        /\ req[r] # None
    BY <1>1, StepFrame, Labelled, KindOfLabel DEF Typed, Types
  <2>1. ASSUME NEW s \in Requests, pc'[s] \in Early PROVE s \notin projects' /\ manifest'[s] = None
    <3>1. CASE s = r
      BY <1>1, <2>1, <3>1, NotEarlyAgain DEF Early, Untouched
    <3>2. CASE s # r
      <4>1. s \notin projects /\ manifest[s] = None
        BY <2>0, <2>1, <3>2 DEF Untouched
      <4> QED
      BY <1>1, <3>2, <4>1, StepTablesTyped, ManifestStep
    <3> QED
    BY <3>1, <3>2
  <2>2. ASSUME NEW s \in Requests, req'[s] = None, NEW f \in Paths PROVE object'[s][f] = None
    <3>1. s \in Places /\ s \notin Given /\ object[s][f] = None
      BY <2>0, <2>2, StoreAssumption DEF Untouched
    <3> QED
    BY <1>1, <2>0, <2>2, <3>1, FileStep, WrotePlace
  <2> QED
  BY <2>1, <2>2 DEF Untouched
<1>2. ASSUME NEW r \in Requests, Arrive(r) PROVE Untouched'
  <2>1. PICK q \in Menu : ArriveAs(r, q)
    BY <1>2, Arrived
  <2>2. /\ \A s \in Requests : req'[s] = IF s = r THEN q ELSE req[s]
        /\ \A s \in Requests : pc'[s] = IF s = r THEN First(q) ELSE pc[s]
        /\ r \notin projects /\ pc[r] = "new" /\ q # None
    BY <2>1, ArrivedFrame, MenuTyped
  <2>3. UNCHANGED <<projects, manifest, object>>
    BY <2>1 DEF ArriveAs
  <2> QED
  BY <2>2, <2>3 DEF Untouched, Early
<1>3. ASSUME NEW r \in Requests, Disconnect(r) PROVE Untouched'
  BY <1>3 DEF Disconnect, Untouched
<1>4. CASE Kill
  BY <1>4 DEF Kill, Untouched, Early
<1>5. CASE UNCHANGED vars
  BY <1>5 DEF Untouched
<1> QED
BY <1>1, <1>2, <1>3, <1>4, <1>5 DEF Next

LEMMA CopiesStep == Typed /\ Untouched /\ Copies /\ [Next]_vars => Copies'
<1> SUFFICES ASSUME Typed, Untouched, Copies, [Next]_vars PROVE Copies'
  OBVIOUS
<1>1. ASSUME NEW r \in Requests, Step(r) PROVE Copies'
  <2>0. /\ req' = req /\ \A s \in Requests : pc'[s] = IF s = r THEN pc'[r] ELSE pc[s]
        /\ \A s \in Requests \ {r} : todo'[s] = todo[s]
        /\ \A s \in Requests : Kind(s)' = Kind(s) /\ todo[s] \in SUBSET Paths
        /\ pc \in [Requests -> PCs] /\ todo \in [Requests -> SUBSET Paths]
    BY <1>1, StepFrame DEF Typed, Types, Kind
  <2>1. ASSUME NEW s \in Requests, req[s] # None, Kind(s) = "snapshot", NEW f \in Paths,
               object[s][f] = None
        PROVE  \/ object'[s][f] = None
               \/ s = r /\ pc[r] = "store" /\ f \in todo[r]
    <3>1. s \in Places /\ ~IsProject(s)
      BY <2>1, StoreAssumption DEF IsProject
    <3> QED
    BY <1>1, <2>1, <3>1, FileStep, WrotePlace DEF Wrote
  <2>2. ASSUME NEW s \in Requests, pc'[s] \in {"list", "insert"}, Kind(s) = "snapshot", NEW f \in Paths
        PROVE  object'[s][f] = None
    <3>1. pc[s] \in {"list", "insert"} /\ (s = r => object' = object)
      BY <1>1, <2>0, <2>2, NotEarlyAgain, KindOfLabel DEF Early
    <3>2. object[s][f] = None
      BY <2>2, <3>1 DEF Copies
    <3> QED
    BY <2>1, <2>2, <3>1, <3>2, KindOfLabel
  <2>3. ASSUME NEW s \in Requests, pc'[s] = "store", Kind(s) = "snapshot", NEW f \in todo'[s]
        PROVE  object'[s][f] = None
    <3>1. CASE s # r
      BY <2>0, <2>1, <2>3, <3>1, KindOfLabel DEF Copies
    <3>2. CASE s = r /\ pc[r] = "store"
      <4>1. PICK g \in Paths : StoreFile(r, g)
        BY <1>1, <3>2, Labelled
      <4>2. todo'[r] = todo[r] \ {g} /\ object[r][f] = None /\ f # g /\ f \in Paths
        BY <2>0, <2>3, <3>2, <4>1 DEF StoreFile, Copies
      <4>3. \/ object' = object
            \/ object' = [object EXCEPT ![r][g] = Source(r, g)]
        BY <2>3, <3>2, <4>1 DEF StoreFile, PutFile, MayHaveHappened, Destination
      <4> QED
      BY <3>2, <4>2, <4>3 DEF Typed, Types
    <3>3. CASE s = r /\ pc[r] # "store"
      <4>1. pc[r] = "insert" /\ todo' = todo /\ object' = object
        <5>1. pc[r] \in {"list", "insert"}
          BY <1>1, <2>3, <3>3, Labelled, Asked DEF Typed, Flow, Labels
        <5>2. pc[r] = "insert"
          BY <1>1, <2>0, <2>3, <3>3, <5>1, Labelled, ListCases DEF Lists, Goto, AfterList
        <5> QED
        BY <1>1, <5>2, Labelled DEF Insert
      <4> QED
      BY <2>0, <2>3, <3>3, <4>1 DEF Copies
    <3> QED
    BY <3>1, <3>2, <3>3
  <2>4. ASSUME NEW s \in Requests, pc'[s] = "tree"
        PROVE  manifest'[req[s].snapshot] = None /\ pc'[req[s].snapshot] \notin Early
    <3>1. manifest'[req[s].snapshot] = None /\ pc[req[s].snapshot] \notin Early
          /\ req[s].snapshot \in Requests
      <4>1. CASE pc[s] = "tree"
        <5>1. /\ manifest[req[s].snapshot] = None /\ pc[req[s].snapshot] \notin Early
              /\ req[s].snapshot \in Requests
          BY <4>1, KindOfLabel, Asked DEF Copies
        <5> QED
        BY <1>1, <5>1, ManifestStep DEF Early
      <4>2. CASE pc[s] # "tree"
        <5>1. s = r
          BY <2>0, <2>4, <4>2
        <5>2. Kind(r) = "dropSnapshot" /\ req[r] # None /\ pc[r] = "update"
          BY <1>1, <2>0, <2>4, <4>2, <5>1, StepTyped, KindOfLabel, Labelled, Asked
             DEF Typed, Flow, Labels, Kind
        <5>3. req[r].snapshot \in Requests
          BY <5>2, Asked
        <5>4. ManifestOf(r) # None /\ DropManifest(r)
          BY <1>1, <2>0, <2>4, <4>2, <5>1, <5>2, Labelled DEF DropSnapshot, Trash, Goto
        <5> QED
        BY <5>1, <5>3, <5>4 DEF ManifestOf, DropManifest, Untouched, Typed, Types
      <4> QED
      BY <4>1, <4>2
    <3> QED
    BY <1>1, <2>0, <3>1, NotEarlyAgain DEF Early
  <2> QED
  BY <2>0, <2>2, <2>3, <2>4 DEF Copies
<1>2. ASSUME NEW r \in Requests, Arrive(r) PROVE Copies'
  <2>1. PICK q \in Menu : ArriveAs(r, q)
    BY <1>2, Arrived
  <2>2. /\ \A s \in Requests : req'[s] = IF s = r THEN q ELSE req[s]
        /\ \A s \in Requests : pc'[s] = IF s = r THEN First(q) ELSE pc[s]
        /\ \A s \in Requests : todo'[s] = IF s = r THEN q.paths ELSE todo[s]
        /\ pc[r] = "new" /\ req[r] = None
    BY <2>1, ArrivedFrame
  <2>3. UNCHANGED <<manifest, object>> /\ \A f \in Paths : object[r][f] = None
    BY <2>1, <2>2 DEF ArriveAs, Untouched
  <2>4. First(q) # "tree" /\ (First(q) = "store" => q.kind # "snapshot")
    BY MenuTyped DEF First
  <2>5. ASSUME NEW s \in Requests, s # r, pc[s] = "tree"
        PROVE  pc'[req[s].snapshot] \notin Early
    BY <2>2, <2>5, KindOfLabel, Asked DEF Copies, Early
  <2> QED
  BY <2>2, <2>3, <2>4, <2>5 DEF Copies, Kind
<1>3. ASSUME NEW r \in Requests, Disconnect(r) PROVE Copies'
  BY <1>3 DEF Disconnect, Copies, Kind
<1>4. CASE Kill
  <2>1. \A r \in Requests : pc'[r] = pc[r] \/ pc'[r] = "killed"
    BY <1>4 DEF Kill
  <2>2. UNCHANGED <<req, todo, object, manifest>>
    BY <1>4 DEF Kill
  <2> QED
  BY <2>1, <2>2, KindOfLabel, Asked DEF Copies, Early, Kind
<1>5. CASE UNCHANGED vars
  BY <1>5 DEF Copies, Kind
<1> QED
BY <1>1, <1>2, <1>3, <1>4, <1>5 DEF Next

Sound == Typed /\ Untouched /\ Copies

LEMMA StoreSound == Spec => []Sound
<1>1. Init => Untouched /\ Copies
  BY StoreAssumption DEF Init, Untouched, Copies, Early, NoFiles
<1> QED
BY <1>1, InitTyped, NextTyped, UntouchedStep, CopiesStep, PTL DEF Spec, Sound

\* The copies of a snapshot that is listed are not touched.
LEMMA CopyKept ==
  ASSUME Sound, [Next]_vars, NEW s \in Requests, NEW f \in Paths,
         manifest[s] # None, object[s][f] # None
  PROVE  object'[s][f] = object[s][f]
<1>1. ASSUME NEW r \in Requests, Step(r) PROVE object'[s][f] = object[s][f]
  <2>1. s \in Places /\ Kind(s) = "snapshot" /\ ~IsProject(s)
    BY StoreAssumption DEF Sound, Typed, ForeignKeys, IsProject
  <2> QED
  BY <1>1, <2>1, FileStep, WrotePlace DEF Sound, Copies, Wrote
<1>2. Kill \/ UNCHANGED vars \/ (\E r \in Requests : Arrive(r) \/ Disconnect(r)) => object' = object
  BY DEF Arrive, Kill, Disconnect
<1> QED
BY <1>1, <1>2 DEF Next

\* While a snapshot is listed its copies stay as they are: every write of another
\* request goes to a project, and the tree is removed after the row.
THEOREM CopiesUntouched == Spec => SnapshotKept
<1> DEFINE Kept == \A s \in Requests, f \in Paths :
                     manifest[s] # None /\ manifest'[s] # None /\ object[s][f] # None
                       => object'[s][f] = object[s][f]
<1>1. Sound /\ [Next]_vars => [Kept]_vars
  BY CopyKept
<1> QED
BY <1>1, StoreSound, PTL DEF Spec, SnapshotKept

-----------------------------------------------------------------------------
(* Rows and objects. A request touches only what it may write (Within); a  *)
(* removal and a request beside it that writes the same file have torn it  *)
(* (Beside); a file whose row is about to be made has its object (Pending).*)

Within ==
  \A r \in Requests :
    req[r] # None /\ Kind(r) \in {"put", "import", "remove", "removeAll"} =>
      todo[r] \subseteq req[r].paths /\ (pc[r] = "row" => cur[r] \in req[r].paths)

Beside ==
  \A r, s \in Requests :
    r # s /\ Active(r) /\ Active(s) /\ Kind(r) \in Removals =>
      Writes(r, req[r]) \cap Writes(s, req[s]) \subseteq torn

Safe(p, f) == object[p][f] # None \/ <<p, f>> \in torn

Pending ==
  \A r \in Requests :
    /\ pc[r] = "row" => Safe(Target(r), cur[r])
    /\ pc[r] = "welcomeRow" => Safe(Target(r), Readme)

Erasing(p, f) ==
  \E r \in Requests : pc[r] \in {"erase", "eraseRows"} /\ <<p, f>> \in Writes(r, req[r])

RowsSafe ==
  \A p \in projects : \A f \in rows[p] : Safe(p, f) \/ Erasing(p, f)

\* Nothing but the context of a client changes.
Quiet == UNCHANGED <<tables, object, control, pc, broken, history>>

LEMMA Cases ==
  ASSUME [Next]_vars
  PROVE  \/ \E r \in Requests : Step(r)
         \/ \E r \in Requests, q \in Menu : ArriveAs(r, q)
         \/ Kill
         \/ Quiet
<1>1. ASSUME NEW r \in Requests, Disconnect(r) PROVE Quiet
  BY <1>1 DEF Disconnect, Quiet
<1>2. UNCHANGED vars => Quiet
  BY DEF Quiet
<1> QED
BY <1>1, <1>2, Arrived DEF Next

\* The next files of a request are files it may write.
LEMMA NextFiles ==
  ASSUME Typed, Within, NEW r \in Requests
  PROVE  /\ pc[r] = "store" => \A f \in todo[r] : <<Destination(r), f>> \in Writes(r, req[r])
         /\ pc[r] = "erase" => \A f \in todo[r] : <<req[r].project, f>> \in Writes(r, req[r])
         /\ pc[r] = "row" => <<Target(r), cur[r]>> \in Writes(r, req[r])
         /\ pc[r] \in {"welcome", "welcomeRow"} => <<Target(r), Readme>> \in Writes(r, req[r])
<1>0. todo[r] \in SUBSET Paths /\ (pc[r] = "row" => cur[r] \in Paths) /\ Readme \in Paths
  BY StoreAssumption DEF Typed, Types, Flow
<1>1. CASE pc[r] = "store"
  <2>1. req[r] # None /\ Kind(r) \in {"put", "import", "snapshot", "restore", "duplicate", "create"}
    BY <1>1, KindOfLabel
  <2> QED
  BY <1>0, <1>1, <2>1 DEF Within, Writes, Files, Destination, Target, Kind
<1>2. CASE pc[r] = "erase"
  <2>1. req[r] # None /\ Kind(r) \in {"remove", "removeAll"}
    BY <1>2, KindOfLabel
  <2> QED
  BY <1>0, <1>2, <2>1 DEF Within, Writes, Files, Kind
<1>3. CASE pc[r] = "row"
  <2>1. req[r] # None /\ Kind(r) \in {"put", "import", "restore", "duplicate", "create"}
    BY <1>3, KindOfLabel
  <2> QED
  BY <1>0, <1>3, <2>1 DEF Within, Writes, Files, Target, Kind
<1>4. CASE pc[r] \in {"welcome", "welcomeRow"}
  <2>1. req[r] # None /\ Kind(r) \in {"open", "create"}
    BY <1>4, KindOfLabel
  <2> QED
  BY <1>0, <1>4, <2>1 DEF Writes, Files, Target, Kind
<1> QED
BY <1>1, <1>2, <1>3, <1>4

\* A step touches only files its request may write.
LEMMA Touched ==
  ASSUME Typed, Within, NEW r \in Requests, Step(r), NEW p \in Places, NEW f \in Paths
  PROVE  /\ object'[p][f] # object[p][f] => <<p, f>> \in Writes(r, req[r])
         /\ f \in rows'[p] /\ f \notin rows[p] =>
              /\ object' = object /\ <<p, f>> \in Writes(r, req[r]) /\ p = Target(r)
              /\ (pc[r] = "row" /\ f = cur[r]) \/ (pc[r] = "welcomeRow" /\ f = Readme)
         /\ f \notin rows'[p] /\ f \in rows[p] =>
              /\ <<p, f>> \in Writes(r, req[r])
              /\ pc[r] \in {"undo", "delete", "eraseRows"}
<1>0. /\ rows \in [Places -> SUBSET Paths] /\ req[r] # None
      /\ req[r].project \in Places /\ Target(r) \in Places
  BY Labelled, KindOfLabel, Asked DEF Typed, Types
<1>1. ASSUME NEW c, Wrote(r, p, f, c) PROVE <<p, f>> \in Writes(r, req[r])
  <2>1. pc[r] = "tree" /\ p = req[r].snapshot => <<p, f>> \in Writes(r, req[r])
    BY KindOfLabel DEF Writes, Files, Kind
  <2> QED
  BY <1>1, <2>1, NextFiles DEF Wrote
<1>2. ASSUME f \in rows'[p], f \notin rows[p]
      PROVE  /\ <<p, f>> \in Writes(r, req[r]) /\ p = Target(r)
             /\ (pc[r] = "row" /\ f = cur[r]) \/ (pc[r] = "welcomeRow" /\ f = Readme)
  <2>1. \/ pc[r] = "row" /\ p = Target(r) /\ f = cur[r]
        \/ pc[r] = "welcomeRow" /\ p = Target(r) /\ f = Readme
    BY <1>0, <1>2, TableStep DEF TableSteps, InsertRow, PutRow, DeleteRow, DeleteRows, DropManifest, Mark
  <2> QED
  BY <2>1, NextFiles
<1>3. pc[r] \in {"row", "welcomeRow"} => object' = object
  BY Labelled DEF StoreRow, WelcomeRow
<1>4. ASSUME f \notin rows'[p], f \in rows[p]
      PROVE  <<p, f>> \in Writes(r, req[r]) /\ pc[r] \in {"undo", "delete", "eraseRows"}
  <2>1. \/ pc[r] = "undo" /\ p = r
        \/ pc[r] = "delete" /\ p = req[r].project
        \/ pc[r] = "eraseRows" /\ p = req[r].project /\ f \in req[r].paths
    BY <1>0, <1>4, TableStep DEF TableSteps, InsertRow, PutRow, DeleteRow, DeleteRows, DropManifest, Mark
  <2> QED
  BY <2>1, KindOfLabel DEF Writes, Files, Kind
<1> QED
BY <1>1, <1>2, <1>3, <1>4, FileStep

LEMMA WithinNext == Typed /\ Within /\ [Next]_vars => Within'
<1> SUFFICES ASSUME Typed, Within, [Next]_vars PROVE Within'
  OBVIOUS
<1>1. ASSUME NEW r \in Requests, Step(r) PROVE Within'
  <2>1. /\ req' = req /\ pc' = [pc EXCEPT ![r] = pc'[r]]
        /\ \A s \in Requests \ {r} : todo'[s] = todo[s] /\ cur'[s] = cur[s]
        /\ pc \in [Requests -> PCs] /\ todo \in [Requests -> SUBSET Paths]
        /\ cur \in [Requests -> Paths \cup {None}]
    BY <1>1, StepFrame DEF Typed, Types
  <2>2. ASSUME req[r] # None, Kind(r) \in {"put", "import", "remove", "removeAll"}
        PROVE  todo'[r] \subseteq req[r].paths /\ (pc'[r] = "row" => cur'[r] \in req[r].paths)
    <3>1. todo[r] \subseteq req[r].paths
      BY <2>2 DEF Within
    <3>2. CASE List(r)
      <4>1. Kind(r) = "removeAll"
        BY <2>2, <3>2, KindOfLabel DEF List
      <4>2. todo'[r] = todo[r] \/ todo'[r] \subseteq Listed(r)
        BY <2>1, <3>2, ListCases DEF Lists
      <4>3. pc'[r] # "row"
        BY <2>1, <3>2, <4>1, ListCases DEF Lists, Goto, AfterList
      <4> QED
      BY <3>1, <4>1, <4>2, <4>3 DEF Listed
    <3>3. ASSUME NEW f \in Paths, StoreFile(r, f) PROVE todo'[r] = todo[r] \ {f} /\ f \in todo[r]
                                                      /\ (pc'[r] = "row" => cur'[r] = f)
      BY <2>1, <3>3 DEF StoreFile
    <3>4. ASSUME NEW f \in Paths, Erase(r, f) PROVE todo'[r] \subseteq todo[r] /\ pc'[r] # "row"
      BY <2>1, <3>4 DEF Erase, Goto
    <3>5. CASE FindProject(r) \/ Insert(r) \/ StoreRow(r) \/ Undo(r)
      <4>1. todo' = todo /\ pc'[r] # "row"
        BY <2>1, <3>5 DEF FindProject, Insert, StoreRow, Undo, Goto, After, OnError
      <4> QED
      BY <3>1, <4>1
    <3>6. CASE Count(r) \/ Welcome(r) \/ WelcomeRow(r) \/ EraseRows(r)
      <4>1. todo' = todo /\ pc'[r] # "row"
        BY <2>1, <3>6 DEF Count, Welcome, WelcomeRow, EraseRows, Goto
      <4> QED
      BY <3>1, <4>1
    <3>7. CASE DropSnapshot(r) \/ RemoveTree(r) \/ Trash(r) \/ CheckTrashed(r) \/ DropProject(r)
      <4>1. todo' = todo /\ pc'[r] # "row"
        BY <2>1, <3>7 DEF DropSnapshot, RemoveTree, Trash, CheckTrashed, DropProject, Goto
      <4> QED
      BY <3>1, <4>1
    <3> QED
    BY <1>1, <3>1, <3>2, <3>3, <3>4, <3>5, <3>6, <3>7 DEF Step
  <2> QED
  BY <2>1, <2>2 DEF Within, Kind
<1>2. ASSUME NEW r \in Requests, NEW q \in Menu, ArriveAs(r, q) PROVE Within'
  <2>1. /\ \A s \in Requests : req'[s] = IF s = r THEN q ELSE req[s]
        /\ \A s \in Requests : pc'[s] = IF s = r THEN First(q) ELSE pc[s]
        /\ \A s \in Requests : todo'[s] = IF s = r THEN q.paths ELSE todo[s]
    BY <1>2, ArrivedFrame
  <2>2. First(q) # "row" /\ cur' = cur
    BY <1>2, MenuTyped DEF First, ArriveAs
  <2> QED
  BY <2>1, <2>2 DEF Within, Kind
<1>3. CASE Kill
  <2>1. UNCHANGED <<req, todo, cur>> /\ \A r \in Requests : pc'[r] = "row" => pc[r] = "row"
    BY <1>3 DEF Kill
  <2> QED
  BY <2>1 DEF Within, Kind
<1>4. CASE Quiet
  BY <1>4 DEF Quiet, Within, Kind
<1> QED
BY <1>1, <1>2, <1>3, <1>4, Cases

\* Who runs after a step ran before it.
LEMMA StillActive ==
  ASSUME Typed, NEW r \in Requests, Step(r), NEW s \in Requests, Active(s)'
  PROVE  Active(s) /\ req'[s] = req[s]
BY StepFrame, Labelled, KindOfLabel DEF Active, Typed, Types

LEMMA BesideNext == Typed /\ Beside /\ [Next]_vars => Beside'
<1> SUFFICES ASSUME Typed, Beside, [Next]_vars,
                    NEW s \in Requests, NEW t \in Requests, s # t, Active(s)', Active(t)',
                    Kind(s)' \in Removals
             PROVE  (Writes(s, req[s]) \cap Writes(t, req[t]))' \subseteq torn'
  BY DEF Beside
<1>1. ASSUME NEW r \in Requests, Step(r)
      PROVE  (Writes(s, req[s]) \cap Writes(t, req[t]))' \subseteq torn'
  <2>1. /\ Active(s) /\ Active(t) /\ req' = req /\ torn \subseteq torn'
    BY <1>1, StepFrame, StillActive
  <2> QED
  BY <2>1 DEF Beside, Kind, Writes
<1>2. ASSUME NEW r \in Requests, NEW q \in Menu, ArriveAs(r, q)
      PROVE  (Writes(s, req[s]) \cap Writes(t, req[t]))' \subseteq torn'
  <2>1. /\ \A u \in Requests : req'[u] = IF u = r THEN q ELSE req[u]
        /\ \A u \in Requests : pc'[u] = IF u = r THEN First(q) ELSE pc[u]
    BY <1>2, ArrivedFrame
  <2>2. \A u \in Requests \ {r} : Active(u)' => Active(u)
    BY <2>1 DEF Active
  <2>3. torn \subseteq torn' /\ \A u \in Met(r, q) : {q.kind, Kind(u)} \cap Removals # {} =>
                                     Common(r, q, u) \subseteq torn'
    BY <1>2 DEF ArriveAs
  <2>4. ASSUME NEW u \in Requests, u # r, Active(u), {q.kind, Kind(u)} \cap Removals # {}
        PROVE  Writes(r, q) \cap Writes(u, req[u]) \subseteq torn'
    <3>1. Writes(r, q) \cap Writes(u, req[u]) \subseteq Common(r, q, u)
      BY DEF Common
    <3>2. CASE Common(r, q, u) = {}
      BY <3>1, <3>2
    <3>3. CASE Common(r, q, u) # {}
      BY <2>3, <2>4, <3>1, <3>3 DEF Met
    <3> QED
    BY <3>2, <3>3
  <2>5. /\ Writes(s, req[s])' = IF s = r THEN Writes(r, q) ELSE Writes(s, req[s])
        /\ Writes(t, req[t])' = IF t = r THEN Writes(r, q) ELSE Writes(t, req[t])
        /\ Kind(s)' = IF s = r THEN q.kind ELSE Kind(s)
    BY <2>1 DEF Writes, Kind
  <2>6. CASE s # r /\ t # r
    BY <2>2, <2>3, <2>5, <2>6 DEF Beside
  <2>7. CASE s = r
    <3>1. Active(t) /\ q.kind \in Removals /\ t # r
      BY <2>2, <2>5, <2>7
    <3> QED
    BY <2>4, <2>5, <2>7, <3>1
  <2>8. CASE t = r
    <3>1. Active(s) /\ Kind(s) \in Removals /\ s # r
      BY <2>2, <2>5, <2>8
    <3> QED
    BY <2>4, <2>5, <2>8, <3>1
  <2> QED
  BY <2>6, <2>7, <2>8
<1>3. CASE Kill
  <2>1. ~Active(s)'
    BY <1>3 DEF Kill, Active
  <2> QED
  BY <2>1
<1>4. CASE Quiet
  BY <1>4 DEF Quiet, Beside, Active, Kind, Writes
<1> QED
BY <1>1, <1>2, <1>3, <1>4, Cases

\* Which call leads to the row of a file.
LEMMA StepLabels ==
  ASSUME Typed, NEW r \in Requests, Step(r)
  PROVE  /\ pc'[r] = "row" => \E f \in Paths : StoreFile(r, f)
         /\ pc'[r] = "welcomeRow" => Welcome(r)
         /\ pc'[r] = "welcome" => Count(r)
         /\ pc'[r] = "store" => Insert(r) \/ StoreRow(r) \/ List(r) \/ \E f \in Paths : StoreFile(r, f)
         /\ pc'[r] = "insert" => List(r)
<1>0. pc \in [Requests -> PCs]
  BY DEF Typed, Types
<1>1. CASE FindProject(r)
  BY <1>0, <1>1 DEF FindProject, Goto
<1>2. CASE List(r)
  <2>1. pc'[r] \notin {"row", "welcomeRow", "welcome"}
    BY <1>0, <1>2, ListCases DEF Lists, Goto, AfterList, After
  <2> QED
  BY <1>2, <2>1
<1>3. CASE Insert(r) \/ StoreRow(r)
  <2>1. pc'[r] \notin {"row", "welcomeRow", "welcome", "insert"}
    BY <1>0, <1>3 DEF Insert, StoreRow, Goto, OnError, After
  <2> QED
  BY <1>3, <2>1
<1>4. ASSUME NEW f \in Paths, StoreFile(r, f)
      PROVE  pc'[r] \notin {"welcomeRow", "welcome", "insert"}
  BY <1>0, <1>4 DEF StoreFile, Goto, OnStoreError, OnError, After
<1>5. CASE Undo(r) \/ Count(r) \/ Welcome(r) \/ WelcomeRow(r)
  BY <1>0, <1>5 DEF Undo, Count, Welcome, WelcomeRow, Goto
<1>6. CASE EraseRows(r) \/ DropSnapshot(r) \/ RemoveTree(r) \/ \E f \in Paths : Erase(r, f)
  BY <1>0, <1>6 DEF EraseRows, DropSnapshot, RemoveTree, Erase, Goto
<1>7. CASE Trash(r) \/ CheckTrashed(r) \/ DropProject(r)
  BY <1>0, <1>7 DEF Trash, CheckTrashed, DropProject, Goto
<1> QED
BY <1>1, <1>2, <1>3, <1>4, <1>5, <1>6, <1>7 DEF Step

\* A file that is stored well before its row is inserted.
LEMMA StoredFile ==
  ASSUME Typed, NEW r \in Requests, NEW f \in Paths, StoreFile(r, f)
  PROVE  /\ pc[r] = "store" /\ f \in todo[r] /\ todo'[r] = todo[r] \ {f} /\ UNCHANGED <<tables, history>>
         /\ pc'[r] = "row" => /\ Source(r, f) # None /\ cur'[r] = f /\ Kind(r) # "snapshot"
                              /\ object' = [object EXCEPT ![Destination(r)][f] = Source(r, f)]
<1>0. pc \in [Requests -> PCs] /\ cur \in [Requests -> Paths \cup {None}]
      /\ todo \in [Requests -> SUBSET Paths]
  BY DEF Typed, Types
<1>1. pc[r] = "store" /\ f \in todo[r] /\ todo'[r] = todo[r] \ {f} /\ UNCHANGED <<tables, history>>
      /\ (pc'[r] = "row" => cur'[r] = f)
  BY <1>0 DEF StoreFile
<1>2. \A R : OnStoreError(r, R) # "row" /\ After(r, R) # "row"
  BY DEF OnStoreError, OnError, After
<1>3. pc'[r] = "row" => /\ Source(r, f) # None /\ Kind(r) # "snapshot"
                        /\ object' = [object EXCEPT ![Destination(r)][f] = Source(r, f)]
  BY <1>0, <1>2 DEF StoreFile, Goto, PutFile
<1> QED
BY <1>1, <1>3

LEMMA PendingNext == Typed /\ Within /\ Beside /\ Pending /\ [Next]_vars => Pending'
<1> SUFFICES ASSUME Typed, Within, Beside, Pending, [Next]_vars PROVE Pending'
  OBVIOUS
<1>1. ASSUME NEW r \in Requests, Step(r) PROVE Pending'
  <2>1. /\ req' = req /\ \A s \in Requests : pc'[s] = IF s = r THEN pc'[r] ELSE pc[s]
        /\ \A s \in Requests \ {r} : cur'[s] = cur[s]
        /\ torn \subseteq torn' /\ Active(r)
    BY <1>1, StepFrame, Labelled, KindOfLabel DEF Typed, Types
  <2>2. ASSUME NEW s \in Requests, s # r, pc[s] \in {"row", "welcomeRow"}, NEW f \in Paths,
               <<Target(s), f>> \in Writes(s, req[s]), Safe(Target(s), f)
        PROVE  Safe(Target(s), f)'
    <3>1. /\ Active(s) /\ Target(s) \in Places /\ IsProject(Target(s))
          /\ Target(s)' = Target(s)
      <4>1. req[s] # None /\ Active(s)
            /\ Kind(s) \in {"put", "import", "restore", "duplicate", "create", "open"}
        BY <2>2, KindOfLabel
      <4> QED
      BY <2>1, <4>1, Asked DEF Typed, Rooted, Target, IsProject, Kind
    <3>2. CASE <<Target(s), f>> \in torn
      BY <2>1, <3>1, <3>2 DEF Safe
    <3>3. CASE object[Target(s)][f] # None /\ object'[Target(s)][f] # None
      BY <3>1, <3>3 DEF Safe
    <3>4. CASE object[Target(s)][f] # None /\ object'[Target(s)][f] = None
      <4>1. Wrote(r, Target(s), f, None)
        BY <1>1, <3>1, <3>4, FileStep
      <4>2. pc[r] = "erase"
        <5>1. pc[r] = "tree" => ~IsProject(req[r].snapshot)
          BY KindOfLabel, Asked, StoreAssumption DEF Typed, Rooted, IsProject
        <5> QED
        BY <3>1, <4>1, <5>1, StoreAssumption DEF Wrote
      <4>3. Kind(r) \in Removals /\ <<Target(s), f>> \in Writes(r, req[r])
        BY <1>1, <3>1, <3>4, <4>2, KindOfLabel, Touched
      <4> QED
      BY <2>1, <2>2, <3>1, <4>3 DEF Beside, Safe
    <3> QED
    BY <2>2, <3>2, <3>3, <3>4 DEF Safe
  <2>3. ASSUME pc'[r] = "row" PROVE Safe(Target(r), cur[r])'
    <3>1. PICK f \in Paths : StoreFile(r, f)
      BY <1>1, <2>3, StepLabels
    <3>2. /\ pc[r] = "store" /\ Kind(r) # "snapshot" /\ Source(r, f) # None /\ cur'[r] = f
          /\ object' = [object EXCEPT ![Destination(r)][f] = Source(r, f)]
      BY <1>1, <2>3, <3>1, StepLabels, StoredFile
    <3>3. Target(r)' = Target(r) /\ Target(r) \in Places /\ Destination(r) = Target(r)
      BY <2>1, <3>2, KindOfLabel, Asked DEF Target, Destination, Kind
    <3>4. object'[Target(r)][f] = Source(r, f)
      BY <3>2, <3>3 DEF Typed, Types
    <3> QED
    BY <3>2, <3>3, <3>4 DEF Safe
  <2>4. ASSUME pc'[r] = "welcomeRow" PROVE Safe(Target(r), Readme)'
    <3>1. Welcome(r)
      BY <1>1, <2>4, StepLabels
    <3>2. Target(r)' = Target(r) /\ Target(r) \in Places
      BY <2>1, <3>1, KindOfLabel, Asked DEF Target, Kind, Welcome
    <3>3. object' = [object EXCEPT ![Target(r)][Readme] = ReadmeText]
      BY <2>4, <3>1 DEF Welcome, PutFile, Goto, Typed, Types
    <3>4. object'[Target(r)][Readme] # None
      BY <3>2, <3>3, StoreAssumption DEF Typed, Types
    <3> QED
    BY <3>2, <3>4 DEF Safe
  <2>5. ASSUME NEW s \in Requests, s # r
        PROVE  /\ pc'[s] = "row" => Safe(Target(s), cur[s])'
               /\ pc'[s] = "welcomeRow" => Safe(Target(s), Readme)'
    <3>1. pc'[s] = pc[s] /\ cur'[s] = cur[s] /\ (pc[s] = "row" => cur[s] \in Paths)
          /\ Readme \in Paths
      BY <2>1, <2>5, StoreAssumption DEF Typed, Flow
    <3>2. /\ pc[s] = "row" => Safe(Target(s), cur[s])
          /\ pc[s] = "welcomeRow" => Safe(Target(s), Readme)
      BY DEF Pending
    <3>3. ASSUME pc[s] = "row" PROVE Safe(Target(s), cur[s])'
      <4>1. PICK f \in Paths : f = cur[s]
        BY <3>1, <3>3
      <4>2. Safe(Target(s), f)'
        BY <2>2, <2>5, <3>2, <3>3, <4>1, NextFiles
      <4> QED
      BY <3>1, <4>1, <4>2 DEF Safe
    <3>4. pc[s] = "welcomeRow" => Safe(Target(s), Readme)'
      BY <2>2, <2>5, <3>1, <3>2, NextFiles
    <3> QED
    BY <3>1, <3>3, <3>4
  <2> QED
  BY <2>3, <2>4, <2>5 DEF Pending
<1>2. ASSUME NEW r \in Requests, NEW q \in Menu, ArriveAs(r, q) PROVE Pending'
  <2>1. /\ \A u \in Requests : req'[u] = IF u = r THEN q ELSE req[u]
        /\ \A u \in Requests : pc'[u] = IF u = r THEN First(q) ELSE pc[u]
    BY <1>2, ArrivedFrame
  <2>2. object' = object /\ torn \subseteq torn' /\ cur' = cur
    BY <1>2 DEF ArriveAs
  <2>3. First(q) \notin {"row", "welcomeRow"}
    BY MenuTyped DEF First
  <2> QED
  BY <2>1, <2>2, <2>3 DEF Pending, Safe, Target, Kind
<1>3. CASE Kill
  <2>1. \A r \in Requests : pc'[r] \notin {"row", "welcomeRow"}
    BY <1>3, KindOfLabel DEF Kill
  <2> QED
  BY <2>1 DEF Pending
<1>4. CASE Quiet
  BY <1>4 DEF Quiet, Pending, Safe, Target, Kind
<1> QED
BY <1>1, <1>2, <1>3, <1>4, Cases

LEMMA RowsSafeNext ==
  Typed /\ Within /\ Beside /\ Pending /\ RowsSafe /\ [Next]_vars => RowsSafe'
<1> SUFFICES ASSUME Typed, Within, Beside, Pending, RowsSafe, [Next]_vars,
                    NEW p \in projects', NEW f \in rows'[p]
             PROVE  Safe(p, f)' \/ Erasing(p, f)'
  BY DEF RowsSafe
<1>0. \A g, P : P \in projects /\ g \in rows[P] => P \in Places /\ g \in Paths
  BY DEF Typed, Types
<1>1. ASSUME NEW r \in Requests, Step(r) PROVE Safe(p, f)' \/ Erasing(p, f)'
  <2>1. /\ req' = req /\ \A s \in Requests : pc'[s] = IF s = r THEN pc'[r] ELSE pc[s]
        /\ torn \subseteq torn'
    BY <1>1, StepFrame DEF Typed, Types
  <2>2. p \in Places /\ f \in Paths
    BY <1>1, StepTablesTyped
  <2>3. CASE f \notin rows[p]
    <3>1. /\ object' = object /\ p = Target(r)
          /\ (pc[r] = "row" /\ f = cur[r]) \/ (pc[r] = "welcomeRow" /\ f = Readme)
      BY <1>1, <2>2, <2>3, Touched
    <3> QED
    BY <2>1, <3>1 DEF Pending, Safe
  <2>4. CASE f \in rows[p]
    <3>1. p \in projects
      BY <2>2, <2>4 DEF Typed, ForeignKeys
    <3>2. CASE <<p, f>> \in torn
      BY <2>1, <3>2 DEF Safe
    <3>3. CASE object[p][f] # None
      <4>1. CASE object'[p][f] # None
        BY <4>1 DEF Safe
      <4>2. CASE object'[p][f] = None
        <5>1. Wrote(r, p, f, None) /\ <<p, f>> \in Writes(r, req[r])
          BY <1>1, <2>2, <3>3, <4>2, FileStep, Touched
        <5>2. pc[r] = "tree" => p # req[r].snapshot
          BY <3>1, KindOfLabel, Asked, StoreAssumption DEF Typed, Rooted, IsProject
        <5>3. pc[r] = "erase"
          BY <5>1, <5>2, StoreAssumption DEF Wrote
        <5>4. pc'[r] \in {"erase", "eraseRows"}
          BY <1>1, <5>3, Labelled DEF Erase, Goto, Typed, Types
        <5> QED
        BY <2>1, <5>1, <5>4 DEF Erasing, Writes
      <4> QED
      BY <4>1, <4>2
    <3>4. ASSUME NEW s \in Requests, pc[s] \in {"erase", "eraseRows"}, <<p, f>> \in Writes(s, req[s])
          PROVE  Safe(p, f)' \/ Erasing(p, f)'
      <4>1. pc'[s] \in {"erase", "eraseRows"} => Erasing(p, f)'
        BY <2>1, <3>4 DEF Erasing, Writes
      <4>2. CASE s = r /\ pc[r] = "erase"
        <5>1. pc'[r] \in {"erase", "eraseRows"}
          BY <1>1, <4>2, Labelled DEF Erase, Goto, Typed, Types
        <5> QED
        BY <4>1, <4>2, <5>1
      <4>3. CASE s = r /\ pc[r] = "eraseRows"
        <5>1. EraseRows(r) /\ Kind(r) \in Removals
          BY <1>1, <4>3, Labelled, KindOfLabel
        <5>2. CASE Fails(r) /\ torn' = torn \cup Writes(r, req[r])
          BY <3>4, <4>3, <5>2 DEF Safe
        <5>3. CASE DeleteRows(r)
          <6>1. p = req[r].project /\ f \in req[r].paths
            BY <3>4, <4>3, <5>1 DEF Writes, Files, Kind
          <6>2. f \notin rows'[p]
            BY <2>2, <5>3, <6>1 DEF DeleteRows, Typed, Types
          <6> QED
          BY <6>2
        <5> QED
        BY <5>1, <5>2, <5>3 DEF EraseRows
      <4>4. CASE s # r
        BY <2>1, <3>4, <4>1, <4>4
      <4> QED
      BY <3>4, <4>2, <4>3, <4>4
    <3> QED
    BY <2>4, <3>1, <3>2, <3>3, <3>4 DEF RowsSafe, Safe, Erasing
  <2> QED
  BY <2>3, <2>4
<1>2. ASSUME NEW r \in Requests, NEW q \in Menu, ArriveAs(r, q)
      PROVE  Safe(p, f)' \/ Erasing(p, f)'
  <2>1. /\ \A u \in Requests : req'[u] = IF u = r THEN q ELSE req[u]
        /\ \A u \in Requests : pc'[u] = IF u = r THEN First(q) ELSE pc[u]
        /\ pc[r] = "new"
    BY <1>2, ArrivedFrame
  <2>2. object' = object /\ torn \subseteq torn' /\ p \in projects /\ f \in rows[p]
    BY <1>2 DEF ArriveAs
  <2>3. Safe(p, f) => Safe(p, f)'
    BY <2>2 DEF Safe
  <2>4. Erasing(p, f) => Erasing(p, f)'
    BY <2>1 DEF Erasing, Writes
  <2> QED
  BY <2>2, <2>3, <2>4 DEF RowsSafe
<1>3. CASE Kill
  <2>1. /\ object' = object /\ p \in projects /\ f \in rows[p] /\ torn \subseteq torn'
        /\ \A r \in Requests : Active(r) /\ Kind(r) \in Removals => Writes(r, req[r]) \subseteq torn'
    BY <1>3 DEF Kill
  <2>2. Safe(p, f) => Safe(p, f)'
    BY <2>1 DEF Safe
  <2>3. Erasing(p, f) => <<p, f>> \in torn'
    BY <2>1, KindOfLabel DEF Erasing
  <2> QED
  BY <2>1, <2>2, <2>3 DEF RowsSafe, Safe
<1>4. CASE Quiet
  BY <1>4 DEF Quiet, RowsSafe, Safe, Erasing, Writes
<1> QED
BY <1>1, <1>2, <1>3, <1>4, Cases

\* A file that a project lists can be read. The inductive invariant says of a row
\* that its object is there, or that it was torn, or that a removal of it is on
\* the way to its row; and of a row about to be made that its object is there.
THEOREM RowsCanBeRead == Spec => []RowHasObject
<1> DEFINE Inv == Within /\ Beside /\ Pending /\ RowsSafe
<1>1. Init => Inv
  <2> SUFFICES ASSUME Init PROVE Inv
    OBVIOUS
  <2>1. Within /\ Beside /\ Pending
    BY DEF Init, Within, Beside, Pending, Active
  <2>2. RowsSafe
    BY StoreAssumption DEF Init, RowsSafe, Safe
  <2> QED
  BY <2>1, <2>2
<1>2. Typed /\ Inv /\ [Next]_vars => Inv'
  BY WithinNext, BesideNext, PendingNext, RowsSafeNext
<1>3. Typed /\ Inv => RowHasObject
  <2> SUFFICES ASSUME Typed, RowsSafe, NEW p \in projects, NEW f \in rows[p],
                      <<p, f>> \notin torn \cup Removing
               PROVE  object[p][f] # None
    BY DEF RowHasObject
  <2>1. ~Erasing(p, f)
    BY KindOfLabel DEF Erasing, Removing
  <2> QED
  BY <2>1 DEF RowsSafe, Safe
<1> HIDE DEF Inv
<1> QED
BY <1>1, <1>2, <1>3, InitTyped, NextTyped, PTL DEF Spec

-----------------------------------------------------------------------------
(* Who conflicts with whom. Requests that run side by side and touch the   *)
(* same file have crossed (Crossing); the newest request for a file is the *)
(* only one still to write it, or it has crossed another (Latest); a       *)
(* restore that runs beside its snapshot has crossed it (LateRestore).     *)

Crossing ==
  \A r, s \in Requests :
    r # s /\ Active(r) /\ Active(s) /\ Common(r, req[r], s) # {} => {r, s} \subseteq crossed

Latest ==
  \A s \in Requests : Active(s) =>
    \A k \in Writes(s, req[s]) : last[k] # s => {s, last[k]} \subseteq crossed

LateRestore ==
  \A r \in Requests :
    req[r] # None /\ Kind(r) = "restore" /\ Active(req[r].snapshot) => r \in crossed

Known == Sound /\ Within /\ Crossing /\ Latest /\ LateRestore

LEMMA CrossingNext == Typed /\ Crossing /\ [Next]_vars => Crossing'
<1> SUFFICES ASSUME Typed, Crossing, [Next]_vars,
                    NEW s \in Requests, NEW t \in Requests, s # t, Active(s)', Active(t)',
                    Common(s, req[s], t)' # {}
             PROVE  {s, t} \subseteq crossed'
  BY DEF Crossing
<1>1. ASSUME NEW r \in Requests, Step(r) PROVE {s, t} \subseteq crossed'
  <2>1. Active(s) /\ Active(t) /\ req' = req /\ crossed' = crossed
    BY <1>1, StepFrame, StillActive
  <2>2. Common(s, req[s], t)' = Common(s, req[s], t)
    BY <2>1 DEF Common, Writes, Reads
  <2> QED
  BY <2>1, <2>2 DEF Crossing
<1>2. ASSUME NEW r \in Requests, NEW q \in Menu, ArriveAs(r, q) PROVE {s, t} \subseteq crossed'
  <2>1. /\ \A u \in Requests : req'[u] = IF u = r THEN q ELSE req[u]
        /\ \A u \in Requests : pc'[u] = IF u = r THEN First(q) ELSE pc[u]
    BY <1>2, ArrivedFrame
  <2>2. \A u \in Requests \ {r} : Active(u)' => Active(u)
    BY <2>1 DEF Active
  <2>3. crossed \subseteq crossed' /\ \A u \in Met(r, q) : {r, u} \subseteq crossed'
    BY <1>2 DEF ArriveAs
  <2>4. /\ \A u \in Requests : Writes(u, req[u])' = IF u = r THEN Writes(r, q) ELSE Writes(u, req[u])
        /\ \A u \in Requests : Reads(u, req[u])' = IF u = r THEN Reads(r, q) ELSE Reads(u, req[u])
    BY <2>1 DEF Writes, Reads
  <2>5. CASE s # r /\ t # r
    <3>1. Common(s, req[s], t)' = Common(s, req[s], t)
      BY <2>4, <2>5 DEF Common
    <3> QED
    BY <2>2, <2>3, <2>5, <3>1 DEF Crossing
  <2>6. CASE s = r
    <3>1. Common(s, req[s], t)' = Common(r, q, t)
      BY <2>4, <2>6 DEF Common
    <3> QED
    BY <2>2, <2>3, <2>6, <3>1 DEF Met
  <2>7. CASE t = r
    <3>1. Common(s, req[s], t)' = Common(r, q, s)
      BY <2>4, <2>7 DEF Common
    <3> QED
    BY <2>2, <2>3, <2>7, <3>1 DEF Met
  <2> QED
  BY <2>5, <2>6, <2>7
<1>3. CASE Kill
  <2>1. ~Active(s)'
    BY <1>3 DEF Kill, Active
  <2> QED
  BY <2>1
<1>4. CASE Quiet
  BY <1>4 DEF Quiet, Crossing, Active, Common, Writes, Reads
<1> QED
BY <1>1, <1>2, <1>3, <1>4, Cases

LEMMA LatestNext == Typed /\ Latest /\ [Next]_vars => Latest'
<1> SUFFICES ASSUME Typed, Latest, [Next]_vars, NEW s \in Requests, Active(s)',
                    NEW k, k \in Writes(s, req[s])', last'[k] # s
             PROVE  {s, last'[k]} \subseteq crossed'
  BY DEF Latest
<1>1. ASSUME NEW r \in Requests, Step(r) PROVE {s, last'[k]} \subseteq crossed'
  <2>1. Active(s) /\ UNCHANGED <<req, crossed, last>>
    BY <1>1, StepFrame, StillActive
  <2>2. k \in Writes(s, req[s])
    BY <2>1 DEF Writes
  <2> QED
  BY <2>1, <2>2 DEF Latest
<1>2. ASSUME NEW r \in Requests, NEW q \in Menu, ArriveAs(r, q) PROVE {s, last'[k]} \subseteq crossed'
  <2>1. /\ \A u \in Requests : req'[u] = IF u = r THEN q ELSE req[u]
        /\ \A u \in Requests : pc'[u] = IF u = r THEN First(q) ELSE pc[u]
        /\ \A l \in Places \X Paths : last'[l] = IF l \in Writes(r, q) THEN r ELSE last[l]
    BY <1>2, ArrivedFrame
  <2>2. crossed \subseteq crossed' /\ \A u \in Met(r, q) : {r, u} \subseteq crossed'
    BY <1>2 DEF ArriveAs
  <2>3. Writes(s, req[s])' = IF s = r THEN Writes(r, q) ELSE Writes(s, req[s])
    BY <2>1 DEF Writes
  <2>4. CASE s = r
    <3>1. k \in Places \X Paths
      BY <2>3, <2>4, WritesTyped
    <3> QED
    BY <2>1, <2>3, <2>4, <3>1
  <2>5. CASE s # r
    <3>1. Active(s) /\ k \in Writes(s, req[s]) /\ k \in Places \X Paths
      BY <2>1, <2>3, <2>5, WritesTyped, Asked DEF Active
    <3>2. CASE k \in Writes(r, q)
      <4>1. s \in Met(r, q)
        BY <3>1, <3>2 DEF Met, Common
      <4> QED
      BY <2>1, <2>2, <3>1, <3>2, <4>1
    <3>3. CASE k \notin Writes(r, q)
      BY <2>1, <2>2, <3>1, <3>3 DEF Latest
    <3> QED
    BY <3>2, <3>3
  <2> QED
  BY <2>4, <2>5
<1>3. CASE Kill
  <2>1. ~Active(s)'
    BY <1>3 DEF Kill, Active
  <2> QED
  BY <2>1
<1>4. CASE Quiet
  BY <1>4 DEF Quiet, Latest, Active, Writes
<1> QED
BY <1>1, <1>2, <1>3, <1>4, Cases

LEMMA LateRestoreNext == Typed /\ LateRestore /\ [Next]_vars => LateRestore'
<1> SUFFICES ASSUME Typed, LateRestore, [Next]_vars,
                    NEW t \in Requests, req'[t] # None, Kind(t)' = "restore",
                    NEW s, s = req'[t].snapshot, Active(s)'
             PROVE  t \in crossed'
  BY DEF LateRestore, Active, Kind
<1>1. ASSUME NEW r \in Requests, Step(r) PROVE t \in crossed'
  <2>1. UNCHANGED <<req, crossed>>
    BY <1>1, StepFrame
  <2>2. s \in Requests
    BY <2>1, Asked
  <2>3. Active(s)
    BY <1>1, <2>2, StillActive
  <2> QED
  BY <2>1, <2>3 DEF LateRestore, Kind
<1>2. ASSUME NEW r \in Requests, NEW q \in Menu, ArriveAs(r, q) PROVE t \in crossed'
  <2>1. /\ \A u \in Requests : req'[u] = IF u = r THEN q ELSE req[u]
        /\ \A u \in Requests : pc'[u] = IF u = r THEN First(q) ELSE pc[u]
        /\ req[r] = None
        /\ q.kind \in {"restore", "dropSnapshot"} => q.snapshot # r
    BY <1>2, ArrivedFrame
  <2>2. /\ crossed \subseteq crossed' /\ \A u \in Met(r, q) : {r, u} \subseteq crossed'
        /\ q.kind = "restore" => req[q.snapshot] # None /\ Kind(q.snapshot) = "snapshot"
    BY <1>2 DEF ArriveAs
  <2>3. CASE t = r
    <3>1. q.kind = "restore" /\ s = q.snapshot /\ s \in Requests /\ s # r
      BY <2>1, <2>3, MenuTyped DEF Kind
    <3>2. Active(s) /\ Kind(s) = "snapshot"
      BY <2>1, <2>2, <3>1 DEF Active
    <3>3. <<s, Readme>> \in Reads(r, q) /\ <<s, Readme>> \in Writes(s, req[s])
      BY <3>1, <3>2, StoreAssumption DEF Reads, Writes, Files, Kind
    <3>4. s \in Met(r, q)
      BY <3>1, <3>2, <3>3 DEF Met, Common
    <3> QED
    BY <2>2, <2>3, <3>4
  <2>4. CASE t # r
    <3>1. req[t] # None /\ Kind(t) = "restore" /\ s = req[t].snapshot
      BY <2>1, <2>4 DEF Kind
    <3>2. s \in Requests /\ s # r
      BY <2>1, <3>1, Asked DEF Typed, Rooted
    <3>3. Active(s)
      BY <2>1, <3>2 DEF Active
    <3> QED
    BY <2>2, <3>1, <3>3 DEF LateRestore
  <2> QED
  BY <2>3, <2>4
<1>3. CASE Kill
  <2>1. req' = req
    BY <1>3 DEF Kill
  <2>2. s \in Requests
    BY <2>1, Asked
  <2> QED
  BY <1>3, <2>2 DEF Kill, Active
<1>4. CASE Quiet
  BY <1>4 DEF Quiet, LateRestore, Active, Kind
<1> QED
BY <1>1, <1>2, <1>3, <1>4, Cases

LEMMA StoreKnown == Spec => []Known
<1>1. Init => Within /\ Crossing /\ Latest /\ LateRestore
  BY DEF Init, Within, Crossing, Latest, LateRestore, Active
<1>2. Known /\ [Next]_vars => (Within /\ Crossing /\ Latest /\ LateRestore)'
  BY WithinNext, CrossingNext, LatestNext, LateRestoreNext DEF Known, Sound
<1> QED
BY <1>1, <1>2, StoreSound, PTL DEF Spec, Known

\* What goes on beside a request.
Others(r) ==
  \/ \E s \in Requests \ {r} : Step(s)
  \/ \E s \in Requests \ {r}, q \in Menu : ArriveAs(s, q)
  \/ Kill
  \/ Quiet

LEMMA CasesOf ==
  ASSUME [Next]_vars, NEW r \in Requests
  PROVE  Step(r) \/ (\E q \in Menu : ArriveAs(r, q)) \/ Others(r)
BY Cases DEF Others

\* A request that was not made is not made by what others do.
LEMMA StayAway ==
  ASSUME Typed, NEW r \in Requests, Others(r), req[r] = None
  PROVE  req'[r] = None
<1>1. ASSUME NEW s \in Requests \ {r}, NEW q \in Menu, ArriveAs(s, q) PROVE req'[r] = None
  BY <1>1, ArrivedFrame
<1>2. ASSUME NEW s \in Requests \ {r}, Step(s) PROVE req'[r] = None
  BY <1>2, StepFrame
<1>3. Kill \/ Quiet => req'[r] = None
  BY DEF Kill, Quiet
<1> QED
BY <1>1, <1>2, <1>3 DEF Others

\* The file is the request's: no later one wrote it and none ran beside it.
Mine(r, p, f) == last[<<p, f>>] = r /\ r \notin crossed

LEMMA Elsewhere ==
  ASSUME Known, NEW r \in Requests, req[r] # None, Others(r)
  PROVE  /\ req'[r] = req[r] /\ todo'[r] = todo[r] /\ cur'[r] = cur[r] /\ asOf'[r] = asOf[r]
         /\ pc'[r] = pc[r] \/ (pc'[r] = "killed" /\ Active(r))
         /\ broken \subseteq broken'
         /\ r \notin crossed' => r \notin crossed
         /\ \A p \in Places, f \in Paths : Mine(r, p, f)' =>
              /\ Mine(r, p, f) /\ object'[p][f] = object[p][f]
              /\ f \in rows'[p] <=> f \in rows[p]
         /\ Active(r) /\ r \notin crossed' =>
              \A p \in Places, f \in Paths :
                <<p, f>> \in Writes(r, req[r]) \cup Reads(r, req[r]) =>
                  /\ object'[p][f] = object[p][f]
                  /\ f \in rows'[p] <=> f \in rows[p]
<1> DEFINE Goal ==
         /\ req'[r] = req[r] /\ todo'[r] = todo[r] /\ cur'[r] = cur[r] /\ asOf'[r] = asOf[r]
         /\ pc'[r] = pc[r] \/ (pc'[r] = "killed" /\ Active(r))
         /\ broken \subseteq broken'
         /\ r \notin crossed' => r \notin crossed
         /\ \A p \in Places, f \in Paths : Mine(r, p, f)' =>
              /\ Mine(r, p, f) /\ object'[p][f] = object[p][f]
              /\ f \in rows'[p] <=> f \in rows[p]
         /\ Active(r) /\ r \notin crossed' =>
              \A p \in Places, f \in Paths :
                <<p, f>> \in Writes(r, req[r]) \cup Reads(r, req[r]) =>
                  /\ object'[p][f] = object[p][f]
                  /\ f \in rows'[p] <=> f \in rows[p]
<1> SUFFICES Goal
  OBVIOUS
<1>0. Typed /\ Within /\ Crossing /\ Latest
  BY DEF Known, Sound
<1>1. ASSUME NEW s \in Requests \ {r}, Step(s) PROVE Goal
  <2>1. /\ UNCHANGED <<req, crossed, last>> /\ pc'[r] = pc[r] /\ broken \subseteq broken'
        /\ todo'[r] = todo[r] /\ cur'[r] = cur[r] /\ asOf'[r] = asOf[r]
    BY <1>0, <1>1, StepFrame DEF Typed, Types
  <2>2. Active(s)
    BY <1>0, <1>1, Labelled, KindOfLabel
  <2>3. ASSUME NEW p \in Places, NEW f \in Paths, <<p, f>> \notin Writes(s, req[s])
        PROVE  /\ object'[p][f] = object[p][f]
               /\ f \in rows'[p] <=> f \in rows[p]
    BY <1>0, <1>1, <2>3, Touched
  <2>4. ASSUME NEW p \in Places, NEW f \in Paths, Mine(r, p, f)
        PROVE  <<p, f>> \notin Writes(s, req[s])
    BY <1>0, <1>1, <2>2, <2>4 DEF Latest, Mine
  <2>5. ASSUME NEW k \in Writes(r, req[r]) \cup Reads(r, req[r]), Active(r), r \notin crossed
        PROVE  k \notin Writes(s, req[s])
    BY <1>0, <1>1, <2>2, <2>5 DEF Crossing, Common
  <2> QED
  BY <2>1, <2>3, <2>4, <2>5 DEF Mine
<1>2. ASSUME NEW s \in Requests \ {r}, NEW q \in Menu, ArriveAs(s, q) PROVE Goal
  <2>1. /\ req'[r] = req[r] /\ pc'[r] = pc[r] /\ todo'[r] = todo[r]
        /\ \A k \in Places \X Paths : last'[k] = IF k \in Writes(s, q) THEN s ELSE last[k]
    BY <1>0, <1>2, ArrivedFrame
  <2>2. UNCHANGED <<rows, object, cur, asOf, broken>> /\ crossed \subseteq crossed'
    BY <1>2 DEF ArriveAs
  <2>3. \A p \in Places, f \in Paths : last'[<<p, f>>] = r => last[<<p, f>>] = r
    BY <2>1
  <2> QED
  BY <2>1, <2>2, <2>3 DEF Mine
<1>3. CASE Kill
  <2>1. /\ UNCHANGED <<req, todo, cur, asOf, rows, object, crossed, last, broken>>
        /\ pc'[r] = IF Active(r) THEN "killed" ELSE pc[r]
    BY <1>3 DEF Kill
  <2> QED
  BY <2>1 DEF Mine
<1>4. CASE Quiet
  BY <1>4 DEF Quiet, Mine
<1> HIDE DEF Goal
<1> QED
BY <1>1, <1>2, <1>3, <1>4 DEF Others

-----------------------------------------------------------------------------
(* What an upload or a creation put is there until a later request for the *)
(* file, and what a removal took is not.                                   *)

Put(r, f) == f \in rows[Target(r)] /\ object[Target(r)][f] = req[r].content

Uploads(r) ==
  req[r] # None /\ Kind(r) \in {"put", "create"} =>
    \A f \in req[r].paths : Mine(r, Target(r), f) =>
      /\ pc[r] \in {"insert", "store"} => f \in todo[r] \/ Put(r, f)
      /\ pc[r] = "row" => \/ f \in todo[r] \/ Put(r, f)
                          \/ f = cur[r] /\ object[Target(r)][f] = req[r].content
      /\ pc[r] \in {"count", "welcome", "welcomeRow", "ok"} => Put(r, f)
      /\ pc[r] \in {"welcome", "welcomeRow"} => f # Readme

Removes(r) ==
  req[r] # None /\ Kind(r) \in Removals /\ pc[r] = "ok" /\ Unbroken(r) =>
    \A f \in req[r].paths : Mine(r, Target(r), f) => f \notin rows[Target(r)]

LEMMA UploadsElsewhere ==
  ASSUME Known, NEW r \in Requests, req[r] # None, Uploads(r), Removes(r), Others(r)
  PROVE  Uploads(r)' /\ Removes(r)'
<1>1. /\ req'[r] = req[r] /\ todo'[r] = todo[r] /\ cur'[r] = cur[r]
      /\ pc'[r] = pc[r] \/ pc'[r] = "killed"
      /\ broken \subseteq broken'
  BY Elsewhere
<1>2. Target(r)' = Target(r) /\ Kind(r)' = Kind(r) /\ Target(r) \in Places
      /\ req[r].paths \in SUBSET Paths
  BY <1>1, Asked DEF Target, Kind, Known, Sound
<1>3. \A f \in Paths : Mine(r, Target(r), f)' =>
        /\ Mine(r, Target(r), f) /\ object'[Target(r)][f] = object[Target(r)][f]
        /\ f \in rows'[Target(r)] <=> f \in rows[Target(r)]
  <2>1. PICK p \in Places : p = Target(r)
    BY <1>2
  <2>2. \A f \in Paths : Mine(r, p, f)' =>
        /\ Mine(r, p, f) /\ object'[p][f] = object[p][f]
        /\ f \in rows'[p] <=> f \in rows[p]
    BY Elsewhere
  <2> QED
  BY <1>2, <2>1, <2>2 DEF Mine
<1>4. Unbroken(r)' => Unbroken(r)
  BY <1>1 DEF Unbroken
<1>5. Uploads(r)'
  BY <1>1, <1>2, <1>3 DEF Uploads, Put
<1>6. Removes(r)'
  BY <1>1, <1>2, <1>3, <1>4 DEF Removes
<1> QED
BY <1>5, <1>6

LEMMA UploadsArrive ==
  ASSUME Known, NEW r \in Requests, NEW q \in Menu, ArriveAs(r, q)
  PROVE  Uploads(r)' /\ Removes(r)'
<1>1. req'[r] = q /\ pc'[r] = First(q) /\ todo'[r] = q.paths
  BY ArrivedFrame DEF Known, Sound
<1>2. First(q) # "ok" /\ (q.kind \in {"put", "create"} => First(q) \in {"insert", "store"})
  BY MenuTyped DEF First
<1> QED
BY <1>1, <1>2 DEF Uploads, Removes, Kind

\* Where the row of a file leads, and what it leaves in the tables.
LEMMA RowStored ==
  ASSUME Typed, NEW r \in Requests, StoreRow(r)
  PROVE  /\ pc[r] = "row" /\ UNCHANGED <<projects, manifest, object, todo, history>>
         /\ \/ /\ pc'[r] = After(r, todo[r]) /\ Target(r) \in projects
               /\ \A f : f \in rows'[Target(r)] <=> f \in rows[Target(r)] \/ f = cur[r]
            \/ pc'[r] = OnError(r, todo[r]) /\ (Target(r) \notin projects \/ ~Unbroken(r)'
                                                 \/ (Kind(r) = "duplicate" /\ cur[r] \in rows[r]))
<1>0. /\ pc \in [Requests -> PCs] /\ rows \in [Places -> SUBSET Paths]
  BY DEF Typed, Types
<1>1. pc[r] = "row" /\ UNCHANGED <<projects, manifest, object, todo, history>>
  BY DEF StoreRow, PutRow, MayHaveHappened
<1>2. Target(r) \in Places
  BY <1>1, KindOfLabel, Asked
<1>3. CASE Works(r) /\ PutRow(r, cur[r]) /\ Goto(r, After(r, todo[r]))
  <2>1. Target(r) \in projects
    BY <1>3 DEF PutRow, RowFits
  <2>2. pc'[r] = After(r, todo[r])
    BY <1>0, <1>3 DEF Goto
  <2>3. rows' = [rows EXCEPT ![Target(r)] = @ \cup {cur[r]}]
    BY <1>3 DEF PutRow
  <2>4. rows'[Target(r)] = rows[Target(r)] \cup {cur[r]}
    BY <1>0, <1>2, <2>3
  <2> QED
  BY <1>1, <2>1, <2>2, <2>4
<1>4. CASE /\ \/ Works(r) /\ ~RowFits(r, cur[r])
              \/ Fails(r)
           /\ Goto(r, OnError(r, todo[r]))
  <2>1. pc'[r] = OnError(r, todo[r])
    BY <1>0, <1>4 DEF Goto
  <2>2. Fails(r) => ~Unbroken(r)'
    <3> SUFFICES ASSUME Fails(r) PROVE ~Unbroken(r)'
      OBVIOUS
    <3>1. <<r, pc[r]>> \in broken'
      BY DEF Fails
    <3> QED
    BY <3>1 DEF Unbroken
  <2>3. ~RowFits(r, cur[r]) => Target(r) \notin projects \/ (Kind(r) = "duplicate" /\ cur[r] \in rows[r])
    BY DEF RowFits
  <2> QED
  BY <1>1, <1>4, <2>1, <2>2, <2>3
<1> QED
BY <1>3, <1>4 DEF StoreRow

LEMMA UploadsStep ==
  ASSUME Known, NEW r \in Requests, Step(r), Uploads(r)
  PROVE  Uploads(r)'
<1>0. /\ Typed /\ Within
      /\ pc \in [Requests -> PCs] /\ rows \in [Places -> SUBSET Paths]
      /\ object \in [Places -> [Paths -> Contents \cup {None}]]
  BY DEF Known, Sound, Typed, Types
<1>1. /\ UNCHANGED <<req, crossed, last>> /\ req[r] # None
      /\ pc'[r] \in Labels(Kind(r)) \cup Ended
  BY <1>0, StepFrame, Labelled, KindOfLabel
<1>2. /\ Target(r)' = Target(r) /\ Kind(r)' = Kind(r) /\ Target(r) \in Places
      /\ req[r].paths \in SUBSET Paths
  BY <1>0, <1>1, Asked DEF Target, Kind
<1> SUFFICES ASSUME Kind(r) \in {"put", "create"}, NEW f \in req[r].paths, Mine(r, Target(r), f)
             PROVE  /\ pc'[r] \in {"insert", "store"} => f \in todo'[r] \/ Put(r, f)'
                    /\ pc'[r] = "row" => \/ f \in todo'[r] \/ Put(r, f)'
                                         \/ f = cur'[r] /\ object'[Target(r)][f] = req[r].content
                    /\ pc'[r] \in {"count", "welcome", "welcomeRow", "ok"} => Put(r, f)'
                    /\ pc'[r] \in {"welcome", "welcomeRow"} => f # Readme
  BY <1>1, <1>2 DEF Uploads, Mine
<1> DEFINE Goal == /\ pc'[r] \in {"insert", "store"} => f \in todo'[r] \/ Put(r, f)'
                   /\ pc'[r] = "row" => \/ f \in todo'[r] \/ Put(r, f)'
                                        \/ f = cur'[r] /\ object'[Target(r)][f] = req[r].content
                   /\ pc'[r] \in {"count", "welcome", "welcomeRow", "ok"} => Put(r, f)'
                   /\ pc'[r] \in {"welcome", "welcomeRow"} => f # Readme
<1> SUFFICES Goal
  OBVIOUS
<1>3. /\ pc[r] \in {"insert", "store"} => f \in todo[r] \/ Put(r, f)
      /\ pc[r] = "row" => \/ f \in todo[r] \/ Put(r, f)
                          \/ f = cur[r] /\ object[Target(r)][f] = req[r].content
      /\ pc[r] \in {"count", "welcome", "welcomeRow", "ok"} => Put(r, f)
      /\ pc[r] \in {"welcome", "welcomeRow"} => f # Readme
  BY <1>1 DEF Uploads
<1>4. f \in Paths
  BY <1>2
<1>5. Put(r, f) /\ object'[Target(r)][f] = object[Target(r)][f] /\ f \in rows'[Target(r)] => Put(r, f)'
  BY <1>1, <1>2 DEF Put
<1>6. \A R : After(r, R) = IF R # {} THEN "store" ELSE IF Kind(r) = "create" THEN "count" ELSE "ok"
  BY DEF After
<1>7. /\ object'[Target(r)][f] # object[Target(r)][f] => \E c : Wrote(r, Target(r), f, c)
      /\ f \in rows[Target(r)] /\ f \notin rows'[Target(r)] => pc[r] \in {"undo", "delete", "eraseRows"}
  BY <1>0, <1>2, <1>4, FileStep, Touched
<1>8. CASE pc[r] = "insert"
  <2>1. Insert(r)
    BY <1>8, Labelled
  <2>2. todo' = todo /\ pc'[r] \in {After(r, todo[r]), "error"}
    BY <1>0, <2>1 DEF Insert, Goto
  <2>3. Put(r, f) => Put(r, f)'
    BY <1>5, <1>7, <1>8 DEF Wrote, Put
  <2> QED
  BY <1>3, <1>6, <1>8, <2>2, <2>3
<1>9. CASE pc[r] = "store"
  <2>1. PICK g \in Paths : StoreFile(r, g)
    BY <1>9, Labelled
  <2>2. /\ todo'[r] = todo[r] \ {g} /\ UNCHANGED <<tables, history>>
        /\ pc'[r] = "row" => /\ Source(r, g) # None /\ cur'[r] = g
                             /\ object' = [object EXCEPT ![Destination(r)][g] = Source(r, g)]
    BY <1>0, <2>1, StoredFile
  <2>3. Destination(r) = Target(r) /\ Source(r, g) = req[r].content
    BY DEF Destination, Source
  <2>4. pc'[r] \in {"row", "error", "undo"}
    BY <1>0, <2>1 DEF StoreFile, Goto, OnStoreError, OnError, Skips
  <2>5. ASSUME pc'[r] = "row", f = g PROVE object'[Target(r)][f] = req[r].content
    BY <1>0, <1>2, <1>4, <2>2, <2>3, <2>5
  <2>6. ASSUME pc'[r] = "row", f # g PROVE object'[Target(r)][f] = object[Target(r)][f]
    BY <1>0, <1>2, <1>4, <2>2, <2>3, <2>6
  <2>7. ASSUME pc'[r] = "row" PROVE Goal
    <3>1. CASE f = g
      BY <2>2, <2>5, <2>7, <3>1
    <3>2. CASE f # g
      <4>1. f \in todo[r] => f \in todo'[r]
        BY <2>2, <3>2
      <4>2. Put(r, f) => Put(r, f)'
        BY <1>5, <2>2, <2>6, <2>7, <3>2 DEF Put
      <4> QED
      BY <1>3, <1>9, <2>7, <4>1, <4>2
    <3> QED
    BY <3>1, <3>2
  <2> QED
  BY <2>4, <2>7
<1>10. CASE pc[r] = "row"
  <2>1. StoreRow(r)
    BY <1>10, Labelled
  <2>2. CASE pc'[r] = OnError(r, todo[r])
    <3>1. pc'[r] \in {"undo", "error"}
      BY <2>2 DEF OnError, Skips
    <3> QED
    BY <3>1
  <2>3. CASE /\ pc'[r] = After(r, todo[r]) /\ UNCHANGED <<object, todo>>
             /\ \A g : g \in rows'[Target(r)] <=> g \in rows[Target(r)] \/ g = cur[r]
    <3>1. f \in todo[r] => pc'[r] = "store"
      BY <1>6, <2>3
    <3>2. Put(r, f) => Put(r, f)'
      BY <1>5, <2>3 DEF Put
    <3>3. f = cur[r] /\ object[Target(r)][f] = req[r].content => Put(r, f)'
      BY <1>1, <1>2, <2>3 DEF Put
    <3>4. pc'[r] \in {"store", "count", "ok"}
      BY <1>6, <2>3
    <3> QED
    BY <1>3, <1>10, <2>3, <3>1, <3>2, <3>3, <3>4
  <2> QED
  BY <1>0, <2>1, <2>2, <2>3, RowStored
<1>11. CASE pc[r] \in {"count", "welcome", "welcomeRow"}
  <2>1. Put(r, f)
    BY <1>3, <1>11
  <2>2. f \in rows'[Target(r)]
    BY <1>7, <1>11, <2>1 DEF Put
  <2>3. object'[Target(r)][f] = object[Target(r)][f]
    <3>1. pc[r] = "welcome" => f # Readme
      BY <1>3
    <3> QED
    BY <1>7, <1>11, <3>1 DEF Wrote
  <2>4. Put(r, f)'
    BY <1>5, <2>1, <2>2, <2>3
  <2>5. pc'[r] \in {"welcome", "welcomeRow"} => f # Readme
    <3>1. CASE pc[r] = "count"
      <4>1. Count(r)
        BY <3>1, Labelled
      <4>2. pc'[r] # "welcomeRow" /\ (pc'[r] = "welcome" => Readme \notin rows[Target(r)])
        BY <1>0, <4>1 DEF Count, Goto
      <4> QED
      BY <2>1, <4>2 DEF Put
    <3>2. CASE pc[r] \in {"welcome", "welcomeRow"}
      BY <1>3, <3>2
    <3> QED
    BY <1>11, <3>1, <3>2
  <2>6. pc'[r] \notin {"insert", "store", "row"}
    BY <1>11, NotEarlyAgain, <1>0, StepLabels, Labelled DEF Early, List, Insert, StoreRow, StoreFile
  <2> QED
  BY <2>4, <2>5, <2>6
<1>12. CASE pc[r] = "undo"
  <2>1. pc'[r] = "error"
    BY <1>0, <1>12, Labelled DEF Undo, Goto
  <2> QED
  BY <2>1
<1>13. pc[r] \in {"insert", "store", "row", "undo", "count", "welcome", "welcomeRow"}
  BY <1>0, <1>1, Labelled DEF Typed, Flow, Labels
<1> QED
BY <1>8, <1>9, <1>10, <1>11, <1>12, <1>13

LEMMA RemovesStep ==
  ASSUME Known, NEW r \in Requests, Step(r)
  PROVE  Removes(r)'
<1>0. /\ Typed /\ pc \in [Requests -> PCs] /\ rows \in [Places -> SUBSET Paths]
  BY DEF Known, Sound, Typed, Types
<1>1. req' = req /\ req[r] # None
  BY <1>0, StepFrame, Labelled, KindOfLabel
<1> SUFFICES ASSUME Kind(r) \in Removals, pc'[r] = "ok", Unbroken(r)', NEW f \in req[r].paths
             PROVE  f \notin rows'[Target(r)]
  BY <1>1 DEF Removes, Target, Kind
<1>2. pc[r] \in {"list", "erase", "eraseRows"}
  BY <1>0, <1>1, Labelled DEF Typed, Flow, Labels
<1>3. pc[r] # "list"
  BY <1>0, Labelled, ListCases DEF Lists, Goto, AfterList
<1>4. pc[r] # "erase"
  BY <1>0, Labelled DEF Erase, Goto
<1>5. EraseRows(r) /\ pc[r] = "eraseRows"
  BY <1>2, <1>3, <1>4, Labelled
<1>6. ~Fails(r)
  <2> SUFFICES ASSUME Fails(r) PROVE FALSE
    OBVIOUS
  <2>1. <<r, pc[r]>> \in broken'
    BY DEF Fails
  <2> QED
  BY <2>1 DEF Unbroken
<1>7. DeleteRows(r)
  BY <1>5, <1>6 DEF EraseRows
<1>8. req[r].project \in Places /\ Target(r) = req[r].project
  BY <1>0, <1>1, Asked DEF Target
<1> QED
BY <1>0, <1>7, <1>8 DEF DeleteRows

\* The effect of an answered upload, delete or creation stays: whoever else may
\* write the file has crossed the request, or is a later one.
THEOREM AnswersAreKept == Spec => []AckedKept
<1> DEFINE Inv == \A r \in Requests : Uploads(r) /\ Removes(r)
<1>1. Init => Inv
  BY DEF Init, Uploads, Removes
<1>2. Known /\ Inv /\ [Next]_vars => Inv'
  <2> SUFFICES ASSUME Known, Inv, [Next]_vars, NEW r \in Requests PROVE Uploads(r)' /\ Removes(r)'
    OBVIOUS
  <2>1. CASE Step(r)
    BY <2>1, UploadsStep, RemovesStep
  <2>2. ASSUME NEW q \in Menu, ArriveAs(r, q) PROVE Uploads(r)' /\ Removes(r)'
    BY <2>2, UploadsArrive
  <2>3. CASE Others(r) /\ req[r] # None
    BY <2>3, UploadsElsewhere
  <2>4. CASE Others(r) /\ req[r] = None
    <3>1. req'[r] = None
      BY <2>4, StayAway DEF Known, Sound
    <3> QED
    BY <3>1 DEF Uploads, Removes
  <2> QED
  BY <2>1, <2>2, <2>3, <2>4, CasesOf
<1>3. Known /\ Inv => AckedKept
  <2> SUFFICES ASSUME Known, NEW r \in Requests, Uploads(r), Removes(r), Done(r),
                      Kind(r) \in Removals \cup {"put", "create"},
                      NEW f \in req[r].paths, last[<<Target(r), f>>] = r
               PROVE  IF Kind(r) \in Removals THEN Unbroken(r) => f \notin rows[Target(r)]
                                              ELSE Put(r, f)
    BY DEF AckedKept, Put
  <2>1. req[r] # None
    BY DEF Known, Sound, Typed, Flow, Done
  <2> QED
  BY <2>1 DEF Uploads, Removes, Mine, Done
<1> HIDE DEF Inv
<1> QED
BY <1>1, <1>2, <1>3, StoreKnown, PTL DEF Spec

-----------------------------------------------------------------------------
(* Duplicates. What is still to be copied is as it was listed, and what is *)
(* copied is what was listed, all of it unless the listing broke off; a    *)
(* project that fails is taken back.                                       *)

Src(r, f) == object[req[r].project][f]

\* The listing broke off, and what it did not get to is not copied.
CutShort(r) == <<r, "list">> \in broken

Copied(r, f) ==
  /\ pc[r] \in {"insert", "store", "row"} /\ f \in todo[r] => asOf[r][f] = Src(r, f)
  /\ pc[r] = "insert" /\ f \notin todo[r] => asOf[r][f] = None \/ CutShort(r)
  /\ last[<<r, f>>] = r =>
       /\ pc[r] \in {"find", "list", "insert"} => object[r][f] = None /\ f \notin rows[r]
       /\ pc[r] \in {"store", "row", "ok"} /\ f \notin todo[r] =>
            \/ CutShort(r) /\ object[r][f] = None /\ f \notin rows[r]
            \/ /\ object[r][f] = asOf[r][f]
               /\ (pc[r] = "row" /\ cur[r] = f) \/ (f \in rows[r] <=> asOf[r][f] # None)
       /\ pc[r] = "row" /\ cur[r] = f => object[r][f] = asOf[r][f]
  /\ pc[r] = "row" /\ cur[r] = f => f \notin todo[r] /\ asOf[r][f] # None

Duplicates(r) ==
  req[r] # None /\ Kind(r) = "duplicate" /\ r \notin crossed =>
    /\ \A f \in Paths : Copied(r, f)
    /\ pc[r] = "ok" => todo[r] = {}

TakenBack(r) ==
  req[r] # None /\ Kind(r) \in Makes /\ pc[r] = "error" =>
    ({<<r, "insert">>, <<r, "undo">>} \cap broken = {} => r \notin projects)

LEMMA DuplicatesElsewhere ==
  ASSUME Known, NEW r \in Requests, req[r] # None, Duplicates(r), Others(r)
  PROVE  Duplicates(r)'
<1>1. /\ req'[r] = req[r] /\ todo'[r] = todo[r] /\ cur'[r] = cur[r] /\ asOf'[r] = asOf[r]
      /\ pc'[r] = pc[r] \/ pc'[r] = "killed"
      /\ r \notin crossed' => r \notin crossed
      /\ CutShort(r) => CutShort(r)'
  BY Elsewhere DEF CutShort
<1>2. Kind(r)' = Kind(r)
  BY <1>1 DEF Kind
<1> SUFFICES ASSUME Kind(r) = "duplicate", r \notin crossed', pc'[r] = pc[r], NEW f \in Paths
             PROVE  Copied(r, f)'
  BY <1>1, <1>2 DEF Duplicates, Copied
<1>3. Copied(r, f)
  BY <1>1 DEF Duplicates
<1>4. ASSUME pc[r] \in {"insert", "store", "row"} PROVE Src(r, f)' = Src(r, f)
  <2>1. PICK p \in Places : p = req[r].project
    BY Asked DEF Known, Sound
  <2>2. Active(r) /\ <<p, f>> \in Reads(r, req[r])
    BY <1>4, <2>1 DEF Active, Reads, Files, Kind
  <2>3. object'[p][f] = object[p][f]
    BY <2>2, Elsewhere
  <2> QED
  BY <1>1, <2>1, <2>3 DEF Src
<1>5. last'[<<r, f>>] = r => /\ last[<<r, f>>] = r /\ object'[r][f] = object[r][f]
                             /\ f \in rows'[r] <=> f \in rows[r]
  BY Elsewhere DEF Mine
<1> QED
BY <1>1, <1>3, <1>4, <1>5 DEF Copied

LEMMA DuplicatesArrive ==
  ASSUME Known, NEW r \in Requests, NEW q \in Menu, ArriveAs(r, q)
  PROVE  Duplicates(r)'
<1>1. /\ req'[r] = q /\ pc'[r] = First(q) /\ req[r] = None /\ r \notin projects /\ r \in Places
  BY ArrivedFrame DEF Known, Sound
<1>2. UNCHANGED <<object, rows>>
  BY DEF ArriveAs
<1>3. q.kind = "duplicate" => First(q) = "find"
  BY DEF First
<1>4. \A f \in Paths : object[r][f] = None /\ f \notin rows[r]
  BY <1>1 DEF Known, Sound, Untouched, Typed, ForeignKeys
<1> QED
BY <1>1, <1>2, <1>3, <1>4 DEF Duplicates, Copied, Kind

LEMMA DuplicatesStep ==
  ASSUME Known, NEW r \in Requests, Step(r), Duplicates(r)
  PROVE  Duplicates(r)'
<1>0. /\ Typed /\ Within
      /\ pc \in [Requests -> PCs] /\ rows \in [Places -> SUBSET Paths]
      /\ object \in [Places -> [Paths -> Contents \cup {None}]]
      /\ todo \in [Requests -> SUBSET Paths] /\ cur \in [Requests -> Paths \cup {None}]
      /\ asOf \in [Requests -> [Paths -> Contents \cup {None}]]
      /\ r \in Places
  BY DEF Known, Sound, Typed, Types
<1>1. /\ UNCHANGED <<req, crossed, last>> /\ req[r] # None
      /\ CutShort(r) => CutShort(r)'
  BY <1>0, StepFrame, Labelled, KindOfLabel DEF CutShort
<1>2. Kind(r)' = Kind(r) /\ \A f : Src(r, f)' = object'[req[r].project][f]
  BY <1>1 DEF Kind, Src
<1> SUFFICES ASSUME Kind(r) = "duplicate", r \notin crossed
             PROVE  /\ \A f \in Paths : Copied(r, f)'
                    /\ pc'[r] = "ok" => todo'[r] = {}
  BY <1>1, <1>2 DEF Duplicates
<1> DEFINE Goal == /\ \A f \in Paths : Copied(r, f)'
                   /\ pc'[r] = "ok" => todo'[r] = {}
<1> SUFFICES Goal
  OBVIOUS
<1>3. \A f \in Paths : Copied(r, f)
  BY <1>1 DEF Duplicates
<1>4. Target(r) = r /\ Destination(r) = r /\ req[r].project \in Places /\ req[r].project # r
  BY <1>0, <1>1, Asked DEF Target, Destination, Typed, Rooted
<1>5. \A R : After(r, R) = IF R # {} THEN "store" ELSE "ok"
  BY DEF After
<1>6. CASE pc[r] = "find"
  <2>1. FindProject(r)
    BY <1>6, Labelled
  <2>2. pc'[r] \in {"list", "error"} /\ UNCHANGED <<object, rows>>
    BY <1>0, <2>1 DEF FindProject, Goto
  <2> QED
  BY <1>1, <1>3, <1>6, <2>2 DEF Copied
<1>7. CASE pc[r] = "list"
  <2>1. List(r)
    BY <1>7, Labelled
  <2>2. UNCHANGED <<object, rows>> /\ pc'[r] \in {"insert", "error"}
    <3>1. UNCHANGED <<object, rows>>
      BY <2>1 DEF List
    <3> QED
    BY <1>0, <2>1, <3>1, ListCases DEF Lists, Goto, AfterList
  <2>3. ASSUME pc'[r] = "insert", NEW f \in Paths PROVE Copied(r, f)'
    <3>0. PICK part : Lists(r, part)
      BY <1>0, <2>1, <2>3, ListCases DEF Goto
    <3>1. /\ todo'[r] = part /\ part \subseteq Listed(r)
          /\ asOf' = [asOf EXCEPT ![r] = [g \in Paths |->
               IF g \in Listed(r) /\ Kind(r) \in {"snapshot", "duplicate"}
                 THEN object[req[r].project][g] ELSE None]]
      BY <1>0, <3>0 DEF Lists
    <3>4. part = Listed(r) \/ CutShort(r)'
      BY <1>7, <3>0 DEF Lists, Fails, CutShort
    <3>2. asOf'[r][f] = IF f \in Listed(r) THEN object[req[r].project][f] ELSE None
      BY <1>0, <3>1
    <3>3. last[<<r, f>>] = r => object[r][f] = None /\ f \notin rows[r]
      BY <1>3, <1>7 DEF Copied
    <3> QED
    BY <1>1, <1>2, <2>2, <2>3, <3>1, <3>2, <3>3, <3>4 DEF Copied
  <2> QED
  BY <2>2, <2>3 DEF Copied
<1>8. CASE pc[r] = "insert"
  <2>1. Insert(r)
    BY <1>8, Labelled
  <2>2. UNCHANGED <<object, todo, cur, asOf, rows>> /\ pc'[r] \in {After(r, todo[r]), "error"}
    BY <1>0, <2>1 DEF Insert, Goto, InsertRow, MayHaveHappened
  <2> QED
  BY <1>1, <1>2, <1>3, <1>5, <1>8, <2>2 DEF Copied, Src
<1>9. CASE pc[r] = "store"
  <2>1. PICK g \in Paths : StoreFile(r, g)
    BY <1>9, Labelled
  <2>2. /\ g \in todo[r] /\ todo'[r] = todo[r] \ {g} /\ UNCHANGED <<tables, history>>
        /\ pc'[r] = "row" => /\ Source(r, g) # None /\ cur'[r] = g
                             /\ object' = [object EXCEPT ![Destination(r)][g] = Source(r, g)]
    BY <1>0, <2>1, StoredFile
  <2>3. pc'[r] \in {"row", "undo"}
    BY <1>0, <1>4, <2>1 DEF StoreFile, Goto, OnStoreError, OnError, Skips
  <2>4. Source(r, g) = asOf[r][g] /\ Source(r, g) \in Contents \cup {None}
    BY <1>0, <1>1, <1>3, <1>9, <2>2, SourceTyped DEF Source, Src, Copied
  <2>5. ASSUME pc'[r] = "row", NEW f \in Paths PROVE Copied(r, f)'
    <3>1. \A p \in Places, h \in Paths :
            object'[p][h] = IF p = r /\ h = g THEN asOf[r][g] ELSE object[p][h]
      BY <1>0, <1>4, <2>2, <2>4, <2>5, FilePut
    <3>2. Src(r, f)' = Src(r, f)
      BY <1>2, <1>4, <3>1 DEF Src
    <3>3. CASE f = g
      BY <1>0, <1>1, <2>2, <2>4, <2>5, <3>1, <3>3 DEF Copied
    <3>4. CASE f # g
      <4>1. object'[r][f] = object[r][f]
        BY <1>0, <3>1, <3>4
      <4>2. (f \in todo'[r] <=> f \in todo[r]) /\ UNCHANGED <<asOf, rows>> /\ cur'[r] # f
        BY <2>2, <2>5, <3>4
      <4> QED
      BY <1>1, <1>3, <1>9, <2>5, <3>2, <4>1, <4>2 DEF Copied
    <3> QED
    BY <3>3, <3>4
  <2> QED
  BY <2>3, <2>5 DEF Copied
<1>10. CASE pc[r] = "row"
  <2>1. StoreRow(r)
    BY <1>10, Labelled
  <2>2. UNCHANGED <<object, todo, history>>
    BY <1>0, <2>1, RowStored
  <2>3. CASE pc'[r] = OnError(r, todo[r])
    BY <1>4, <2>3 DEF OnError, Skips, Copied
  <2>4. CASE /\ pc'[r] = After(r, todo[r])
             /\ \A g : g \in rows'[r] <=> g \in rows[r] \/ g = cur[r]
    <3>1. \A f \in Paths : Copied(r, f)'
      BY <1>1, <1>2, <1>3, <1>5, <1>10, <2>2, <2>4 DEF Copied, Src
    <3> QED
    BY <1>5, <2>2, <2>4, <3>1
  <2> QED
  BY <1>0, <1>4, <2>1, <2>3, <2>4, RowStored
<1>11. CASE pc[r] = "undo"
  <2>1. pc'[r] = "error"
    BY <1>0, <1>11, Labelled DEF Undo, Goto
  <2> QED
  BY <2>1 DEF Copied
<1>12. pc[r] \in {"find", "list", "insert", "store", "row", "undo"}
  BY <1>0, <1>1, Labelled DEF Typed, Flow, Labels
<1> QED
BY <1>6, <1>7, <1>8, <1>9, <1>10, <1>11, <1>12

LEMMA TakenBackNext ==
  ASSUME Known, NEW r \in Requests, [Next]_vars, TakenBack(r)
  PROVE  TakenBack(r)'
<1>0. Typed /\ Untouched /\ pc \in [Requests -> PCs]
  BY DEF Known, Sound, Typed, Types
<1>1. CASE Step(r)
  <2>1. req' = req /\ req[r] # None /\ broken \subseteq broken'
    BY <1>0, <1>1, StepFrame, Labelled, KindOfLabel
  <2> SUFFICES ASSUME Kind(r) \in Makes, pc'[r] = "error",
                      {<<r, "insert">>, <<r, "undo">>} \cap broken' = {}
               PROVE  r \notin projects'
    BY <2>1 DEF TakenBack, Kind
  <2>2. Target(r) = r
    BY DEF Target
  <2>3. CASE pc[r] \in {"find", "list"}
    <3>1. UNCHANGED projects
      BY <1>0, <1>1, <2>3, Labelled DEF FindProject, List
    <3> QED
      BY <1>0, <2>3, <3>1 DEF Untouched, Early
  <2>4. CASE pc[r] = "insert"
    <3>1. Insert(r) /\ r \notin projects
      BY <1>0, <1>1, <2>4, Labelled DEF Untouched, Early
    <3>2. ~Fails(r)
      BY <2>4 DEF Fails
    <3>3. After(r, todo[r]) # "error"
      BY DEF After
    <3>4. FALSE
      BY <1>0, <3>1, <3>2, <3>3 DEF Insert, Goto
    <3> QED
    BY <3>4
  <2>5. CASE pc[r] = "undo"
    <3>1. Undo(r)
      BY <1>0, <1>1, <2>5, Labelled
    <3>2. ~Fails(r)
      BY <2>5 DEF Fails
    <3>3. DeleteRow(r)
      BY <3>1, <3>2 DEF Undo
    <3> QED
    BY <3>3 DEF DeleteRow
  <2>6. pc[r] # "store"
    <3>1. \A f \in Paths : StoreFile(r, f) => pc'[r] # "error"
      BY <1>0, <2>2 DEF StoreFile, Goto, OnStoreError, OnError, Skips
    <3> QED
    BY <1>1, <3>1, Labelled
  <2>7. pc[r] # "row"
    <3>1. OnError(r, todo[r]) = "undo" /\ After(r, todo[r]) # "error"
      BY <2>2 DEF OnError, Skips, After
    <3> QED
    BY <1>0, <1>1, <3>1, Labelled, RowStored
  <2>8. pc[r] \notin {"count", "welcome", "welcomeRow"}
    <3>1. Count(r) \/ Welcome(r) \/ WelcomeRow(r) => pc'[r] # "error"
      BY <1>0 DEF Count, Welcome, WelcomeRow, Goto
    <3> QED
    BY <1>1, <3>1, Labelled
  <2>9. pc[r] \in {"find", "list", "insert", "store", "row", "undo", "count", "welcome", "welcomeRow"}
    BY <1>0, <1>1, <2>1, Labelled DEF Typed, Flow, Labels
  <2> QED
  BY <2>3, <2>4, <2>5, <2>6, <2>7, <2>8, <2>9
<1>2. ASSUME NEW q \in Menu, ArriveAs(r, q) PROVE TakenBack(r)'
  <2>1. pc'[r] = First(q) /\ First(q) # "error"
    BY <1>0, <1>2, ArrivedFrame, MenuTyped DEF First
  <2> QED
  BY <2>1 DEF TakenBack
<1>3. CASE Others(r) /\ req[r] = None
  BY <1>0, <1>3, StayAway DEF TakenBack
<1>4. CASE Others(r) /\ req[r] # None
  <2>1. /\ req'[r] = req[r] /\ broken \subseteq broken'
        /\ pc'[r] = pc[r] \/ pc'[r] = "killed"
    BY <1>4, Elsewhere
  <2>2. r \in projects' => r \in projects
    <3>1. ASSUME NEW s \in Requests \ {r}, Step(s) PROVE r \in projects' => r \in projects
      BY <1>0, <3>1, StepTablesTyped
    <3>2. ASSUME NEW s \in Requests \ {r}, NEW q \in Menu, ArriveAs(s, q) PROVE projects' = projects
      BY <3>2 DEF ArriveAs
    <3>3. Kill \/ Quiet => projects' = projects
      BY DEF Kill, Quiet
    <3> QED
    BY <1>4, <3>1, <3>2, <3>3 DEF Others
  <2> QED
  BY <2>1, <2>2 DEF TakenBack, Kind
<1> QED
BY <1>1, <1>2, <1>3, <1>4, CasesOf

\* A duplicate that is answered well has files of its source only, with their
\* content, and all of them unless its listing broke off, which no call reports; a
\* duplicate or creation that fails leaves no project unless the call that makes it
\* or takes it back failed (handleDuplicateProject).
THEOREM CopiesAreWhole == Spec => []CopyIsWhole
<1> DEFINE Inv == \A r \in Requests : Duplicates(r) /\ TakenBack(r)
<1>1. Init => Inv
  BY DEF Init, Duplicates, TakenBack
<1>2. Known /\ Inv /\ [Next]_vars => Inv'
  <2> SUFFICES ASSUME Known, Inv, [Next]_vars, NEW r \in Requests PROVE Duplicates(r)' /\ TakenBack(r)'
    OBVIOUS
  <2>1. TakenBack(r)'
    BY TakenBackNext
  <2>2. CASE Step(r)
    BY <2>1, <2>2, DuplicatesStep
  <2>3. ASSUME NEW q \in Menu, ArriveAs(r, q) PROVE Duplicates(r)'
    BY <2>3, DuplicatesArrive
  <2>4. CASE Others(r) /\ req[r] # None
    BY <2>1, <2>4, DuplicatesElsewhere
  <2>5. CASE Others(r) /\ req[r] = None
    <3>1. req'[r] = None
      BY <2>5, StayAway DEF Known, Sound
    <3> QED
    BY <2>1, <3>1 DEF Duplicates
  <2> QED
  BY <2>1, <2>2, <2>3, <2>4, <2>5, CasesOf
<1>3. Known /\ Inv => CopyIsWhole
  <2> SUFFICES ASSUME Known, NEW r \in Requests, Duplicates(r), TakenBack(r)
               PROVE  /\ Done(r) /\ Kind(r) = "duplicate" /\ r \in projects =>
                           \A f \in Paths : last[<<r, f>>] = r =>
                             /\ f \in rows[r] => asOf[r][f] # None
                             /\ f \in rows[r] \/ <<r, "list">> \notin broken =>
                                  object[r][f] = asOf[r][f]
                             /\ asOf[r][f] # None => f \in rows[r] \/ <<r, "list">> \in broken
                      /\ pc[r] = "error" /\ Kind(r) \in Makes
                           /\ {<<r, "insert">>, <<r, "undo">>} \cap broken = {} => r \notin projects
    BY DEF CopyIsWhole
  <2>1. pc[r] \in {"ok", "error"} => req[r] # None
    BY DEF Known, Sound, Typed, Flow
  <2> QED
  BY <2>1 DEF Duplicates, TakenBack, Copied, CutShort, Done
<1> HIDE DEF Inv
<1> QED
BY <1>1, <1>2, <1>3, StoreKnown, PTL DEF Spec

-----------------------------------------------------------------------------
(* Snapshots and restores. A snapshot that has crossed nothing copies what *)
(* it listed; a restore of it that has crossed nothing gives each file     *)
(* back. The snapshot has ended when such a restore begins (LateRestore).  *)

Snapped(r, f) ==
  /\ pc[r] \in {"insert", "store"} /\ f \in todo[r] => asOf[r][f] = Src(r, f)
  /\ pc[r] = "insert" /\ f \notin todo[r] => asOf[r][f] = None
  /\ asOf[r][f] # None /\ manifest[r] # None =>
       /\ f \in manifest[r]
       /\ (pc[r] = "store" /\ f \notin todo[r]) \/ pc[r] = "ok" => object[r][f] = asOf[r][f]

Snaps(r) ==
  req[r] # None /\ Kind(r) = "snapshot" /\ r \notin crossed /\ Unbroken(r) =>
    \A f \in Paths : Snapped(r, f)

Back(p, s, f) == object[p][f] = asOf[s][f] /\ f \in rows[p]

BackSoon(r, p, s, f) ==
  /\ pc[r] = "store" => f \in todo[r] \/ Back(p, s, f)
  /\ pc[r] = "row" => \/ f \in todo[r] \/ Back(p, s, f)
                      \/ f = cur[r] /\ object[p][f] = asOf[s][f]
  /\ pc[r] = "ok" => Back(p, s, f)

Restores(r) ==
  req[r] # None /\ Kind(r) = "restore" /\ r \notin crossed =>
    LET s == req[r].snapshot
        p == req[r].project
    IN /\ pc[r] \in {"list", "store", "row"} => p \in projects
       /\ pc[r] \in {"store", "row"} => manifest[s] # None /\ req[s].project = p
       /\ Unbroken(r) /\ Done(s) /\ Unbroken(s) =>
            \A f \in Paths : asOf[s][f] # None /\ last[<<p, f>>] = r => BackSoon(r, p, s, f)

LEMMA SnapsElsewhere ==
  ASSUME Known, [Next]_vars, NEW r \in Requests, req[r] # None, Snaps(r), Others(r)
  PROVE  Snaps(r)'
<1>1. /\ req'[r] = req[r] /\ todo'[r] = todo[r] /\ asOf'[r] = asOf[r]
      /\ pc'[r] = pc[r] \/ pc'[r] = "killed"
      /\ r \notin crossed' => r \notin crossed
      /\ broken \subseteq broken'
  BY Elsewhere
<1>2. Kind(r)' = Kind(r) /\ (Unbroken(r)' => Unbroken(r))
  BY <1>1 DEF Kind, Unbroken
<1> SUFFICES ASSUME Kind(r) = "snapshot", r \notin crossed', Unbroken(r), NEW f \in Paths
             PROVE  Snapped(r, f)'
  BY <1>1, <1>2 DEF Snaps
<1>3. Snapped(r, f)
  BY <1>1 DEF Snaps
<1>4. ASSUME pc[r] \in {"insert", "store"} PROVE Src(r, f)' = Src(r, f)
  <2>1. PICK p \in Places : p = req[r].project
    BY Asked DEF Known, Sound
  <2>2. Active(r) /\ <<p, f>> \in Reads(r, req[r])
    BY <1>4, <2>1 DEF Active, Reads, Files, Kind
  <2>3. object'[p][f] = object[p][f]
    BY <2>2, Elsewhere
  <2> QED
  BY <1>1, <2>1, <2>3 DEF Src
<1>5. manifest'[r] # None => manifest'[r] = manifest[r]
  <2>1. ASSUME NEW s \in Requests \ {r}, Step(s) PROVE manifest'[r] # None => manifest'[r] = manifest[r]
    BY <2>1, ManifestStep DEF Known, Sound
  <2>2. ASSUME NEW s \in Requests \ {r}, NEW q \in Menu, ArriveAs(s, q) PROVE manifest' = manifest
    BY <2>2 DEF ArriveAs
  <2>3. Kill \/ Quiet => manifest' = manifest
    BY DEF Kill, Quiet
  <2> QED
  BY <2>1, <2>2, <2>3 DEF Others
<1>6. object[r][f] # None /\ manifest[r] # None => object'[r][f] = object[r][f]
  BY CopyKept DEF Known
<1> QED
BY <1>1, <1>3, <1>4, <1>5, <1>6 DEF Snapped

LEMMA SnapsArrive ==
  ASSUME Known, NEW r \in Requests, NEW q \in Menu, ArriveAs(r, q)
  PROVE  Snaps(r)'
<1>1. req'[r] = q /\ pc'[r] = First(q) /\ pc[r] = "new"
  BY ArrivedFrame DEF Known, Sound
<1>2. manifest'[r] = None
  BY <1>1 DEF ArriveAs, Known, Sound, Untouched, Early
<1>3. q.kind = "snapshot" => First(q) = "list"
  BY DEF First
<1> QED
BY <1>1, <1>2, <1>3 DEF Snaps, Snapped, Kind

LEMMA SnapsStep ==
  ASSUME Known, NEW r \in Requests, Step(r), Snaps(r)
  PROVE  Snaps(r)'
<1>0. /\ Typed /\ Within /\ Untouched
      /\ pc \in [Requests -> PCs] /\ manifest \in [Requests -> (SUBSET Paths) \cup {None}]
      /\ object \in [Places -> [Paths -> Contents \cup {None}]]
      /\ todo \in [Requests -> SUBSET Paths]
      /\ asOf \in [Requests -> [Paths -> Contents \cup {None}]]
      /\ r \in Places
  BY DEF Known, Sound, Typed, Types
<1>1. UNCHANGED <<req, crossed, last>> /\ req[r] # None /\ broken \subseteq broken'
  BY <1>0, StepFrame, Labelled, KindOfLabel
<1>2. /\ Kind(r)' = Kind(r) /\ \A f : Src(r, f)' = object'[req[r].project][f]
      /\ Unbroken(r)' => Unbroken(r)
  BY <1>1 DEF Kind, Src, Unbroken
<1> SUFFICES ASSUME Kind(r) = "snapshot", r \notin crossed, Unbroken(r)', NEW f \in Paths
             PROVE  Snapped(r, f)'
  BY <1>1, <1>2 DEF Snaps
<1>3. \A g \in Paths : Snapped(r, g)
  BY <1>1, <1>2 DEF Snaps
<1>4. Destination(r) = r /\ req[r].project \in Places /\ req[r].project # r
  BY <1>0, <1>1, Asked DEF Destination, Typed, Rooted
<1>5. \A R : After(r, R) = IF R # {} THEN "store" ELSE "ok"
  BY DEF After
<1>6. ~Fails(r)
  <2> SUFFICES ASSUME Fails(r) PROVE FALSE
    OBVIOUS
  <2>1. <<r, pc[r]>> \in broken'
    BY DEF Fails
  <2> QED
  BY <2>1 DEF Unbroken
<1>7. CASE pc[r] = "list"
  <2>1. List(r) /\ manifest[r] = None
    BY <1>0, <1>7, Labelled DEF Untouched, Early
  <2>2. UNCHANGED <<object, manifest>> /\ pc'[r] \in {"insert", "error"}
    <3>1. UNCHANGED <<object, manifest>>
      BY <2>1 DEF List
    <3> QED
    BY <1>0, <2>1, <3>1, ListCases DEF Lists, Goto, AfterList
  <2>3. ASSUME pc'[r] = "insert" PROVE asOf'[r][f] = IF f \in todo'[r] THEN Src(r, f) ELSE None
    <3>0. PICK part : Lists(r, part)
      BY <1>0, <2>1, <2>3, ListCases DEF Goto
    <3>1. /\ todo'[r] = Listed(r)
          /\ asOf' = [asOf EXCEPT ![r] = [g \in Paths |->
               IF g \in Listed(r) /\ Kind(r) \in {"snapshot", "duplicate"}
                 THEN object[req[r].project][g] ELSE None]]
      BY <1>0, <1>6, <3>0 DEF Lists
    <3> QED
    BY <1>0, <3>1 DEF Src
  <2> QED
  BY <1>1, <2>1, <2>2, <2>3 DEF Snapped, Src
<1>8. CASE pc[r] = "insert"
  <2>1. Insert(r)
    BY <1>8, Labelled
  <2>2. UNCHANGED <<object, todo, asOf>>
    BY <2>1 DEF Insert
  <2>3. \/ pc'[r] = After(r, todo[r]) /\ manifest'[r] = todo[r]
        \/ pc'[r] = "error" /\ manifest'[r] = None
    BY <1>0, <1>6, <1>8, <2>1 DEF Insert, Goto, InsertRow, Untouched, Early
  <2>4. Src(r, f)' = Src(r, f)
    BY <1>1, <2>2 DEF Src
  <2>5. CASE pc'[r] = After(r, todo[r]) /\ manifest'[r] = todo[r]
    BY <1>3, <1>5, <1>8, <2>2, <2>4, <2>5 DEF Snapped
  <2>6. CASE pc'[r] = "error" /\ manifest'[r] = None
    BY <2>6 DEF Snapped
  <2> QED
  BY <2>3, <2>5, <2>6
<1>9. CASE pc[r] = "store"
  <2>1. PICK g \in Paths : StoreFile(r, g)
    BY <1>9, Labelled
  <2>2. /\ g \in todo[r] /\ todo'[r] = todo[r] \ {g} /\ UNCHANGED <<tables, history>>
    BY <1>0, <2>1, StoredFile
  <2>3. Source(r, g) = Src(r, g) /\ Source(r, g) \in Contents \cup {None}
    BY <1>0, <1>1, SourceTyped DEF Source, Src
  <2>4. /\ pc'[r] = After(r, todo'[r])
        /\ \/ Source(r, g) # None /\ object' = [object EXCEPT ![r][g] = Source(r, g)]
           \/ Source(r, g) = None /\ object' = object
    BY <1>0, <1>4, <1>6, <2>1, <2>2 DEF StoreFile, Goto, OnStoreError, PutFile
  <2>5. \A p \in Places, h \in Paths :
          /\ p # r \/ h # g => object'[p][h] = object[p][h]
          /\ p = r /\ h = g /\ Source(r, g) # None => object'[p][h] = Source(r, g)
    <3>1. CASE object' = [object EXCEPT ![r][g] = Source(r, g)]
      <4>1. \A p \in Places, h \in Paths :
              object'[p][h] = IF p = r /\ h = g THEN Source(r, g) ELSE object[p][h]
        BY <1>0, <2>3, <3>1, FilePut
      <4> QED
      BY <4>1
    <3>2. CASE Source(r, g) = None /\ object' = object
      BY <3>2
    <3> QED
    BY <2>4, <3>1, <3>2
  <2>6. Src(r, f)' = Src(r, f)
    BY <1>1, <1>4, <2>5 DEF Src
  <2>7. CASE f = g
    <3>1. asOf[r][g] = Source(r, g) /\ (asOf[r][g] # None => object'[r][g] = asOf[r][g])
      BY <1>0, <1>3, <1>9, <2>2, <2>3, <2>5 DEF Snapped
    <3>2. Snapped(r, g)
      BY <1>3
    <3> QED
    BY <1>5, <2>2, <2>4, <2>7, <3>1, <3>2 DEF Snapped
  <2>8. CASE f # g
    <3>1. Snapped(r, f) /\ object'[r][f] = object[r][f]
      BY <1>0, <1>3, <2>5, <2>8
    <3> QED
    BY <1>5, <1>9, <2>2, <2>4, <2>6, <2>8, <3>1 DEF Snapped
  <2> QED
  BY <2>7, <2>8
<1>10. pc[r] \in {"list", "insert", "store"}
  BY <1>0, <1>1, Labelled DEF Typed, Flow, Labels
<1> QED
BY <1>7, <1>8, <1>9, <1>10

\* What a restore is about: a snapshot that was asked for, and a project.
LEMMA RestoreOf ==
  ASSUME Typed, NEW r \in Requests, req[r] # None, Kind(r) = "restore"
  PROVE  /\ req[r].snapshot \in Requests /\ req[r].project \in Places
         /\ req[req[r].snapshot] # None /\ Kind(req[r].snapshot) = "snapshot" /\ req[r].snapshot # r
         /\ req[r].project # req[r].snapshot
         /\ \A f \in Paths : /\ <<req[r].project, f>> \in Writes(r, req[r])
                             /\ <<req[r].snapshot, f>> \in Reads(r, req[r])
<1>1. /\ req[r].snapshot \in Requests /\ req[r].project \in Places
      /\ req[req[r].snapshot] # None /\ Kind(req[r].snapshot) = "snapshot" /\ req[r].snapshot # r
      /\ IsProject(req[r].project)
  BY Asked DEF Typed, Rooted
<1>2. req[r].project # req[r].snapshot
  BY <1>1, StoreAssumption DEF IsProject
<1> QED
BY <1>1, <1>2 DEF Writes, Reads, Files, Kind

\* A project is deleted by a request that may write all its files.
LEMMA ProjectLost ==
  ASSUME Typed, NEW r \in Requests, Step(r), NEW p \in projects, p \notin projects'
  PROVE  \A f \in Paths : <<p, f>> \in Writes(r, req[r])
<1>1. (pc[r] = "undo" /\ p = r) \/ (pc[r] = "delete" /\ p = req[r].project)
  BY TableStep DEF TableSteps, InsertRow, PutRow, DeleteRow, DeleteRows, DropManifest, Mark
<1> QED
BY <1>1, KindOfLabel DEF Writes, Files, Kind

\* The row of a snapshot is deleted with its project or by a request that may
\* write all its files.
LEMMA SnapshotLost ==
  ASSUME Typed, NEW r \in Requests, Step(r), NEW s \in Requests, manifest[s] # None, manifest'[s] = None
  PROVE  req[s].project \notin projects' \/ \A f \in Paths : <<s, f>> \in Writes(r, req[r])
<1>1. manifest \in [Requests -> (SUBSET Paths) \cup {None}] /\ todo[r] # None
  BY StoreAssumption DEF Typed, Types
<1>2. \/ req[s].project \notin projects'
      \/ pc[r] = "update" /\ Kind(r) = "dropSnapshot" /\ s = req[r].snapshot
  BY <1>1, TableStep DEF TableSteps, InsertRow, PutRow, DeleteRow, DeleteRows, DropManifest, Mark
<1> QED
BY <1>2 DEF Writes, Files, Kind

\* The snapshot of a restore that has crossed nothing has ended.
LEMMA SnapshotEnded ==
  ASSUME Known, [Next]_vars, NEW r \in Requests, req[r] # None, Kind(r) = "restore", r \notin crossed,
         NEW s \in Requests, s = req[r].snapshot
  PROVE  /\ req'[s] = req[s] /\ asOf'[s] = asOf[s]
         /\ Done(s)' => Done(s)
         /\ Unbroken(s)' => Unbroken(s)
<1>1. req[s] # None /\ ~Active(s)
  BY RestoreOf DEF Known, Sound, LateRestore
<1>2. ~Step(s)
  BY <1>1, Labelled, KindOfLabel DEF Known, Sound
<1>3. Others(s)
  BY <1>1, <1>2, CasesOf DEF ArriveAs
<1>4. /\ req'[s] = req[s] /\ asOf'[s] = asOf[s] /\ pc'[s] = pc[s]
      /\ broken \subseteq broken' /\ (s \notin crossed' => s \notin crossed)
  BY <1>1, <1>3, Elsewhere
<1> QED
BY <1>4 DEF Done, Unbroken

LEMMA RestoresElsewhere ==
  ASSUME Known, [Next]_vars, NEW r \in Requests, req[r] # None, Restores(r), Others(r)
  PROVE  Restores(r)'
<1>1. /\ req'[r] = req[r] /\ todo'[r] = todo[r] /\ cur'[r] = cur[r]
      /\ pc'[r] = pc[r] \/ pc'[r] = "killed"
      /\ r \notin crossed' => r \notin crossed
      /\ broken \subseteq broken'
  BY Elsewhere
<1>2. Kind(r)' = Kind(r) /\ (Unbroken(r)' => Unbroken(r))
  BY <1>1 DEF Kind, Unbroken
<1> SUFFICES ASSUME Kind(r) = "restore", r \notin crossed',
                    NEW s \in Requests, s = req[r].snapshot,
                    NEW p \in Places, p = req[r].project
             PROVE  /\ pc'[r] \in {"list", "store", "row"} => p \in projects'
                    /\ pc'[r] \in {"store", "row"} => manifest'[s] # None /\ req'[s].project = p
                    /\ Unbroken(r)' /\ Done(s)' /\ Unbroken(s)' =>
                         \A f \in Paths : asOf'[s][f] # None /\ last'[<<p, f>>] = r =>
                           BackSoon(r, p, s, f)'
  <2>1. Kind(r) = "restore" => req[r].snapshot \in Requests /\ req[r].project \in Places
    BY RestoreOf DEF Known, Sound
  <2>2. SUFFICES ASSUME req'[r] # None, Kind(r)' = "restore", r \notin crossed',
                        NEW s, s = req'[r].snapshot, NEW p, p = req'[r].project
                 PROVE  /\ pc'[r] \in {"list", "store", "row"} => p \in projects'
                        /\ pc'[r] \in {"store", "row"} => manifest'[s] # None /\ req'[s].project = p
                        /\ Unbroken(r)' /\ Done(s)' /\ Unbroken(s)' =>
                             \A f \in Paths : asOf'[s][f] # None /\ last'[<<p, f>>] = r =>
                               BackSoon(r, p, s, f)'
    BY <1>1, <1>2 DEF Restores, Done, Unbroken, BackSoon, Back
  <2> QED
  BY <1>1, <1>2, <2>1, <2>2
<1>3. /\ pc[r] \in {"list", "store", "row"} => p \in projects
      /\ pc[r] \in {"store", "row"} => manifest[s] # None /\ req[s].project = p
      /\ Unbroken(r) /\ Done(s) /\ Unbroken(s) =>
           \A f \in Paths : asOf[s][f] # None /\ last[<<p, f>>] = r => BackSoon(r, p, s, f)
  BY <1>1 DEF Restores
<1>4. req'[s] = req[s] /\ asOf'[s] = asOf[s] /\ (Done(s)' => Done(s)) /\ (Unbroken(s)' => Unbroken(s))
  BY <1>1, SnapshotEnded
<1>5. ASSUME NEW t \in Requests \ {r}, Step(t), Active(r)
      PROVE  \A k \in Writes(r, req[r]) \cup Reads(r, req[r]) : k \notin Writes(t, req[t])
  <2>1. Active(t)
    BY <1>5, Labelled, KindOfLabel DEF Known, Sound
  <2> QED
  BY <1>1, <1>5, <2>1 DEF Known, Crossing, Common
<1>6. ASSUME pc[r] \in {"list", "store", "row"}
      PROVE  /\ p \in projects'
             /\ pc[r] \in {"store", "row"} => manifest'[s] # None
  <2>1. Active(r) /\ Typed
    BY <1>6 DEF Active, Known, Sound
  <2>2. /\ <<p, Readme>> \in Writes(r, req[r]) /\ <<s, Readme>> \in Reads(r, req[r])
        /\ Readme \in Paths
    BY <2>1, RestoreOf, StoreAssumption
  <2>3. ASSUME NEW t \in Requests \ {r}, Step(t)
        PROVE  /\ p \in projects'
               /\ pc[r] \in {"store", "row"} => manifest'[s] # None
    <3>1. p \in projects'
      BY <1>3, <1>5, <1>6, <2>1, <2>2, <2>3, ProjectLost
    <3> QED
    BY <1>3, <1>5, <2>1, <2>2, <2>3, <3>1, SnapshotLost
  <2>4. ASSUME NEW t \in Requests \ {r}, NEW q \in Menu, ArriveAs(t, q) PROVE UNCHANGED tables
    BY <2>4 DEF ArriveAs
  <2>5. Kill \/ Quiet => UNCHANGED tables
    BY DEF Kill, Quiet
  <2> QED
  BY <1>3, <1>6, <2>3, <2>4, <2>5 DEF Others
<1>7. ASSUME Unbroken(r), Done(s), Unbroken(s), NEW f \in Paths, asOf[s][f] # None, last'[<<p, f>>] = r
      PROVE  BackSoon(r, p, s, f)'
  <2>1. /\ last[<<p, f>>] = r /\ object'[p][f] = object[p][f]
        /\ f \in rows'[p] <=> f \in rows[p]
    BY <1>7, Elsewhere DEF Mine
  <2>2. BackSoon(r, p, s, f)
    BY <1>3, <1>7, <2>1
  <2> QED
  BY <1>1, <1>4, <2>1, <2>2 DEF BackSoon, Back
<1> QED
BY <1>1, <1>2, <1>3, <1>4, <1>6, <1>7

LEMMA RestoresArrive ==
  ASSUME Known, NEW r \in Requests, NEW q \in Menu, ArriveAs(r, q)
  PROVE  Restores(r)'
<1>1. req'[r] = q /\ pc'[r] = First(q)
  BY ArrivedFrame DEF Known, Sound
<1>2. projects' = projects /\ (q.kind # "create" => q.project \in projects)
  BY DEF ArriveAs
<1>3. q.kind = "restore" => First(q) = "list"
  BY DEF First
<1> QED
BY <1>1, <1>2, <1>3 DEF Restores, BackSoon, Kind

LEMMA RestoresStep ==
  ASSUME Known, [Next]_vars, NEW r \in Requests, Step(r), Restores(r),
         \A t \in Requests : Snaps(t)
  PROVE  Restores(r)'
<1>0. /\ Typed /\ Within
      /\ pc \in [Requests -> PCs] /\ rows \in [Places -> SUBSET Paths]
      /\ object \in [Places -> [Paths -> Contents \cup {None}]]
      /\ todo \in [Requests -> SUBSET Paths] /\ manifest \in [Requests -> (SUBSET Paths) \cup {None}]
  BY DEF Known, Sound, Typed, Types
<1>1. UNCHANGED <<req, crossed, last>> /\ req[r] # None /\ broken \subseteq broken'
  BY <1>0, StepFrame, Labelled, KindOfLabel
<1>2. Kind(r)' = Kind(r) /\ (Unbroken(r)' => Unbroken(r))
  BY <1>1 DEF Kind, Unbroken
<1> SUFFICES ASSUME Kind(r) = "restore", r \notin crossed,
                    NEW s \in Requests, s = req[r].snapshot,
                    NEW p \in Places, p = req[r].project
             PROVE  /\ pc'[r] \in {"list", "store", "row"} => p \in projects'
                    /\ pc'[r] \in {"store", "row"} => manifest'[s] # None /\ req[s].project = p
                    /\ Unbroken(r)' /\ Done(s)' /\ Unbroken(s)' =>
                         \A f \in Paths : asOf'[s][f] # None /\ last[<<p, f>>] = r =>
                           BackSoon(r, p, s, f)'
  <2>1. Kind(r) = "restore" => req[r].snapshot \in Requests /\ req[r].project \in Places
    BY <1>0, <1>1, RestoreOf
  <2>2. SUFFICES ASSUME Kind(r) = "restore", r \notin crossed,
                        NEW s, s = req[r].snapshot, NEW p, p = req[r].project
                 PROVE  /\ pc'[r] \in {"list", "store", "row"} => p \in projects'
                        /\ pc'[r] \in {"store", "row"} => manifest'[s] # None /\ req[s].project = p
                        /\ Unbroken(r)' /\ Done(s)' /\ Unbroken(s)' =>
                             \A f \in Paths : asOf'[s][f] # None /\ last[<<p, f>>] = r =>
                               BackSoon(r, p, s, f)'
    BY <1>1, <1>2 DEF Restores, Done, Unbroken, BackSoon, Back
  <2> QED
  BY <1>1, <1>2, <2>1, <2>2
<1>3. /\ pc[r] \in {"list", "store", "row"} => p \in projects
      /\ pc[r] \in {"store", "row"} => manifest[s] # None /\ req[s].project = p
      /\ Unbroken(r) /\ Done(s) /\ Unbroken(s) =>
           \A f \in Paths : asOf[s][f] # None /\ last[<<p, f>>] = r => BackSoon(r, p, s, f)
  BY <1>1 DEF Restores
<1>4. asOf'[s] = asOf[s] /\ (Done(s)' => Done(s)) /\ (Unbroken(s)' => Unbroken(s))
  BY <1>1, SnapshotEnded
<1>5. Target(r) = p /\ Destination(r) = p /\ p # s /\ \A f : Source(r, f) = object[s][f]
  BY <1>0, <1>1, RestoreOf DEF Target, Destination, Source
<1>6. \A R : After(r, R) = IF R # {} THEN "store" ELSE "ok"
  BY DEF After
<1>7. \A R : OnError(r, R) = After(r, R) /\ OnStoreError(r, R) = After(r, R)
  BY DEF OnError, OnStoreError, Skips
<1>8. Unbroken(r)' => ~Fails(r)
  <2> SUFFICES ASSUME Fails(r) PROVE ~Unbroken(r)'
    OBVIOUS
  <2>1. <<r, pc[r]>> \in broken'
    BY DEF Fails
  <2> QED
  BY <2>1 DEF Unbroken
\* An intact snapshot has the content of its time.
<1>9. ASSUME Done(s), Unbroken(s), NEW f \in Paths, asOf[s][f] # None, manifest[s] # None
      PROVE  f \in manifest[s] /\ object[s][f] = asOf[s][f]
  <2>1. req[s] # None /\ Kind(s) = "snapshot"
    BY <1>0, <1>1, RestoreOf
  <2> QED
  BY <1>9, <2>1 DEF Snaps, Snapped, Done
<1>10. CASE pc[r] = "list"
  <2>1. List(r)
    BY <1>10, Labelled
  <2>2. UNCHANGED tables
    BY <2>1 DEF List
  <2>3. CASE /\ Listed(r) # None /\ todo' = [todo EXCEPT ![r] = Listed(r)]
             /\ Goto(r, AfterList(r, Listed(r)))
    <3>1. /\ manifest[s] # None /\ req[s].project = p /\ todo'[r] = manifest[s]
      BY <1>0, <2>3 DEF Listed, ManifestOf
    <3>2. pc'[r] = After(r, manifest[s])
      BY <1>0, <2>3, <3>1 DEF Goto, AfterList, Listed, ManifestOf
    <3>3. ASSUME Done(s), Unbroken(s), NEW f \in Paths, asOf[s][f] # None
          PROVE  pc'[r] = "store" /\ f \in todo'[r]
      BY <1>6, <1>9, <3>1, <3>2, <3>3
    <3> QED
    BY <1>3, <1>4, <1>6, <1>10, <2>2, <3>1, <3>2, <3>3 DEF BackSoon
  <2>4. CASE Goto(r, "error")
    BY <1>0, <2>4 DEF Goto, BackSoon
  <2>5. ASSUME NEW part, Lists(r, part)
        PROVE  part = Listed(r)
    BY <2>5 DEF Lists
  <2> QED
  BY <2>1, <2>3, <2>4, <2>5, ListCases DEF Lists
<1>11. CASE pc[r] = "store"
  <2>1. PICK g \in Paths : StoreFile(r, g)
    BY <1>11, Labelled
  <2>2. /\ g \in todo[r] /\ todo'[r] = todo[r] \ {g} /\ UNCHANGED <<tables, history>>
        /\ pc'[r] = "row" => /\ Source(r, g) # None /\ cur'[r] = g
                             /\ object' = [object EXCEPT ![p][g] = object[s][g]]
    <3>1. /\ g \in todo[r] /\ todo'[r] = todo[r] \ {g} /\ UNCHANGED <<tables, history>>
          /\ pc'[r] = "row" => /\ Source(r, g) # None /\ cur'[r] = g
                               /\ object' = [object EXCEPT ![Destination(r)][g] = Source(r, g)]
      BY <1>0, <2>1, StoredFile
    <3>2. Destination(r) = p /\ Source(r, g) = object[s][g]
      BY <1>5
    <3> QED
    BY <3>1, <3>2
  <2>3. ASSUME ~Fails(r), pc'[r] # "row"
        PROVE  pc'[r] = After(r, todo'[r]) /\ object[s][g] = None /\ object' = object
    BY <1>0, <1>5, <1>7, <2>1, <2>2, <2>3 DEF StoreFile, Goto
  <2>4. ASSUME Unbroken(r)', Done(s), Unbroken(s), NEW f \in Paths, asOf[s][f] # None,
               last[<<p, f>>] = r
        PROVE  BackSoon(r, p, s, f)'
    <3>1. f \in todo[r] \/ Back(p, s, f)
      BY <1>2, <1>3, <1>11, <2>4 DEF BackSoon
    <3>2. object[s][f] = asOf[s][f]
      BY <1>3, <1>9, <1>11, <2>4
    <3>3. CASE pc'[r] = "row"
      <4>1. \A h \in Paths : object'[p][h] = IF h = g THEN object[s][g] ELSE object[p][h]
        <5>1. object[s][g] \in Contents \cup {None}
          BY <1>0
        <5> QED
        BY <1>0, <2>2, <3>3, <5>1, FilePut
      <4>2. CASE f = g
        BY <1>4, <2>2, <3>2, <3>3, <4>1, <4>2 DEF BackSoon
      <4>3. CASE f # g
        BY <1>4, <2>2, <3>1, <3>3, <4>1, <4>3 DEF BackSoon, Back
      <4> QED
      BY <4>2, <4>3
    <3>4. CASE pc'[r] # "row"
      <4>1. pc'[r] = After(r, todo'[r]) /\ object[s][g] = None /\ object' = object
        BY <1>8, <2>3, <2>4, <3>4
      <4>2. f # g
        BY <2>4, <3>2, <4>1
      <4> QED
      BY <1>4, <1>6, <2>2, <3>1, <4>1, <4>2 DEF BackSoon, Back
    <3> QED
    BY <3>3, <3>4
  <2> QED
  BY <1>3, <1>4, <1>11, <2>2, <2>4
<1>12. CASE pc[r] = "row"
  <2>1. StoreRow(r)
    BY <1>12, Labelled
  <2>2. /\ UNCHANGED <<projects, manifest, object, todo, asOf>>
        /\ pc'[r] = After(r, todo[r])
        /\ Unbroken(r)' => \A g : g \in rows'[p] <=> g \in rows[p] \/ g = cur[r]
    BY <1>0, <1>3, <1>5, <1>7, <1>12, <2>1, RowStored
  <2>3. ASSUME Unbroken(r)', Done(s), Unbroken(s), NEW f \in Paths, asOf[s][f] # None,
               last[<<p, f>>] = r
        PROVE  BackSoon(r, p, s, f)'
    <3>1. \/ f \in todo[r] \/ Back(p, s, f)
          \/ f = cur[r] /\ object[p][f] = asOf[s][f]
      BY <1>2, <1>3, <1>12, <2>3 DEF BackSoon
    <3>2. f \in todo'[r] \/ Back(p, s, f)'
      BY <2>2, <2>3, <3>1 DEF Back
    <3> QED
    BY <1>6, <2>2, <3>2 DEF BackSoon
  <2> QED
  BY <1>3, <1>4, <1>12, <2>2, <2>3
<1>13. pc[r] \in {"list", "store", "row"}
  BY <1>0, <1>1, Labelled DEF Typed, Flow, Labels
<1> QED
BY <1>10, <1>11, <1>12, <1>13

\* A restore in which no call failed and that nothing crossed gives every file of
\* an intact snapshot back: the snapshot is listed as long as the restore runs,
\* its copies are those of its time, and nobody else writes the project's files.
THEOREM RestoresBringBack == Spec => []RestoreBringsBack
<1> DEFINE Inv == \A r \in Requests : Snaps(r) /\ Restores(r)
<1>1. Init => Inv
  BY DEF Init, Snaps, Restores
<1>2. Known /\ Inv /\ [Next]_vars => Inv'
  <2> SUFFICES ASSUME Known, Inv, [Next]_vars, NEW r \in Requests PROVE Snaps(r)' /\ Restores(r)'
    OBVIOUS
  <2>1. CASE Step(r)
    BY <2>1, SnapsStep, RestoresStep
  <2>2. ASSUME NEW q \in Menu, ArriveAs(r, q) PROVE Snaps(r)' /\ Restores(r)'
    BY <2>2, SnapsArrive, RestoresArrive
  <2>3. CASE Others(r) /\ req[r] # None
    BY <2>3, SnapsElsewhere, RestoresElsewhere
  <2>4. CASE Others(r) /\ req[r] = None
    <3>1. req'[r] = None
      BY <2>4, StayAway DEF Known, Sound
    <3> QED
    BY <3>1 DEF Snaps, Restores
  <2> QED
  BY <2>1, <2>2, <2>3, <2>4, CasesOf
<1>3. Known /\ Inv => RestoreBringsBack
  <2> SUFFICES ASSUME Known, NEW r \in Requests, Restores(r), Done(r), Kind(r) = "restore", Unbroken(r),
                      Done(req[r].snapshot), Unbroken(req[r].snapshot), NEW f \in Paths,
                      asOf[req[r].snapshot][f] # None, last[<<req[r].project, f>>] = r
               PROVE  Back(req[r].project, req[r].snapshot, f)
    BY DEF RestoreBringsBack, Back
  <2>1. req[r] # None
    BY DEF Known, Sound, Typed, Flow, Done
  <2> QED
  BY <2>1 DEF Restores, BackSoon, Done
<1> HIDE DEF Inv
<1> QED
BY <1>1, <1>2, <1>3, StoreKnown, PTL DEF Spec
================================================================================
