----------------------------- MODULE ProjectStore -----------------------------
(***************************************************************************)
(* The files of the projects: Postgres has the rows (projects,             *)
(* project_files, project_snapshots), the object store has the contents,   *)
(* and every handler goes from one to the other with no transaction around *)
(* it. Requests run side by side, any call may fail with or without having *)
(* taken effect, a client that goes away cancels the context of all calls  *)
(* its request still makes, and the process may be killed.                 *)
(*                                                                         *)
(* A request is known by its number, and so is what it makes: the project  *)
(* of a duplicate or a create, the snapshot of a snapshot. A place is the  *)
(* prefix of the keys of one project's files or of one snapshot.           *)
(***************************************************************************)
EXTENDS Integers

CONSTANTS
  Given,        \* projects that exist at the start
  Paths, Contents, None,
  Readme,       \* workspace/README.tex, made when a project is opened
  ReadmeText,   \* agentWorkspaceReadmeTex
  Stored,       \* what the given projects' files are, None where there is none
  Menu,         \* the requests clients make
  RequestBound, \* bound on the number of requests
  FaultBound    \* bound on failed calls, disconnections and kills together

Requests == 1..RequestBound
Places == Given \cup Requests

Kinds == {"put", "import", "open", "remove", "removeAll", "snapshot", "restore", "dropSnapshot",
          "duplicate", "create", "trash", "untrash", "drop"}

ASSUME StoreAssumption ==
  /\ RequestBound \in Nat /\ FaultBound \in Nat
  /\ Menu \subseteq [kind : Kinds, project : Places, paths : SUBSET Paths,
                     content : Contents, snapshot : Requests]
  /\ Given \cap Requests = {} /\ None \notin Contents \cup Places /\ None \notin Menu
  /\ \A S \in SUBSET Paths : S # None
  /\ Readme \in Paths /\ ReadmeText \in Contents
  /\ Stored \in [Given -> [Paths -> Contents \cup {None}]]

VARIABLES
  projects, trashed,  \* rows of projects, those with deleted_at
  rows,               \* project_files: the paths of each project
  manifest,           \* project_snapshots: the paths of each, None if no row
  object,             \* the object store, place by place
  req, pc, todo, cur, \* each request, where it is, the files left, the file at hand
  gone, faults,       \* cancelled contexts; faults so far
  broken,             \* history: <<request, call>> of every failed call
  crossed,            \* history: requests that ran beside a conflicting one
  last,               \* history: the newest request that may write each file
  torn,               \* history: files a removal left, or may leave, in half
  asOf                \* history: the files each request found when it listed them

tables  == <<projects, trashed, rows, manifest>>
control == <<req, todo, cur>>
faultVars == <<gone, faults, broken>>
history == <<crossed, last, torn, asOf>>
vars == <<tables, object, control, pc, faultVars, history>>

Ended == {"ok", "error", "killed"}
Active(r) == req[r] # None /\ pc[r] \notin Ended
Kind(r) == req[r].kind
NoFiles == [f \in Paths |-> None]

Makes == {"duplicate", "create"}

\* The project a request writes: its own one if it makes one.
Target(r) == IF Kind(r) \in Makes THEN r ELSE req[r].project

\* Where StoreFile puts a file.
Destination(r) == IF Kind(r) = "snapshot" THEN r ELSE Target(r)

\* What StoreFile puts there: the request's bytes, or a copy of an object.
Source(r, f) ==
  CASE Kind(r) \in {"snapshot", "duplicate"} -> object[req[r].project][f]
    [] Kind(r) = "restore" -> object[req[r].snapshot][f]
    [] OTHER -> req[r].content

Goto(r, l) == pc' = [pc EXCEPT ![r] = l]
Works(r) == r \notin gone /\ UNCHANGED faultVars
Fails(r) ==
  /\ broken' = broken \cup {<<r, pc[r]>>}
  /\ IF r \in gone THEN UNCHANGED faults
                   ELSE faults < FaultBound /\ faults' = faults + 1
  /\ UNCHANGED gone

\* A call that fails on a live connection may have taken effect.
MayHaveHappened(r, effect, nothing) == nothing \/ (r \notin gone /\ effect)

Unbroken(r) == \A b \in broken : b[1] # r

-----------------------------------------------------------------------------
(* What the requests may read and write, for the history                   *)

Files(place, paths) == {place} \X paths
Writes(r, q) ==
  CASE q.kind \in {"put", "import", "remove", "removeAll"} -> Files(q.project, q.paths)
    [] q.kind = "open" -> Files(q.project, {Readme})
    [] q.kind \in {"restore", "drop"} -> Files(q.project, Paths)
    [] q.kind = "dropSnapshot" -> Files(q.snapshot, Paths)
    [] q.kind \in {"duplicate", "create", "snapshot"} -> Files(r, Paths)
    [] OTHER -> {}
Reads(r, q) ==
  CASE q.kind \in {"snapshot", "duplicate"} -> Files(q.project, Paths)
    [] q.kind = "restore" -> Files(q.snapshot, Paths)
    [] OTHER -> {}
Common(r, q, s) ==
  (Writes(r, q) \cap (Writes(s, req[s]) \cup Reads(s, req[s])))
    \cup (Reads(r, q) \cap Writes(s, req[s]))
Removals == {"remove", "removeAll"}

Init ==
  /\ projects = Given /\ trashed = {}
  /\ rows = [p \in Places |-> IF p \in Given THEN {f \in Paths : Stored[p][f] # None} ELSE {}]
  /\ manifest = [s \in Requests |-> None]
  /\ object = [p \in Places |-> IF p \in Given THEN Stored[p] ELSE NoFiles]
  /\ req = [r \in Requests |-> None] /\ pc = [r \in Requests |-> "new"]
  /\ todo = [r \in Requests |-> {}] /\ cur = [r \in Requests |-> None]
  /\ gone = {} /\ faults = 0 /\ broken = {} /\ crossed = {} /\ torn = {}
  /\ last = [k \in Places \X Paths |-> None]
  /\ asOf = [r \in Requests |-> NoFiles]

-----------------------------------------------------------------------------
(* A request arrives                                                       *)

First(q) ==
  CASE q.kind \in {"put", "import"} -> "store"
    [] q.kind = "open" -> "count"
    [] q.kind = "remove" -> "erase"
    [] q.kind = "create" -> "insert"
    [] q.kind = "duplicate" -> "find"
    [] q.kind = "drop" -> "check"
    [] q.kind \in {"trash", "untrash", "dropSnapshot"} -> "update"
    [] OTHER -> "list"

\* projectAccessMiddleware answers only for projects there are; ids are random,
\* so the snapshots clients ask for are snapshots that were asked to be made.
Arrive(r) ==
  /\ req[r] = None /\ \A s \in Requests : s < r => req[s] # None
  /\ \E q \in Menu :
       LET met == {s \in Requests : Active(s) /\ Common(r, q, s) # {}} IN
       /\ q.kind # "create" => q.project \in projects
       /\ q.kind \in {"restore", "dropSnapshot"} =>
            req[q.snapshot] # None /\ Kind(q.snapshot) = "snapshot"
       /\ req' = [req EXCEPT ![r] = q]
       /\ Goto(r, First(q))
       /\ todo' = [todo EXCEPT ![r] = q.paths]
       /\ crossed' = crossed \cup met \cup (IF met # {} THEN {r} ELSE {})
       /\ last' = [k \in DOMAIN last |-> IF k \in Writes(r, q) THEN r ELSE last[k]]
       /\ torn' = torn \cup UNION {Common(r, q, s) :
                    s \in {t \in met : {q.kind, Kind(t)} \cap Removals # {}}}
  /\ UNCHANGED <<tables, object, cur, faultVars, asOf>>

Disconnect(r) ==
  /\ Active(r) /\ r \notin gone /\ faults < FaultBound
  /\ gone' = gone \cup {r} /\ faults' = faults + 1
  /\ UNCHANGED <<tables, object, control, pc, broken, history>>

\* The process is killed: nothing goes on with what was in progress.
Kill ==
  /\ faults < FaultBound /\ \E r \in Requests : Active(r)
  /\ faults' = faults + 1
  /\ pc' = [r \in Requests |-> IF Active(r) THEN "killed" ELSE pc[r]]
  /\ torn' = torn \cup UNION {Writes(r, req[r]) :
               r \in {s \in Requests : Active(s) /\ Kind(s) \in Removals}}
  /\ UNCHANGED <<tables, object, control, gone, broken, crossed, last, asOf>>

-----------------------------------------------------------------------------
(* What a handler reads first                                              *)

\* The duplicate's SELECT of main_tex_path, which finds that the project exists.
FindProject(r) ==
  /\ pc[r] = "find"
  /\ \/ Works(r) /\ Goto(r, IF req[r].project \in projects THEN "list" ELSE "error")
     \/ Fails(r) /\ Goto(r, "error")
  /\ UNCHANGED <<tables, object, control, history>>

\* The manifest of the request's snapshot, looked up by id and project.
ManifestOf(r) ==
  LET s == req[r].snapshot IN
  IF req[s] # None /\ req[s].project = req[r].project THEN manifest[s] ELSE None

\* Mutant: a restore takes the paths the project has now.
ListedNow(r) ==
  CASE Kind(r) = "removeAll" -> rows[req[r].project] \cap req[r].paths
    [] OTHER -> rows[req[r].project]

\* The paths to work on: from project_files, or from the snapshot's manifest.
Listed(r) ==
  CASE Kind(r) = "removeAll" -> rows[req[r].project] \cap req[r].paths
    [] Kind(r) = "restore" -> ManifestOf(r)
    [] OTHER -> rows[req[r].project]

\* What follows when only the files of rest are left to store.
After(r, rest) ==
  IF rest # {} THEN "store" ELSE IF Kind(r) = "create" THEN "count" ELSE "ok"

AfterList(r, part) ==
  CASE Kind(r) = "removeAll" -> IF part = {} THEN "eraseRows" ELSE "erase"
    [] Kind(r) = "restore" -> After(r, part)
    [] OTHER -> "insert"

\* A manifest is one column; of the rows of project_files a connection that breaks
\* between two leaves some, and nobody asks rows.Err(): they pass for all.
List(r) ==
  /\ pc[r] = "list"
  /\ \/ /\ Listed(r) # None
        /\ \E part \in SUBSET Listed(r) :
             /\ \/ Works(r) /\ part = Listed(r)
                \/ Fails(r) /\ part # Listed(r) /\ Kind(r) # "restore"
             /\ todo' = [todo EXCEPT ![r] = part]
             /\ Goto(r, AfterList(r, part))
        /\ asOf' = [asOf EXCEPT ![r] = [f \in Paths |->
             IF f \in Listed(r) /\ Kind(r) \in {"snapshot", "duplicate"}
               THEN object[req[r].project][f] ELSE None]]
     \/ /\ (Works(r) /\ Listed(r) = None) \/ Fails(r)
        /\ Goto(r, "error") /\ UNCHANGED <<todo, asOf>>
  /\ UNCHANGED <<tables, object, req, cur, crossed, last, torn>>

-----------------------------------------------------------------------------
(* Making the row of a snapshot or of a project                            *)

InsertRow(r) ==
  IF Kind(r) = "snapshot"
    THEN /\ req[r].project \in projects   \* the foreign key
         /\ manifest' = [manifest EXCEPT ![r] = todo[r]]
         /\ UNCHANGED <<projects, trashed, rows>>
    ELSE projects' = projects \cup {r} /\ UNCHANGED <<trashed, rows, manifest>>

Insert(r) ==
  /\ pc[r] = "insert"
  /\ \/ Works(r) /\ InsertRow(r) /\ Goto(r, After(r, todo[r]))
     \/ /\ Works(r) /\ Kind(r) = "snapshot" /\ req[r].project \notin projects
        /\ Goto(r, "error") /\ UNCHANGED tables
     \/ /\ Fails(r) /\ MayHaveHappened(r, InsertRow(r), UNCHANGED tables)
        /\ Goto(r, "error")
  /\ UNCHANGED <<object, control, history>>

-----------------------------------------------------------------------------
(* Storing one file after the other                                        *)

Skips(r) == Kind(r) \in {"import", "restore"}

\* Mutant: a project that could not be filled is left.
OnErrorLeave(r, rest) == IF Skips(r) THEN After(r, rest) ELSE "error"

\* Mutant: an upload's errors are ignored as a restore's are.
OnErrorGoOn(r, rest) == IF Target(r) = r THEN "undo" ELSE After(r, rest)

\* A file fails: the next one, or the project is taken back, or the end.
OnError(r, rest) ==
  IF Skips(r) THEN After(r, rest) ELSE IF Target(r) = r THEN "undo" ELSE "error"

\* Mutant: a restore inserts the row of a file it could not copy.
OnStoreErrorGoOn(r, rest) ==
  CASE Kind(r) = "snapshot" -> After(r, rest)
    [] Kind(r) = "restore" -> "row"
    [] OTHER -> OnError(r, rest)

\* A snapshot only logs that a copy failed.
OnStoreError(r, rest) ==
  IF Kind(r) = "snapshot" THEN After(r, rest) ELSE OnError(r, rest)

PutFile(place, f, c) == object' = [object EXCEPT ![place][f] = c]

\* PutObject or CopyObject of the next file, in no particular order.
StoreFile(r, f) ==
  LET rest == todo[r] \ {f}
      source == Source(r, f)
      put == PutFile(Destination(r), f, source)
  IN /\ pc[r] = "store" /\ f \in todo[r]
     /\ todo' = [todo EXCEPT ![r] = rest]
     /\ \/ /\ Works(r) /\ source # None /\ put
           /\ Goto(r, IF Kind(r) = "snapshot" THEN After(r, rest) ELSE "row")
        \/ /\ \/ Works(r) /\ source = None /\ UNCHANGED object
              \/ Fails(r) /\ MayHaveHappened(r, source # None /\ put, UNCHANGED object)
           /\ Goto(r, OnStoreError(r, rest))
     /\ cur' = [cur EXCEPT ![r] = IF pc'[r] = "row" THEN f ELSE None]
     /\ UNCHANGED <<tables, req, history>>

\* The INSERT of a file's row; only the duplicate's has no ON CONFLICT.
RowFits(r, f) == Target(r) \in projects /\ (Kind(r) = "duplicate" => f \notin rows[r])
PutRow(r, f) ==
  /\ RowFits(r, f)
  /\ rows' = [rows EXCEPT ![Target(r)] = @ \cup {f}]
  /\ UNCHANGED <<projects, trashed, manifest>>

StoreRow(r) ==
  /\ pc[r] = "row"
  /\ \/ Works(r) /\ PutRow(r, cur[r]) /\ Goto(r, After(r, todo[r]))
     \/ /\ \/ Works(r) /\ ~RowFits(r, cur[r]) /\ UNCHANGED tables
           \/ Fails(r) /\ MayHaveHappened(r, PutRow(r, cur[r]), UNCHANGED tables)
        /\ Goto(r, OnError(r, todo[r]))
  /\ cur' = [cur EXCEPT ![r] = None]
  /\ UNCHANGED <<object, req, todo, history>>

\* DELETE FROM projects and its cascades; the objects stay.
DeleteRow(p) ==
  /\ projects' = projects \ {p} /\ trashed' = trashed \ {p}
  /\ rows' = [rows EXCEPT ![p] = {}]
  /\ manifest' = [s \in Requests |->
       IF manifest[s] # None /\ req[s].project = p THEN None ELSE manifest[s]]

\* What was made of a project is deleted when one of its files fails.
Undo(r) ==
  /\ pc[r] = "undo"
  /\ \/ Works(r) /\ DeleteRow(r)
     \/ Fails(r) /\ MayHaveHappened(r, DeleteRow(r), UNCHANGED tables)
  /\ Goto(r, "error")
  /\ UNCHANGED <<object, control, history>>

-----------------------------------------------------------------------------
(* EnsureAgentWorkspace, whose errors are logged                           *)

Count(r) ==
  /\ pc[r] = "count"
  /\ \/ Works(r) /\ Goto(r, IF Readme \in rows[Target(r)] THEN "ok" ELSE "welcome")
     \/ Works(r) /\ Kind(r) = "open" /\ Target(r) \notin projects /\ Goto(r, "error")
     \/ Fails(r) /\ Goto(r, "ok")
     \/ Fails(r) /\ Kind(r) = "open" /\ Goto(r, "error")   \* its SELECT fails
  /\ UNCHANGED <<tables, object, control, history>>

Welcome(r) ==
  LET put == PutFile(Target(r), Readme, ReadmeText) IN
  /\ pc[r] = "welcome"
  /\ \/ Works(r) /\ put /\ Goto(r, "welcomeRow")
     \/ Fails(r) /\ MayHaveHappened(r, put, UNCHANGED object) /\ Goto(r, "ok")
  /\ UNCHANGED <<tables, control, history>>

WelcomeRow(r) ==
  /\ pc[r] = "welcomeRow"
  /\ Goto(r, "ok")
  /\ \/ Works(r) /\ PutRow(r, Readme)
     \/ Works(r) /\ Target(r) \notin projects /\ UNCHANGED tables
     \/ Fails(r) /\ MayHaveHappened(r, PutRow(r, Readme), UNCHANGED tables)
  /\ UNCHANGED <<object, control, history>>

-----------------------------------------------------------------------------
(* Deleting files, snapshots and projects                                  *)

\* The object first, its error ignored.
Erase(r, f) ==
  LET rest == todo[r] \ {f} IN
  /\ pc[r] = "erase" /\ f \in todo[r]
  /\ \/ Works(r) /\ PutFile(req[r].project, f, None)
     \/ Fails(r) /\ MayHaveHappened(r, PutFile(req[r].project, f, None), UNCHANGED object)
  /\ todo' = [todo EXCEPT ![r] = rest]
  /\ Goto(r, IF rest = {} THEN "eraseRows" ELSE "erase")
  /\ UNCHANGED <<tables, req, cur, history>>

\* Then the rows: the one path, or all there are now under the directory.
DeleteRows(r) ==
  /\ rows' = [rows EXCEPT ![req[r].project] = @ \ req[r].paths]
  /\ UNCHANGED <<projects, trashed, manifest>>
EraseRows(r) ==
  /\ pc[r] = "eraseRows"
  /\ \/ Works(r) /\ DeleteRows(r) /\ Goto(r, "ok") /\ UNCHANGED torn
     \/ /\ Fails(r) /\ MayHaveHappened(r, DeleteRows(r), UNCHANGED tables)
        /\ Goto(r, IF Kind(r) = "remove" THEN "ok" ELSE "error")
        /\ torn' = torn \cup Writes(r, req[r])
  /\ UNCHANGED <<object, control, crossed, last, asOf>>

\* handleDeleteSnapshot: the row, if it is of this project, then the tree.
DropManifest(r) ==
  /\ manifest' = [manifest EXCEPT ![req[r].snapshot] = None]
  /\ UNCHANGED <<projects, trashed, rows>>

\* Mutant: the error of deleting the row is ignored.
DropSnapshotUnchecked(r) ==
  /\ pc[r] = "update" /\ Kind(r) = "dropSnapshot" /\ ManifestOf(r) # None
  /\ \/ Works(r) /\ DropManifest(r)
     \/ Fails(r) /\ UNCHANGED tables
  /\ Goto(r, "tree")
  /\ UNCHANGED <<object, control, history>>

DropSnapshot(r) ==
  /\ pc[r] = "update" /\ Kind(r) = "dropSnapshot"
  /\ \/ Works(r) /\ ManifestOf(r) # None /\ DropManifest(r) /\ Goto(r, "tree")
     \/ Works(r) /\ ManifestOf(r) = None /\ UNCHANGED tables /\ Goto(r, "error")
     \/ /\ Fails(r)
        /\ MayHaveHappened(r, ManifestOf(r) # None /\ DropManifest(r), UNCHANGED tables)
        /\ Goto(r, "error")
  /\ UNCHANGED <<object, control, history>>

\* RemoveSnapshotTree: the keys under the prefix, one by one up to an error.
Tree(r) == {f \in Paths : object[req[r].snapshot][f] # None}
RemoveTree(r) ==
  /\ pc[r] = "tree"
  /\ \/ /\ Works(r) /\ \E f \in Tree(r) : PutFile(req[r].snapshot, f, None)
        /\ UNCHANGED pc
     \/ Works(r) /\ Tree(r) = {} /\ Goto(r, "ok") /\ UNCHANGED object
     \/ /\ Fails(r) /\ Goto(r, "ok")
        /\ \/ UNCHANGED object
           \/ r \notin gone /\ \E f \in Tree(r) : PutFile(req[r].snapshot, f, None)
  /\ UNCHANGED <<tables, control, history>>

\* Trash and restore: one UPDATE each, an error if it changes nothing.
Mark(r) ==
  /\ trashed' = IF Kind(r) = "trash" THEN trashed \cup ({req[r].project} \cap projects)
                                     ELSE trashed \ {req[r].project}
  /\ UNCHANGED <<projects, rows, manifest>>
Trash(r) ==
  /\ pc[r] = "update" /\ Kind(r) \in {"trash", "untrash"}
  /\ \/ Works(r) /\ Mark(r) /\ Goto(r, IF trashed' = trashed THEN "error" ELSE "ok")
     \/ Fails(r) /\ MayHaveHappened(r, Mark(r), UNCHANGED tables) /\ Goto(r, "error")
  /\ UNCHANGED <<object, control, history>>

\* handleDeleteProject: the answer on deleted_at is old when the row is deleted.
CheckTrashed(r) ==
  /\ pc[r] = "check"
  /\ \/ Works(r) /\ Goto(r, IF req[r].project \in trashed THEN "delete" ELSE "error")
     \/ Fails(r) /\ Goto(r, "error")
  /\ UNCHANGED <<tables, object, control, history>>
DropProject(r) ==
  /\ pc[r] = "delete"
  /\ \/ Works(r) /\ DeleteRow(req[r].project) /\ Goto(r, "ok")
     \/ /\ Fails(r) /\ MayHaveHappened(r, DeleteRow(req[r].project), UNCHANGED tables)
        /\ Goto(r, "error")
  /\ UNCHANGED <<object, control, history>>

Step(r) ==
  \/ FindProject(r) \/ List(r) \/ Insert(r) \/ StoreRow(r) \/ Undo(r)
  \/ \E f \in Paths : StoreFile(r, f) \/ Erase(r, f)
  \/ Count(r) \/ Welcome(r) \/ WelcomeRow(r)
  \/ EraseRows(r) \/ DropSnapshot(r) \/ RemoveTree(r)
  \/ Trash(r) \/ CheckTrashed(r) \/ DropProject(r)

Next == Kill \/ \E r \in Requests : Arrive(r) \/ Disconnect(r) \/ Step(r)
Spec == Init /\ [][Next]_vars

-----------------------------------------------------------------------------
(* Properties                                                              *)

\* The types, and what the foreign keys keep: a project that is deleted has no
\* files and no snapshots in the tables.
TypeOK ==
  /\ projects \subseteq Places /\ trashed \subseteq projects
  /\ rows \in [Places -> SUBSET Paths]
  /\ \A p \in Places \ projects : rows[p] = {}
  /\ \A s \in Requests : manifest[s] # None =>
       manifest[s] \subseteq Paths /\ Kind(s) = "snapshot" /\ req[s].project \in projects
  /\ object \in [Places -> [Paths -> Contents \cup {None}]]
  /\ \A r \in Requests : req[r] \in Menu \cup {None} /\ todo[r] \subseteq Paths
  /\ gone \subseteq Requests /\ faults \in 0..FaultBound
  /\ torn \subseteq Places \X Paths

\* A file a project lists can be read, whatever failed and whatever ran beside
\* it: every way to make a row stores the object first. Only a delete takes the
\* object first, and only one that was cut short, or that ran beside a write of
\* the same file, may leave the row alone when it has ended.
Removing == UNION {Writes(r, req[r]) : r \in {s \in Requests : Active(s) /\ Kind(s) \in Removals}}
RowHasObject ==
  \A p \in projects : \A f \in rows[p] :
    <<p, f>> \notin torn \cup Removing => object[p][f] # None

\* The copies of a snapshot are not touched while the snapshot is listed: not by
\* edits, restores or deletes of the project's files, nor by a delete of the
\* snapshot that fails to delete its row.
SnapshotKept ==
  [][\A s \in Requests, f \in Paths :
       manifest[s] # None /\ manifest'[s] # None /\ object[s][f] # None
         => object'[s][f] = object[s][f]]_vars

\* Answered well, with nothing beside it that touches the same files.
Done(r) == pc[r] = "ok" /\ r \notin crossed

\* What an answered upload, delete or creation did stays until a later request
\* for the same file, through failures of other requests, disconnections and
\* kills, and whatever is done to other files, snapshots and copies.
AckedKept ==
  \A r \in Requests :
    Done(r) /\ Kind(r) \in Removals \cup {"put", "create"} /\ Target(r) \in projects =>
      \A f \in req[r].paths : last[<<Target(r), f>>] = r =>
        IF Kind(r) \in Removals
          THEN Unbroken(r) => f \notin rows[Target(r)]
          ELSE f \in rows[Target(r)] /\ object[Target(r)][f] = req[r].content

\* A restore in which no call failed gives every file of an intact snapshot its
\* content of the time of the snapshot, the deleted ones too.
RestoreBringsBack ==
  \A r \in Requests :
    Done(r) /\ Kind(r) = "restore" /\ Unbroken(r) /\ req[r].project \in projects =>
      LET p == req[r].project
          s == req[r].snapshot
      IN Done(s) /\ Unbroken(s) =>
           \A f \in Paths : asOf[s][f] # None /\ last[<<p, f>>] = r =>
             object[p][f] = asOf[s][f] /\ f \in rows[p]

\* A duplicate that is answered well has only files of its source, with their
\* content, and all of them, unless its listing broke off: then nothing tells that
\* some are missing. One that is answered with an error, as a creation, leaves no
\* project behind, unless it is the call that makes or takes back the project that
\* failed.
CopyIsWhole ==
  \A r \in Requests :
    /\ Done(r) /\ Kind(r) = "duplicate" /\ r \in projects =>
         \A f \in Paths : last[<<r, f>>] = r =>
           /\ f \in rows[r] => asOf[r][f] # None
           /\ f \in rows[r] \/ <<r, "list">> \notin broken => object[r][f] = asOf[r][f]
           /\ asOf[r][f] # None => f \in rows[r] \/ <<r, "list">> \in broken
    /\ pc[r] = "error" /\ Kind(r) \in Makes /\ {<<r, "insert">>, <<r, "undo">>} \cap broken = {}
         => r \notin projects

=============================================================================
