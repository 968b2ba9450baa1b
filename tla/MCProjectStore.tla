---------------------------- MODULE MCProjectStore ----------------------------
(***************************************************************************)
(* One project with two files under workspace/ and the requests of two or  *)
(* three clients about it and about what they make of it.                  *)
(***************************************************************************)
EXTENDS ProjectStore

CONSTANTS p1, readme, notes, old, new, welcome

Ask(kind, paths) ==
  [kind |-> kind, project |-> p1, paths |-> paths, content |-> new, snapshot |-> 1]

MCStored == [p \in Given |-> [f \in Paths |-> old]]

\* The project of the first request may be opened while it is being made.
MCMenu ==
  {Ask("put", {notes}), Ask("import", {readme}), Ask("open", {}),
   [Ask("open", {}) EXCEPT !.project = 1],
   Ask("remove", {readme}), Ask("removeAll", Paths),
   Ask("snapshot", {}), Ask("restore", {}), Ask("dropSnapshot", {}),
   Ask("duplicate", {}), Ask("create", {notes}),
   Ask("trash", {}), Ask("untrash", {}), Ask("drop", {})}
=============================================================================
