\* Three requests, any of which may run beside the others, and one fault.
CONSTANTS
  p1 = p1  readme = readme  notes = notes  old = old  new = new  welcome = welcome
  None = None
  Given = {p1}
  Paths = {readme, notes}
  Contents = {old, new, welcome}
  Readme = readme
  ReadmeText = welcome
  Stored <- MCStored
  Menu <- MCMenu
  RequestBound = 3
  FaultBound = 1
SPECIFICATION Spec
INVARIANTS RowHasObject AckedKept RestoreBringsBack CopyIsWhole
PROPERTIES SnapshotKept
CHECK_DEADLOCK FALSE
