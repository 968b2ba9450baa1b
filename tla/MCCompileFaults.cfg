\* Two jobs of one project, one worker more than needed to overlap them, every
\* service failing at will, one stop and one edit.
CONSTANTS
  j1 = j1  j2 = j2  w1 = w1  w2 = w2  p1 = p1
  f1 = f1  f2 = f2  c1 = c1  c2 = c2  quick = quick
  None = None
  Jobs = {j1, j2}
  Workers = {w1, w2}
  Projects = {p1}
  Paths = {f1}
  Contents = {c1, c2}
  Options = {quick}
  ProjectOf <- MCProjectOf
  OptionsOf <- MCOptionsOf
  PathBytes <- MCPathBytes
  ContentBytes <- MCContentBytes
  PdfOf <- MCNoSiblingPdf
  DefaultMain = f1
  MainPaths = {f1}
  InitialFiles <- MCFiles
  QueueCap = 1
  Faults = {"db", "store", "redis", "host", "rows"}
  EditBound = 1
  StopBound = 1
SYMMETRY WorkerSymmetry
SPECIFICATION Spec
INVARIANTS TypeOK HeldOnce SuccessHasPdf CacheSound
PROPERTIES EndIsFinal ClientSpec
CHECK_DEADLOCK FALSE
