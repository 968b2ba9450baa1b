\* Two jobs on a channel of one, two files, the second where LaTeX puts the PDF of
\* the first, and either of them the main file: cached answers against edits, a
\* burst, and progress while Redis and the object store fail and listings of files
\* break off.
CONSTANTS
  j1 = j1  j2 = j2  w1 = w1  w2 = w2  p1 = p1
  f1 = f1  f2 = f2  c1 = c1  c2 = c2  quick = quick
  None = None
  Jobs = {j1, j2}
  Workers = {w1}
  Projects = {p1}
  Paths = {f1, f2}
  Contents = {c1, c2}
  Options = {quick}
  ProjectOf <- MCProjectOf
  OptionsOf <- MCOptionsOf
  PathBytes <- MCPathBytes
  ContentBytes <- MCContentBytes
  PdfOf <- MCSiblingPdf
  DefaultMain = f1
  MainPaths = {f1, f2}
  InitialFiles <- MCFiles
  QueueCap = 1
  Faults = {"store", "redis", "rows"}
  EditBound = 2
  StopBound = 0
SPECIFICATION FairSpec
INVARIANTS FreshPdf AnnouncedAfterEnd
PROPERTIES EveryJobEnds ClientFairSpec
CHECK_DEADLOCK FALSE
