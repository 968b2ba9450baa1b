\* One page that compiles twice, either with failing requests and its 120 s, or
\* with all the time it takes, nothing lost, and a project that may be deleted.
CONSTANTS
  t1 = t1  t2 = t2  j1 = j1  j2 = j2
  Project = p  None = None
  Pages = {t1}
  Jobs = {j1, j2}
  BufferCap = 2
  Faults = {"net"}
  Envs <- LossyOrPatient
SPECIFICATION FairSpec
PROPERTIES PageReleased PdfArrives
CHECK_DEADLOCK FALSE
