\* Two jobs from one or two pages, requests and sockets failing at will, channels
\* of one message.
CONSTANTS
  t1 = t1  t2 = t2  j1 = j1  j2 = j2
  Project = p  None = None
  Pages = {t1, t2}
  Jobs = {j1, j2}
  BufferCap = 1
  Faults = {"net"}
  Envs <- LossyOnly
SYMMETRY PageSymmetry
SPECIFICATION Spec
INVARIANTS NoticeKept OneCompile FinalizedAfterEnd
CHECK_DEADLOCK FALSE
