\* Failing services, a burst, and a panel.
CONSTANTS
  j1 = j1  j2 = j2  w1 = w1  w2 = w2  f1 = f1  f2 = f2  c1 = c1  c2 = c2
  None = None
  Jobs = {j1, j2}
  Workers = {w1, w2}
  Paths = {f1, f2}
  Contents = {c1, c2}
  QueueCap = 1
  GetBound = 2
  Envs <- MCEnvs
SPECIFICATION PanelFairSpec
INVARIANTS NothingForgotten SuccessWrites OneJobAtATime
PROPERTIES EndIsFinal CancelEnds PanelFollows
CHECK_DEADLOCK FALSE
