\* Proposals of two messages, and three messages over a broken network.
CONSTANTS
  f1 = f1  f2 = f2  c1 = c1  c2 = c2
  None = None
  Paths = {f1, f2}
  Contents = {c1, c2}
  Envs <- MCEnvs
SPECIFICATION FairSpec
INVARIANTS OwnTurn DraftsShown
PROPERTIES SendingEnds
CHECK_DEADLOCK FALSE
