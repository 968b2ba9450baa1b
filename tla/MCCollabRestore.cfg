\* One page, and a snapshot restored from it.
CONSTANTS
    p1 = p1  p2 = p2  x1 = x1  x2 = x2
    None = None
    Pages = {p1, p2}
    Paths = {x1, x2}
    Envs <- RestoreEnvs
SPECIFICATION Spec
INVARIANTS RestoreLasts
CHECK_DEADLOCK FALSE
