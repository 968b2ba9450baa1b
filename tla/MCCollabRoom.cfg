\* Two pages on a file, one page on two files.
CONSTANTS
    p1 = p1  p2 = p2  x1 = x1  x2 = x2
    None = None
    Pages = {p1, p2}
    Paths = {x1, x2}
    Envs <- MCEnvs
SYMMETRY Swap
SPECIFICATION Spec
INVARIANTS KeptAtRest SeededOnce
CHECK_DEADLOCK FALSE
