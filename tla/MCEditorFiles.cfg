SPECIFICATION Spec
CONSTANTS
    Order <- MCOrder
    Tex <- MCTex
    Bib <- MCBib
    Binary <- MCBinary
    Allowed <- MCAllowed
    Keep <- K
    Default <- M
    InitMain <- A
    Archive <- MCArchive
    None = None
    Envs <- MCEnvs
INVARIANTS
    NothingMixed
    SavedAtRest
    OperationKeepsText
    MainNamed
CHECK_DEADLOCK FALSE
