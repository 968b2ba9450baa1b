\* One tab with every button, and two tabs about the trash.
CONSTANTS
    own = own  other = other  copy = copy  t1 = t1  t2 = t2
    None = None  Unmade = Unmade  Gone = Gone
    Ids = {own, other, copy}
    Owned = {own, copy}
    Present = {own, other}
    WithPdf = {own}
    Envs <- MCEnvs
SPECIFICATION FairSpec
INVARIANTS ListShown RestoredStays
PROPERTIES PageResponds
CHECK_DEADLOCK FALSE
