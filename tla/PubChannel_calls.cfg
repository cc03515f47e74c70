CONSTANTS
    p1 = p1
    p2 = p2
    d1 = d1
    d2 = d2
    NoPub = NoPub
    Pub = {p1, p2}
    Ident <- DistinctIdents
    Mandatory = {p1, p2}
    Scenes <- TwoScenes
SPECIFICATION FairSpec
INVARIANTS
    TypeOK SlotAccounting DefiniteMeansUnsent VerdictsTrue ConfirmsFit
PROPERTY NothingHangs
CHECK_DEADLOCK FALSE
