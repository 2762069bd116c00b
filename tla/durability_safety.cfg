SPECIFICATION DSpec
CONSTANTS
    Proc = {p1, p2}
    Version = {1, 2, 3}
    Id = {i1}
    Sig = {s1}
    Published <- AllSigned
    Tx = {t1}
    None = None
    UserFile = UserFile
    UserLink = UserLink
    LeftUnsynced = {"pending"}
SYMMETRY Symmetric
INVARIANTS
    SurvivesPowerLoss
    Committed
PROPERTY
    ImplementsDurableSelector
