SPECIFICATION Spec
CONSTANTS
    Proc = {p1, p2}
    Version = {1, 2, 3}
    Id = {i1}
    Sig = {s1}
    Published <- ResignedOnce
    Tx = {t1, t2}
    None = None
    UserFile = UserFile
    UserLink = UserLink
SYMMETRY Symmetric
PROPERTY RollbackGoesToPrevious
