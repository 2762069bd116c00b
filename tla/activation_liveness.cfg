SPECIFICATION FairSpec
CONSTANTS
    Proc = {p1, p2}
    Version = {1, 2}
    Id = {i1}
    Sig = {s1}
    Published <- ResignedOnce
    Tx = {t1}
    None = None
    UserFile = UserFile
    UserLink = UserLink
PROPERTY CallsReturn
