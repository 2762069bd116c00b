SPECIFICATION DSpec
CONSTANTS
    Proc = {p1}
    Version = {1}
    Id = {i1}
    Sig = {s1}
    Published <- AllSigned
    Tx = {t1}
    None = None
    UserFile = UserFile
    UserLink = UserLink
    LeftUnsynced = {"pending", "pointer"}
INVARIANT RecoveryNeverRefuses
