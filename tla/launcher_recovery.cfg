SPECIFICATION Spec
CONSTANTS
    Proc = {p1}
    Version = {1, 2}
    Digest = {d1, d2}
    Tx = {t1}
    MayLose = FALSE
    UserFile = UserFile
    None = None
SYMMETRY Symmetric
INVARIANT
    RecoverySucceeds
