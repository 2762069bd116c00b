SPECIFICATION Spec
CONSTANTS
    Proc = {p1, p2}
    Version = {1, 2, 3}
    Id = {i1, i2}
    Sig = {s1, s2}
    Published <- ResignedOnce
    Tx = {t1, t2}
    None = None
    UserFile = UserFile
    UserLink = UserLink
SYMMETRY Symmetric
INVARIANTS
    PendingExplainsPointer
    RecoveryNeverRefuses
    NamedVersionsRetained
    OneInstallation
    InstallDescribesPointer
    StagingKept
PROPERTIES
    DirectionKept
    UserCommandKept
    RetainedImmutable
    ImplementsSelector
