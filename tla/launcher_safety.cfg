SPECIFICATION Spec
CONSTANTS
    Proc = {p1, p2}
    Version = {1, 2, 3}
    Digest = {d1, d2}
    Tx = {t1}
    MayLose = TRUE
    UserFile = UserFile
    None = None
SYMMETRY Symmetric
INVARIANTS
    LauncherProvable
    LauncherRecorded
    RunsWhatIsActive
    RecoveryNeverRefuses
PROPERTIES
    NothingReplaced
    ImplementsSelector
