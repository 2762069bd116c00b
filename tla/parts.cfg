SPECIFICATION PartsSpec
CONSTANTS
    Records <- ArchiveRecords
    MaxRecords = 4
    MaxMember = 2
    MaxContents = 3
    MaxStream = 8
    PayloadSize = 2
    LauncherSize = 1
    MaxTape = 5
    None = None
    Empty = Empty
    Dir = {d1, d2}
    MaxMeddled = 5
    Worker = {w1, w2}
    Target = {t1, t2}
    Build = {b1, b2, b3}
    Usable = {b1, b2}
    Key = {k1, k2}
    Sizes <- ToolSizes
    Mixed = Mixed
    Torn = Torn
    Missing = Missing
    Maker = {m1, m2}
    Place = {p1, p2, p3}
    Somebody = Somebody
    Nothing = Nothing
    Thread = {h1, h2}
    MaxTries = 2
    MaxCounter = 2
    MaxKills = 1
    Absent = Absent
    Starter = {s1, s2, s3}
    Else = Else
    NoDir = NoDir
    MaxWord = 5
    MaxBody = 7
    MaxChunk = 2
    Unknown = Unknown
INVARIANTS
    PartsTypeOK
    JudgedAsWhole
    AllOrNothing
    ReportsTrue
    KeysPaired
    NamesApart
    AdmittedIsPrivate
    TakenToCeiling
PROPERTIES
    FilesKept
\* An archive is read to its end, and a run of keygen returns.
CHECK_DEADLOCK FALSE
