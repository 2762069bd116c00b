SPECIFICATION Spec
CONSTANTS
    Version = {1, 2}
    Archive = {a1, a2}
    Key = {k1, k2}
    Trusted = {k1}
    Date = {0, 1}
    Skew = 1
    MaxRedirects = 2
    Bounds <- RacesOrExpiry
    None = None
SYMMETRY Symmetric
INVARIANTS
    TypeOK
    OneRelease
    LatestIsFresh
PROPERTIES
    ActivatedWhileValid
    RefusedForCause
