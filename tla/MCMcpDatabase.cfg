CONSTANTS
    Servers = {s1}
    Writers = {s1, w1}
    TempNames = {n1, n2, n3}
    Contents = {d1, d2}
    MaxClock = 3
    MaxLeaks = 1
    Coarse = FALSE
    Tampering = TRUE
    Torn = Torn
    None = None
SPECIFICATION MSpec
SYMMETRY MCSymmetry
INVARIANTS
    MTypeOK
    AnswerWasOnDisk
    CacheCoherent
