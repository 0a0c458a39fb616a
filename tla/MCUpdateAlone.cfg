CONSTANTS
    Procs = {p1}
    Commands = {"update", "lookup", "read"}
    RegistryFiles <- ThreeFiles
    MAL = "MA-L"
    Origins = {o1, o2}
    Untagged = {"CID"}
    Blank = {"MA-S"}
    MaxVersion = 1
    MaxTime = 1
    TTL = 0
    Faults = {"fetch", "write", "crash"}
    Torn = Torn
    None = None
SPECIFICATION Spec
SYMMETRY MCSymmetry
INVARIANTS
    TypeOK
    StoreCoherent
    ResultTold
    AnswerWithinTTL
PROPERTIES
    CachedRegistriesSurvive
    OnlyAbsenceIsFatal
