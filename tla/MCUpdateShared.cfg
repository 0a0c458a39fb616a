CONSTANTS
    Procs = {p1, p2}
    Commands = {"update", "lookup"}
    RegistryFiles <- TwoFiles
    MAL = "MA-L"
    Origins = {o1}
    Untagged = {}
    Blank = {}
    MaxVersion = 1
    MaxTime = 0
    TTL = 0
    Faults = {"fetch", "body", "bad304", "write", "crash", "remove", "damage"}
    Torn = Torn
    None = None
SPECIFICATION Spec
SYMMETRY MCSymmetry
INVARIANTS
    StoreCoherent
    RequiredPresent
    ResultTold
    PanicOnlyUncached
