CONSTANTS
    Procs = {p1}
    Commands = {"update"}
    RegistryFiles <- TwoFiles
    MAL = "MA-L"
    Origins = {o1}
    Untagged = {}
    Blank = {"MA-S"}
    MaxVersion = 1
    MaxTime = 0
    TTL = 0
    Faults = {"bad304"}
    Torn = Torn
    None = None
SPECIFICATION Spec
INVARIANT NoPanic
