CONSTANTS
    Procs = {p1}
    Commands = {"update"}
    RegistryFiles <- TwoFiles
    MAL = "MA-L"
    Origins = {o1}
    Untagged = {}
    Blank = {}
    MaxVersion = 1
    MaxTime = 0
    TTL = 0
    Faults = {"body"}
    Torn = Torn
    None = None
SPECIFICATION Spec
PROPERTY CachedRegistriesSurvive
