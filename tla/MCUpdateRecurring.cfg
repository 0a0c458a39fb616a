CONSTANTS
    Procs = {p1, p2}
    Commands = {"update"}
    RegistryFiles <- TwoFiles
    MAL = "MA-L"
    Origins = {o1}
    Untagged = {}
    Blank = {"MA-S"}
    MaxVersion = 1
    MaxTime = 0
    TTL = 0
    Faults = {}
    Torn = Torn
    None = None
SPECIFICATION FairSpec
PROPERTIES
    CommandsEnd
    Refreshes
