CONSTANTS
    Organizations <- MCOrganizations
    WellKnownPrefixes <- MCWellKnown
    None = None
    Catalogs <- MCCatalogs
    Inputs <- MCInputs
    MaxInputs = 2
SPECIFICATION LSpec
INVARIANTS
    LTypeOK
    MostSpecific
    RightRegistry
    MorePrecise
    ExitTells
    NotesTrue
