CONSTANTS
    Organizations <- MCOrganizations
    WellKnownPrefixes <- MCWellKnown
    None = None
    Catalogs <- MCCatalogs
    Inputs <- FewInputs
    MaxInputs = 1
SPECIFICATION LSpec
INVARIANT NamelessExplained
