CONSTANTS
    Absent = Absent
    Stores <- MCStores
    Limits <- MCLimits
    Offsets <- MCOffsets
    MaxInt = 15
    MaxCap = 10
    DefaultPageSize = 2
SPECIFICATION SFairSpec
INVARIANTS
    STypeOK
    PageExact
    OverflowHarmless
    WalkExact
    TruncationTold
PROPERTY WalkEnds
