CONSTANTS
    Writers = {w1, w2, w3}
    TempNames = {n1, n2, n3, n4}
    Contents = {d1, d2}
    Stamps = {0}
    MaxLeaks = 2
    Torn = Torn
    None = None
SPECIFICATION WSpec
SYMMETRY MCSymmetry
INVARIANTS
    WTypeOK
    StoreWhole
    OnlyLeaksRemain
PROPERTY Atomic
