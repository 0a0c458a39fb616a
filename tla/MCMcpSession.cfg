CONSTANTS
    Servers = {s1}
    Writers = {s1, w1}
    TempNames = {n1, n2}
    Contents = {d1, d2, d3}
    MaxClock = 2
    MaxLeaks = 0
    Coarse = FALSE
    Tampering = TRUE
    Torn = Torn
    None = None
    d1 = d1
    i1 = i1
    i2 = i2
    Messages <- MCMessages
    MaxMessages = 3
    Garbage = Garbage
SPECIFICATION MCSpec
INVARIANTS
    STypeOK
    RepliesMatch
    RejectedTouchesNothing
    SessionMonotonic
PROPERTY
    RequestsEnd
