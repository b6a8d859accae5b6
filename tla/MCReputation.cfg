CONSTANTS
    Senders = {p}
    Keys = {k1, k2}
    NoKey = NoKey
    Window = 3
    MaxCount = 2
    MaxTime = 8
SPECIFICATION Spec
INVARIANTS
    TypeOK
    LimiterIsExact
    BlacklistMatchesScore
PROPERTY FirstKeyStays
CHECK_DEADLOCK FALSE
