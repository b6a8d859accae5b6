CONSTANTS
    Requests = {r1, r2, r3, r4}
    Handles = {h1, h2}
    Codes = {c1, c2}
    SeedCodes = {c1}
    System = system
    None = None
    MaxInFlight = 3
SPECIFICATION Spec
INVARIANTS
    TypeOK
    RedeemerJoined
    DuplicatesBoundedByOverlap
SYMMETRY Symmetry
CHECK_DEADLOCK FALSE
