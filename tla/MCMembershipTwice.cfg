CONSTANTS
    Requests = {r1, r2}
    Handles = {h1, h2}
    Codes = {c1, c2}
    SeedCodes = {c1}
    System = system
    None = None
    MaxInFlight = 2
SPECIFICATION Spec
INVARIANT CodeRedeemedOnce
CHECK_DEADLOCK FALSE
