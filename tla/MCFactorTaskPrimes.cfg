CONSTANTS
    N = 125
    Peers = {}
    Self = self
    REDUNDANCY_FACTOR = 3
    MAX_WORKERS = 4
    MaxDuplicates = 0
    Inventions = {}
    MaxLies = 0
    CHUNK_MIN = 1000
    RHO_MIN = 3
    RHO_MAX = 10
    WHEEL_LIMIT = 100000
SPECIFICATION Spec
INVARIANT ReturnsPrimeFactors
CHECK_DEADLOCK FALSE
