CONSTANTS
    N = 125
    Peers = {p1}
    Self = self
    REDUNDANCY_FACTOR = 1
    MAX_WORKERS = 2
    MaxDuplicates = 0
    Inventions = {}
    MaxLies = 0
    CHUNK_MIN = 1000
    RHO_MIN = 1
    RHO_MAX = 1
    WHEEL_LIMIT = 100000
SPECIFICATION Spec
PROPERTIES
    CallReturns
    ImplementsService
CHECK_DEADLOCK FALSE
