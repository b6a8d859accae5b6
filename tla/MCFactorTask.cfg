CONSTANTS
    N = 8
    Peers = {p1}
    Self = self
    REDUNDANCY_FACTOR = 1
    MAX_WORKERS = 2
    MaxDuplicates = 1
    Inventions <- MCFalseReports
    MaxLies = 1
    CHUNK_MIN = 1000
    RHO_MIN = 1
    RHO_MAX = 1
    WHEEL_LIMIT = 100000
SPECIFICATION Spec
INVARIANTS
    TypeOK
    EventImpliesAnswer
    AnswersMultiplyToN
PROPERTIES
    OwnAnswersCostNothing
    BannedForGood
    ReturnIsFinal
CHECK_DEADLOCK FALSE
