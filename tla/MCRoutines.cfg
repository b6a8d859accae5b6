CONSTANTS
    CHUNK_MIN = 3
    RHO_MIN = 3
    RHO_MAX = 10
    WHEEL_LIMIT = 32
    NMax = 150
    MERSENNE_EXPONENTS = {2, 3, 5, 7}
    BRUTE_SPAN = 10
    BRUTE_MAX = 400
    DETERMINISTIC_LIMIT = 2072
    WITNESSES = 5
    BYTE = 4
    HALF = 2
    WORD = 3
    QUAD = 4
    ID = 2
    COORD = 2
    MAX_PAYLOAD_SIZE = 8
    Wide = Wide
    P = 43
    B = 18
    N = 31
    Gx = 5
    Gy = 10
SPECIFICATION Spec
INVARIANTS
    FullIsPrimeFactorization
    ChunksCoverRoot
    BuildFactorsN
    CriteriaAreExact
    SearchesAreExact
    PayloadsSurvive
    SignedBytesSurvive
    SignaturesAreExact
CHECK_DEADLOCK FALSE
