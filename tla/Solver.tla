------------------------------- MODULE Solver -------------------------------
(***************************************************************************)
(* The searches behind the other job categories (gradatim/_solver.py), as  *)
(* pure operators.                                                         *)
(***************************************************************************)
EXTENDS Integers, FiniteSets, Sequences, SequencesExt, FiniteSetsExt

CONSTANTS
    MERSENNE_EXPONENTS,  \* 2, 3, 5, 7, 13, 17, 19, 31 in the code
    BRUTE_SPAN,          \* widest range that is searched: 100000 in the code
    BRUTE_MAX,           \* largest end of such a range: 10000000 in the code
    DETERMINISTIC_LIMIT, \* the fixed witnesses serve below: 3.3 * 10^24 in the code
    WITNESSES            \* witnesses drawn at random from there on: 64 in the code

ASSUME SolverAssumption ==
    /\ MERSENNE_EXPONENTS \subseteq Nat \ {0, 1} /\ IsFiniteSet(MERSENNE_EXPONENTS)
    /\ BRUTE_SPAN \in Nat /\ BRUTE_MAX \in Nat
    /\ DETERMINISTIC_LIMIT \in Nat /\ WITNESSES \in Nat \ {0}

\* pow(a, e, n)
PowMod(a, e, n) ==
    LET power[k \in Nat] ==
            IF k = 0 THEN 1
            ELSE IF k % 2 = 1 THEN (a * power[k - 1]) % n
            ELSE LET half == power[k \div 2] IN (half * half) % n
    IN  power[e]

OddPart[m \in Nat \ {0}] == IF m % 2 = 1 THEN m ELSE OddPart[m \div 2]

\* _miller_rabin_witness: n passes for a when a^d is 1, d the odd part of
\* n - 1, or when one of a^d, a^2d, a^4d, ... below a^(n-1) is n - 1.
MillerRabinWitness(n, a) ==
    LET d == OddPart[n - 1]
        meetsMinusOne[e \in Nat \ {0}] ==
            e < n - 1 /\ (PowMod(a, e, n) = n - 1 \/ meetsMinusOne[2 * e])
    IN  PowMod(a, d, n) = 1 \/ meetsMinusOne[d]

\* _is_probably_prime: twenty random witnesses, taken here as all of them; a
\* composite slips past twenty with a chance below 4^-20.
IsProbablyPrime(n) ==
    IF n < 4 THEN n >= 2
    ELSE n % 2 = 1 /\ \A a \in 2..(n - 2) : MillerRabinWitness(n, a)

-----------------------------------------------------------------------------
DETERMINISTIC_WITNESSES == <<2, 3, 5, 7, 11, 13, 17, 19, 23, 29, 31, 37>>

\* Distinct witnesses are drawn until one fails or WITNESSES of them passed,
\* whichever draws come: the verdicts that can come of it.
RandomVerdicts(n) ==
    LET passing == {a \in 2..(n - 2) : MillerRabinWitness(n, a)}
    IN  {r \in ({TRUE} \X {WITNESSES}) \cup ({FALSE} \X (1..WITNESSES)) :
            IF r[1] THEN Cardinality(passing) >= WITNESSES
            ELSE passing # 2..(n - 2) /\ r[2] <= Cardinality(passing) + 1}

FixedVerdict(n) ==
    LET used    == {i \in DOMAIN DETERMINISTIC_WITNESSES : DETERMINISTIC_WITNESSES[i] < n}
        failing == {i \in used : ~MillerRabinWitness(n, DETERMINISTIC_WITNESSES[i])}
    IN  IF failing = {} THEN <<TRUE, Cardinality(used)>> ELSE <<FALSE, Min(failing)>>

\* Mutant of PrimalityTest: one witness decides.
PrimalityTestOneWitness(n) ==
    IF n < 2 THEN {<<FALSE, 0>>}
    ELSE IF n < 4 THEN {<<TRUE, 1>>}
    ELSE IF n % 2 = 0 THEN {<<FALSE, 1>>}
    ELSE {<<MillerRabinWitness(n, 2), 1>>}

\* primality_test: the verdicts there can be, each with how many witnesses it took.
PrimalityTest(n) ==
    IF n < 2 THEN {<<FALSE, 0>>}
    ELSE IF n < 4 THEN {<<TRUE, 1>>}
    ELSE IF n % 2 = 0 THEN {<<FALSE, 1>>}
    ELSE IF n < DETERMINISTIC_LIMIT THEN {FixedVerdict(n)}
    ELSE RandomVerdicts(n)

-----------------------------------------------------------------------------
Raises == <<>>

\* Mutant of GoldbachDecomposition: the half itself is not tried.
GoldbachBelowHalf(n) ==
    LET candidates == {p \in 3..(n \div 2 - 1) :
                          p % 2 = 1 /\ IsProbablyPrime(p) /\ IsProbablyPrime(n - p)}
    IN  IF n < 4 \/ n % 2 # 0 THEN Raises
        ELSE IF n = 4 THEN <<2, 2>>
        ELSE IF candidates = {} THEN Raises
        ELSE <<Min(candidates), n - Min(candidates)>>

\* goldbach_decomposition: the smallest odd prime whose complement is prime.
GoldbachDecomposition(n) ==
    LET candidates == {p \in 3..(n \div 2) :
                          p % 2 = 1 /\ IsProbablyPrime(p) /\ IsProbablyPrime(n - p)}
    IN  IF n < 4 \/ n % 2 # 0 THEN Raises
        ELSE IF n = 4 THEN <<2, 2>>
        ELSE IF candidates = {} THEN Raises
        ELSE <<Min(candidates), n - Min(candidates)>>

-----------------------------------------------------------------------------
CollatzStep(n) == IF n % 2 = 0 THEN n \div 2 ELSE 3 * n + 1

\* collatz_sequence: steps taken, highest number met, and whether 1 was
\* reached before maxSteps ran out; the loop has ended when 1 is reached.
CollatzSequence(start, maxSteps) ==
    LET loop[k \in Nat] ==
            IF k = 0 THEN [n |-> start, length |-> 0, top |-> start]
            ELSE LET last == loop[k - 1]
                     next == CollatzStep(last.n)
                 IN  IF last.n = 1 THEN last
                     ELSE [n |-> next, length |-> last.length + 1, top |-> Max({last.top, next})]
        end == loop[maxSteps]
    IN  IF start < 1 THEN Raises ELSE <<end.length, end.top, end.n = 1>>

-----------------------------------------------------------------------------
\* _sum_proper_divisors: divisors up to the square root, each with its
\* complement unless they are the same.
SumProperDivisors(n) ==
    IF n <= 1 THEN 0
    ELSE LET small == {i \in 2..n : i * i <= n /\ n % i = 0}
         IN  1 + SumSet(small) + SumSet({n \div i : i \in small} \ small)

\* The perfect numbers the list of exponents yields.
MersennePerfect ==
    {2 ^ (p - 1) * (2 ^ p - 1) : p \in {e \in MERSENNE_EXPONENTS : IsProbablyPrime(2 ^ e - 1)}}

\* find_perfect_numbers: those known from the exponents, and for a small
\* range the others that a search finds, sorted.
FindPerfectNumbers(lo, hi) ==
    LET known    == {m \in MersennePerfect : lo <= m /\ m <= hi}
        searched == IF hi - lo < BRUTE_SPAN /\ hi <= BRUTE_MAX
                    THEN {m \in Max({lo, 2})..hi \ known : SumProperDivisors(m) = m}
                    ELSE {}
    IN  SortSeq(SetToSeq(known) \o SetToSeq(searched), <)
=============================================================================
