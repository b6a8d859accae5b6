---------------------------- MODULE RoutineProofs ----------------------------
(***************************************************************************)
(* What the routines promise for every n, every smallest chunk, every      *)
(* limit of the wheel and every width of a field: MCRoutines tries the     *)
(* first few.                                                              *)
(***************************************************************************)
EXTENDS MCRoutines, FactoringProofs

-----------------------------------------------------------------------------
(* The integer square root.                                                *)

LEMMA SquaresGrow ==
    ASSUME NEW a \in Nat, NEW b \in Nat, a <= b
    PROVE  a * a <= b * b
<1>1. a * a <= a * b
    OBVIOUS
<1>2. a * b <= b * b
    OBVIOUS
<1> QED BY <1>1, <1>2

\* math.isqrt by its defining property.
LEMMA ISqrtIsRoot ==
    ASSUME NEW m \in Nat
    PROVE  /\ ISqrt(m) \in Nat
           /\ ISqrt(m) * ISqrt(m) <= m
           /\ m < (ISqrt(m) + 1) * (ISqrt(m) + 1)
<1> DEFINE T == {k \in Nat : k * k > m}
<1>1. (m + 1) * (m + 1) > m
    OBVIOUS
<1>2. m + 1 \in T
    BY <1>1
<1>3. PICK k \in T : \A y \in T : k <= y
    BY <1>2, LeastIsThere
<1>4. k \in Nat /\ k * k > m
    BY <1>3
<1>5. k # 0
    BY <1>4
<1>6. PICK q \in Nat : q = k - 1
    BY <1>4, <1>5
<1>7. q * q <= m /\ k = q + 1
    <2>1. q \notin T
        BY <1>3, <1>4, <1>6
    <2> QED BY <1>4, <1>6, <2>1
<1>8. {r \in 1..m : r * r <= m} = 1..q
    <2>1. ASSUME NEW r \in 1..m, r * r <= m PROVE r \in 1..q
        <3>1. CASE r >= k
            <4>1. k * k <= r * r
                BY <1>4, <3>1, SquaresGrow
            <4> QED BY <1>4, <2>1, <4>1
        <3>2. CASE ~(r >= k)
            BY <1>7, <3>2
        <3> QED BY <3>1, <3>2
    <2>2. ASSUME NEW r \in 1..q PROVE r \in 1..m /\ r * r <= m
        <3>1. r * r <= q * q
            BY SquaresGrow
        <3>2. r <= r * r
            OBVIOUS
        <3>3. r * r \in Nat /\ q * q \in Nat
            OBVIOUS
        <3> QED BY <1>7, <3>1, <3>2, <3>3
    <2> QED BY <2>1, <2>2
<1>9. Cardinality(1..q) = q
    BY FS_Interval
<1> QED BY <1>4, <1>7, <1>8, <1>9 DEF ISqrt

-----------------------------------------------------------------------------
(* Trial division in chunks.                                               *)

LEMMA ChunkSizeType ==
    ASSUME NEW m \in Nat
    PROVE  ChunkSize(m) \in Nat \ {0}
<1>1. ISqrt(m) \div 10 \in Nat
    BY ISqrtIsRoot
<1> QED BY <1>1, FactoringAssumption DEF ChunkSize, Larger

\* The division the number of chunks is counted with.
LEMMA DivisionBounds ==
    ASSUME NEW a \in Nat, NEW b \in Nat \ {0}
    PROVE  /\ a \div b \in Nat
           /\ (a \div b) * b <= a
           /\ a < (a \div b + 1) * b
<1>1. a = (a \div b) * b + (a % b) /\ a % b \in 0..(b - 1)
    OBVIOUS
<1> QED BY <1>1

\* A number divides by its divisors up to the root, and these are all below it.
LEMMA DivisorsToRoot ==
    ASSUME NEW m \in Nat, m >= 2, NEW q \in Nat, q * q <= m, m < (q + 1) * (q + 1)
    PROVE  {d \in Divisors(m) : d * d <= m} = {d \in 2..q : m % d = 0}
<1>1. ASSUME NEW d \in 2..m, d * d <= m PROVE d <= q
    <2>1. CASE d >= q + 1
        <3>1. (q + 1) * (q + 1) <= d * d
            BY <2>1, SquaresGrow
        <3> QED BY <1>1, <3>1
    <2> QED BY <2>1
<1>2. ASSUME NEW d \in 2..q PROVE d \in 2..m /\ d * d <= m
    <2>1. d * d <= q * q
        BY SquaresGrow
    <2>2. d <= d * d /\ d * d \in Nat /\ q * q \in Nat
        OBVIOUS
    <2> QED BY <2>1, <2>2
<1> QED BY <1>1, <1>2 DEF Divisors

\* The bounds of chunk k of size s below the root q.
From(k, s) == 2 + (k - 1) * s
To(k, s, q) == Smaller(From(k, s) + s, q + 1)

\* Chunk k starts where chunk k - 1 ended, and the last one ends at the root.
LEMMA ChunkBounds ==
    ASSUME NEW q \in Nat \ {0}, NEW s \in Nat \ {0}, NEW count \in Nat,
           count = (q + s - 2) \div s
    PROVE  /\ \A d \in 2..q : \E k \in 1..count : d \in From(k, s)..(To(k, s, q) - 1)
           /\ \A k \in 1..count : From(k, s)..(To(k, s, q) - 1) \subseteq 2..q
<1> USE DEF From, To
<1> DEFINE from(k) == From(k, s)
           chunk(k) == from(k)..(To(k, s, q) - 1)
<1>1. ASSUME NEW d \in 2..q PROVE \E k \in 1..count : d \in chunk(k)
    <2>1. d - 2 \in Nat /\ q + s - 2 \in Nat
        OBVIOUS
    <2>2. PICK j \in Nat : j * s <= d - 2 /\ d - 2 < (j + 1) * s
        BY <2>1, DivisionBounds
    <2>3. q + s - 2 < (count + 1) * s
        BY <2>1, DivisionBounds
    <2>4. j < count
        <3>1. j * s + s < (count + 1) * s
            BY <2>2, <2>3
        <3>2. (j + 1) * s < (count + 1) * s
            BY <3>1
        <3>3. CASE j >= count
            <4>1. (count + 1) * s <= (j + 1) * s
                BY <3>3
            <4> QED BY <3>2, <4>1
        <3> QED BY <3>3
    <2>5. j + 1 \in 1..count /\ from(j + 1) = 2 + j * s
        BY <2>4
    <2>6. (j + 1) * s = j * s + s /\ j * s \in Nat
        OBVIOUS
    <2>7. d < 2 + j * s + s
        BY <2>2, <2>6
    <2>8. d \in chunk(j + 1)
        BY <2>2, <2>5, <2>6, <2>7 DEF Smaller
    <2> QED BY <2>5, <2>8
<1>2. ASSUME NEW k \in 1..count, NEW d \in chunk(k) PROVE d \in 2..q
    <2>1. (k - 1) * s \in Nat
        OBVIOUS
    <2>2. from(k) \in Nat /\ from(k) >= 2
        BY <2>1
    <2> QED BY <2>2 DEF Smaller
<1> QED BY <1>1, <1>2

Natural == n \in Nat

LEMMA AlwaysNatural == Spec => []Natural
<1>1. Init => Natural
    BY DEF Init, Natural
<1>2. Natural /\ [Next]_n => Natural'
    BY DEF Next, Natural
<1> QED BY <1>1, <1>2, PTL DEF Spec

\* agent.py:620-631: for every n, every smallest chunk, the chunks together
\* try each number from 2 to the root of n, and none above it.
THEOREM ChunksCoverEveryRoot == Spec => []ChunksCoverRoot
<1>1. Natural => ChunksCoverRoot
    <2> SUFFICES ASSUME n \in Nat PROVE ChunksCoverRoot
        BY DEF Natural
    <2> DEFINE q == ISqrt(n)
               s == ChunkSize(n)
               count == (q + s - 2) \div s
               from(k) == From(k, s)
               to(k) == To(k, s, q)
    <2>1. q \in Nat /\ q * q <= n /\ n < (q + 1) * (q + 1)
        BY ISqrtIsRoot
    <2>2. s \in Nat \ {0}
        BY ChunkSizeType
    <2> HIDE DEF q, s
    <2>3. CASE n < 2
        <3>1. Divisors(n) = {}
            BY <2>3 DEF Divisors
        <3> QED BY <2>3, <3>1 DEF ChunksCoverRoot, TrialDivision
    <2>4. CASE n >= 2
        <3>1. q # 0
            BY <2>1, <2>4
        <3>2. q + s - 2 \in Nat
            BY <2>1, <2>2, <3>1
        <3>3. count \in Nat
            BY <2>2, <3>2, DivisionBounds
        <3>4. Larger(count, 0) = count
            BY <3>3 DEF Larger
        <3>5. ToSet(TrialChunks(n)) =
                  {[algorithm |-> "trial_division", start |-> from(k), end |-> to(k)] : k \in 1..count}
            <4> HIDE DEF count
            <4> QED BY <3>4 DEF TrialChunks, ToSet, From, To, q, s, count
        <3>6. ASSUME NEW k \in 1..count
              PROVE  TrialDivision(n, from(k), to(k)) = {d \in from(k)..(to(k) - 1) : n % d = 0}
            <4>1. (k - 1) * s \in Nat
                BY <2>2, <3>3
            <4>2. Larger(from(k), 2) = from(k)
                BY <4>1 DEF Larger, From
            <4>3. to(k) \in Int /\ to(k) <= q + 1
                BY <2>1, <2>2, <4>1 DEF Smaller, From, To
            <4>4. Smaller(to(k), q + 2) = to(k)
                BY <2>1, <4>3 DEF Smaller
            <4> QED BY <2>4, <4>2, <4>4 DEF TrialDivision, q
        <3>7. /\ \A d \in 2..q : \E k \in 1..count : d \in from(k)..(to(k) - 1)
              /\ \A k \in 1..count : from(k)..(to(k) - 1) \subseteq 2..q
            <4>1. count = (q + s - 2) \div s /\ q \in Nat \ {0}
                BY <2>1, <3>1
            <4> HIDE DEF count
            <4> QED BY <2>2, <3>3, <4>1, ChunkBounds
        <3> HIDE DEF from, to, count
        <3> DEFINE chunk(k) == [algorithm |-> "trial_division", start |-> from(k), end |-> to(k)]
                   tried(c) == TrialDivision(n, c.start, c.end)
        <3>8. \A k \in 1..count : /\ chunk(k) \in ToSet(TrialChunks(n))
                                  /\ tried(chunk(k)) = TrialDivision(n, from(k), to(k))
            BY <3>5
        <3>9. \A c \in ToSet(TrialChunks(n)) : \E k \in 1..count : c = chunk(k)
            BY <3>5
        <3> HIDE DEF chunk, tried
        <3>10. UNION {tried(c) : c \in ToSet(TrialChunks(n))} = {d \in 2..q : n % d = 0}
            <4>1. ASSUME NEW c \in ToSet(TrialChunks(n)), NEW d \in tried(c)
                  PROVE  d \in 2..q /\ n % d = 0
                BY <3>6, <3>7, <3>8, <3>9, <4>1
            <4>2. ASSUME NEW d \in 2..q, n % d = 0
                  PROVE  \E c \in ToSet(TrialChunks(n)) : d \in tried(c)
                BY <3>6, <3>7, <3>8, <4>2
            <4> QED BY <4>1, <4>2
        <3> QED BY <2>1, <2>4, <3>10, DivisorsToRoot DEF ChunksCoverRoot, tried
    <2> QED BY <2>3, <2>4
<1> QED BY <1>1, AlwaysNatural, PTL

-----------------------------------------------------------------------------
(* The two ways to an answer.                                              *)

LEMMA RoughsAreRough ==
    ASSUME NEW f \in Roughs
    PROVE  Rough(f) /\ (f < WHEEL_LIMIT * WHEEL_LIMIT => Prime(f))
<1>1. Rough(f)
    BY DEF Roughs, Rough
<1>2. f < WHEEL_LIMIT * WHEEL_LIMIT => Prime(f)
    BY FactoringAssumption, RoughsArePrime DEF Primes
<1> QED BY <1>1, <1>2

\* A factor of m divides it and does not exceed it.
LEMMA FactorsOfAnswer ==
    ASSUME NEW m \in Positive, NEW s \in Seq(Factors), Product[s] = m, NEW f \in ToSet(s)
    PROVE  f \in Factors /\ m % f = 0 /\ f <= m
<1>1. PICK i \in DOMAIN s : f = s[i]
    BY DEF ToSet
<1>2. f \in Factors /\ m % f = 0
    BY <1>1, MembersDivide
<1>3. f \in Divisors(m)
    BY <1>2, DivisorsAreDivisors DEF Factors
<1> QED BY <1>2, <1>3 DEF Divisors

\* factorization.py:133-180: for every n and every limit of the wheel,
\* full_factorization returns the factors of n in ascending order, none of
\* them with a divisor in reach of the wheel: the primes, for n below the
\* square of the limit.
THEOREM FullFactorizationIsRight == Spec => []FullIsPrimeFactorization
<1>1. Natural => FullIsPrimeFactorization
    <2> SUFFICES ASSUME Natural, NEW m \in {n, 41 * n}, m >= 2
                 PROVE  /\ FullFactorization(m) # {}
                        /\ \A s \in FullFactorization(m) :
                               /\ Product[s] = m /\ Ascending(s) /\ VerifyFactors(m, ToSet(s))
                               /\ \A f \in ToSet(s) :
                                      Rough(f) /\ (m < WHEEL_LIMIT * WHEEL_LIMIT => Prime(f))
        BY DEF FullIsPrimeFactorization
    <2>1. m \in Factors /\ m \in Positive /\ m \in Nat
        BY DEF Natural, Factors, Positive
    <2>2. FullFactorization(m) # {}
        BY <2>1, FactoringAssumption, FullFactorizationProperties
    <2> SUFFICES ASSUME NEW s \in FullFactorization(m)
                 PROVE  /\ Product[s] = m /\ Ascending(s) /\ VerifyFactors(m, ToSet(s))
                        /\ \A f \in ToSet(s) :
                               Rough(f) /\ (m < WHEEL_LIMIT * WHEEL_LIMIT => Prime(f))
        BY <2>2
    <2>3. s \in Seq(Roughs) /\ Product[s] = m /\ Ascending(s)
        BY <2>1, FactoringAssumption, FullFactorizationProperties
    <2>4. s \in Seq(Factors)
        <3>1. Roughs \subseteq Factors
            BY DEF Roughs
        <3> QED BY <2>3, <3>1, SeqMonotonic
    <2>5. ASSUME NEW f \in ToSet(s)
          PROVE  /\ f >= 2 /\ m % f = 0
                 /\ Rough(f) /\ (m < WHEEL_LIMIT * WHEEL_LIMIT => Prime(f))
        <3>1. f \in Factors /\ m % f = 0 /\ f <= m
            BY <2>1, <2>3, <2>4, FactorsOfAnswer
        <3>2. f \in Roughs
            BY <2>3 DEF ToSet
        <3>3. Rough(f) /\ (f < WHEEL_LIMIT * WHEEL_LIMIT => Prime(f))
            BY <3>2, RoughsAreRough
        <3>4. f \in Nat /\ f >= 2 /\ WHEEL_LIMIT * WHEEL_LIMIT \in Nat
            BY <3>1, FactoringAssumption DEF Factors
        <3> QED BY <2>1, <3>1, <3>3, <3>4
    <2> QED BY <2>3, <2>5 DEF VerifyFactors
<1> QED BY <1>1, AlwaysNatural, PTL

\* agent.py:680-713: for every n and every set of divisors that has been
\* reported, the answer multiplies to n; and it is a prime factorization as
\* soon as the set holds the prime divisors of its members.
THEOREM BuildIsRight == Spec => []BuildFactorsN
<1>1. Natural => BuildFactorsN
    <2> SUFFICES ASSUME Natural, NEW S \in SUBSET Divisors(n), n >= 2
                 PROVE  /\ BuildComplete(n, S) # {}
                        /\ \A s \in BuildComplete(n, S) :
                               /\ Product[s] = n /\ Ascending(s)
                               /\ (/\ \A f \in S : \A p \in Divisors(f) : Prime(p) => p \in S
                                   /\ n < WHEEL_LIMIT * WHEEL_LIMIT)
                                      => \A f \in ToSet(s) : Prime(f)
        BY DEF BuildFactorsN
    <2>1. n \in Positive /\ n \in Nat
        BY DEF Natural, Positive
    <2>2. S \in SUBSET Factors /\ IsFiniteSet(S)
        <3>1. Divisors(n) \subseteq Factors
            BY <2>1 DEF Divisors, Factors
        <3>2. IsFiniteSet(2..n)
            BY <2>1, FS_Interval
        <3>3. S \subseteq 2..n
            BY DEF Divisors
        <3> QED BY <3>1, <3>2, <3>3, FS_Subset
    <2>3. BuildComplete(n, S) # {}
        BY <2>1, <2>2, FactoringAssumption, BuildCompleteProperties
    <2>4. ASSUME NEW s \in BuildComplete(n, S)
          PROVE  /\ s \in Seq(Factors) /\ Product[s] = n /\ Ascending(s)
                 /\ Closed(S) => s \in Seq(Roughs)
        BY <2>1, <2>2, FactoringAssumption, BuildCompleteProperties
    <2>5. ASSUME NEW s \in BuildComplete(n, S), Closed(S), n < WHEEL_LIMIT * WHEEL_LIMIT,
                 NEW f \in ToSet(s)
          PROVE  Prime(f)
        <3>1. f \in Factors /\ f <= n
            BY <2>1, <2>4, FactorsOfAnswer
        <3>2. f \in Roughs
            BY <2>4, <2>5 DEF ToSet
        <3>3. f \in Nat /\ WHEEL_LIMIT * WHEEL_LIMIT \in Nat
            BY <3>1, FactoringAssumption DEF Factors
        <3> QED BY <2>1, <2>5, <3>1, <3>2, <3>3, RoughsAreRough
    <2> QED BY <2>3, <2>4, <2>5 DEF Closed
<1> QED BY <1>1, AlwaysNatural, PTL

-----------------------------------------------------------------------------
(* Numbers and bytes.                                                      *)

Bytes == 0..(BYTE - 1)

LEMMA ByteIsPositive == BYTE \in Nat /\ BYTE > 0 /\ Bytes \subseteq Nat /\ 1 \in Bytes /\ 0 \in Bytes
BY WireAssumption DEF Bytes

LEMMA WidthsArePositive ==
    /\ HALF \in Nat /\ HALF > 0 /\ WORD \in Nat /\ WORD > 0 /\ QUAD \in Nat /\ QUAD > 0
    /\ ID \in Nat /\ ID > 0 /\ COORD \in Nat /\ COORD > 0
BY WireAssumption

LEMMA PayloadSizeType == MAX_PAYLOAD_SIZE \in Nat
BY WireAssumption

\* Induction over the numbers, for a set.
LEMMA NumberInduction ==
    ASSUME NEW T, 0 \in T, \A k \in Nat : k \in T => k + 1 \in T
    PROVE  Nat \subseteq T
<1> DEFINE m == [k \in Nat |-> k]
<1>1. \A k \in Nat : (\A j \in Nat : m[j] < m[k] => j \in T) => k \in T
    <2> SUFFICES ASSUME NEW k \in Nat, \A j \in Nat : m[j] < m[k] => j \in T PROVE k \in T
        OBVIOUS
    <2>1. CASE k = 0
        BY <2>1
    <2>2. CASE k # 0
        <3>1. k - 1 \in Nat /\ k - 1 < k /\ (k - 1) + 1 = k
            BY <2>2
        <3>2. k - 1 \in T
            BY <3>1
        <3>3. (k - 1) + 1 \in T
            BY <3>1, <3>2
        <3> QED BY <3>1, <3>3
    <2> QED BY <2>1, <2>2
<1>2. m \in [Nat -> Nat]
    OBVIOUS
<1> HIDE DEF m
<1> QED BY <1>1, <1>2, MeasureInduction

LEMMA PowerStep == \A k \in Nat : Power[k] = IF k = 0 THEN 1 ELSE BYTE * Power[k - 1]
<1> DEFINE D == Nat
           m == [k \in D |-> k]
           step(k, g) == IF k = 0 THEN 1 ELSE BYTE * g[k - 1]
           F == [g \in [D -> Nat] |-> [k \in D |-> step(k, g)]]
<1>1. ASSUME NEW g \in [D -> Nat], NEW k \in D PROVE step(k, g) \in Nat
    BY ByteIsPositive
<1>2. \A g, h \in [D -> Nat] : \A k \in D :
          (\A y \in D : m[y] < m[k] => g[y] = h[y]) => F[g][k] = F[h][k]
    <2>1. ASSUME NEW g \in [D -> Nat], NEW h \in [D -> Nat], NEW k \in D,
                 \A y \in D : m[y] < m[k] => g[y] = h[y]
          PROVE  step(k, g) = step(k, h)
        <3>1. k # 0 => k - 1 \in D /\ k - 1 < k
            OBVIOUS
        <3>2. k # 0 => g[k - 1] = h[k - 1]
            BY <2>1, <3>1
        <3> QED BY <3>2
    <2> HIDE DEF step
    <2> QED BY <2>1
<1>3. F \in [[D -> Nat] -> [D -> Nat]]
    <2> HIDE DEF step
    <2> QED BY <1>1
<1>4. PICK g \in [D -> Nat] : g = F[g]
    <2>1. m \in [D -> Nat] /\ Nat # {}
        OBVIOUS
    <2> HIDE DEF F, D, m
    <2>2. Recursive(F, D, Nat, m)
        BY <1>2, <1>3, <2>1 DEF Recursive
    <2> QED BY <2>2, RecursionExists
<1>5. g = [k \in Nat |-> IF k = 0 THEN 1 ELSE BYTE * g[k - 1]]
    BY <1>4
<1>6. Power = [k \in Nat |-> IF k = 0 THEN 1 ELSE BYTE * Power[k - 1]]
    BY <1>5 DEF Power
<1> QED BY <1>6

LEMMA PowerType ==
    ASSUME NEW k \in Nat
    PROVE  /\ Power[k] \in Nat /\ Power[k] > 0 /\ Power[0] = 1
           /\ Power[k + 1] = BYTE * Power[k]
<1> DEFINE T == {j \in Nat : Power[j] \in Nat /\ Power[j] > 0}
<1>1. 0 \in T /\ Power[0] = 1
    BY PowerStep
<1>2. ASSUME NEW j \in Nat PROVE Power[j + 1] = BYTE * Power[j]
    <2>1. j + 1 \in Nat /\ j + 1 # 0 /\ (j + 1) - 1 = j
        OBVIOUS
    <2>2. Power[j + 1] = BYTE * Power[(j + 1) - 1]
        BY <2>1, PowerStep
    <2> QED BY <2>1, <2>2
<1>3. ASSUME NEW j \in Nat, j \in T PROVE j + 1 \in T
    <2> DEFINE p == Power[j]
    <2>1. p \in Nat /\ p > 0 /\ Power[j + 1] = BYTE * p
        BY <1>2, <1>3
    <2> HIDE DEF p
    <2>2. BYTE * p \in Nat /\ BYTE * p > 0
        BY <2>1, ByteIsPositive
    <2> QED BY <2>1, <2>2
<1> HIDE DEF T
<1>4. Nat \subseteq T
    BY <1>1, <1>3, NumberInduction
<1> QED BY <1>1, <1>2, <1>4 DEF T

LEMMA NumberStep ==
    \A s \in Seq(Nat) :
        Number[s] = IF s = <<>> THEN 0 ELSE Head(s) * Power[Len(s) - 1] + Number[Tail(s)]
<1> DEFINE D == Seq(Nat)
           m == [s \in Seq(Nat) |-> Len(s)]
           step(s, g) == IF s = <<>> THEN 0 ELSE Head(s) * Power[Len(s) - 1] + g[Tail(s)]
           F == [g \in [D -> Nat] |-> [s \in D |-> step(s, g)]]
<1>1. /\ m \in [D -> Nat]
      /\ \A s \in D : s # <<>> => Head(s) \in Nat /\ Tail(s) \in D /\ m[Tail(s)] < m[s]
    BY LengthMeasure
<1>2. ASSUME NEW g \in [D -> Nat], NEW s \in D PROVE step(s, g) \in Nat
    <2>1. CASE s = <<>>
        BY <2>1
    <2>2. CASE s # <<>>
        <3>1. Len(s) - 1 \in Nat
            BY <2>2
        <3>2. Head(s) \in Nat /\ g[Tail(s)] \in Nat /\ Power[Len(s) - 1] \in Nat
            BY <1>1, <2>2, <3>1, PowerType
        <3> DEFINE a == Head(s)
                   b == g[Tail(s)]
                   c == Power[Len(s) - 1]
        <3>3. a \in Nat /\ b \in Nat /\ c \in Nat
            BY <3>2
        <3> HIDE DEF a, b, c
        <3>4. a * c \in Nat
            BY <3>3
        <3> DEFINE e == a * c
        <3>5. e \in Nat /\ step(s, g) = e + b
            BY <2>2, <3>4 DEF a, b, c
        <3> HIDE DEF e, step
        <3> QED BY <3>3, <3>5
    <2> QED BY <2>1, <2>2
<1>3. \A g, h \in [D -> Nat] : \A s \in D :
          (\A y \in D : m[y] < m[s] => g[y] = h[y]) => F[g][s] = F[h][s]
    <2>1. ASSUME NEW g \in [D -> Nat], NEW h \in [D -> Nat], NEW s \in D,
                 \A y \in D : m[y] < m[s] => g[y] = h[y]
          PROVE  step(s, g) = step(s, h)
        <3>1. s # <<>> => g[Tail(s)] = h[Tail(s)]
            BY <1>1, <2>1
        <3> QED BY <3>1
    <2> HIDE DEF step
    <2> QED BY <2>1
<1>4. F \in [[D -> Nat] -> [D -> Nat]]
    <2> HIDE DEF step
    <2> QED BY <1>2
<1>5. PICK g \in [D -> Nat] : g = F[g]
    <2>1. Nat # {}
        OBVIOUS
    <2> HIDE DEF F, D, m
    <2>2. Recursive(F, D, Nat, m)
        BY <1>1, <1>3, <1>4, <2>1 DEF Recursive
    <2> QED BY <2>2, RecursionExists
<1>6. g = [s \in Seq(Nat) |-> IF s = <<>> THEN 0 ELSE Head(s) * Power[Len(s) - 1] + g[Tail(s)]]
    BY <1>5
<1>7. Number = [s \in Seq(Nat) |->
                   IF s = <<>> THEN 0 ELSE Head(s) * Power[Len(s) - 1] + Number[Tail(s)]]
    BY <1>6 DEF Number
<1> QED BY <1>7

\* Quotient and remainder are what they are said to be.
LEMMA Division ==
    ASSUME NEW b \in Nat, b > 0, NEW q \in Nat, NEW r \in Nat, r < b
    PROVE  /\ b * q + r \in Nat
           /\ (b * q + r) \div b = q /\ (b * q + r) % b = r
<1> DEFINE x == b * q
           a == x + r
           c == a \div b
           d == a % b
           y == b * c
<1>1. x \in Nat /\ a \in Nat
    <2>1. x \in Nat
        OBVIOUS
    <2> HIDE DEF x
    <2> QED BY <2>1
<1>2. c \in Nat /\ d \in Nat /\ d < b /\ a = y + d
    <2> HIDE DEF a
    <2> QED BY <1>1
<1>3. y \in Nat
    <2> HIDE DEF c
    <2> QED BY <1>2
<1>4. ASSUME NEW i \in Nat, NEW j \in Nat, i < j PROVE b * j >= b * i + b
    <2> DEFINE k == j - i
    <2>1. k \in Nat /\ k >= 1 /\ j = i + k
        BY <1>4
    <2> HIDE DEF k
    <2>2. b * j = b * i + b * k
        BY <2>1
    <2>3. b * i \in Nat /\ b * k \in Nat /\ b * k >= b
        BY <2>1
    <2> DEFINE u == b * i
               v == b * k
    <2>4. u \in Nat /\ v \in Nat /\ v >= b /\ b * j = u + v
        BY <2>2, <2>3
    <2> HIDE DEF u, v
    <2>5. b * j >= u + b
        BY <2>4
    <2> QED BY <2>5 DEF u
<1>5. ~(q < c) /\ ~(c < q)
    <2>1. q < c => y >= x + b
        BY <1>2, <1>4
    <2>2. c < q => x >= y + b
        BY <1>2, <1>4
    <2> HIDE DEF x, y, c, d
    <2> QED BY <1>1, <1>2, <1>3, <2>1, <2>2
<1>6. c = q
    <2> HIDE DEF c
    <2> QED BY <1>2, <1>5
<1>7. d = r
    <2>1. y = x
        BY <1>6
    <2> HIDE DEF x, y, d
    <2> QED BY <1>1, <1>2, <1>3, <2>1
<1> HIDE DEF c, d
<1> QED BY <1>1, <1>6, <1>7 DEF c, d

LEMMA SmallRemainder ==
    ASSUME NEW b \in Nat, b > 0, NEW r \in Nat, r < b
    PROVE  r \div b = 0 /\ r % b = r
<1>1. b * 0 + r = r /\ 0 \in Nat
    OBVIOUS
<1>2. (b * 0 + r) \div b = 0 /\ (b * 0 + r) % b = r
    BY <1>1, Division
<1> QED BY <1>1, <1>2

\* A multiple of b adds to the quotient alone.
LEMMA DivisionShift ==
    ASSUME NEW b \in Nat, b > 0, NEW h \in Nat, NEW m \in Nat
    PROVE  /\ m + b * h \in Nat
           /\ (m + b * h) \div b = (m \div b) + h
           /\ (m + b * h) % b = m % b
<1> DEFINE q == m \div b
           r == m % b
<1>1. q \in Nat /\ r \in Nat /\ r < b /\ m = b * q + r
    OBVIOUS
<1> HIDE DEF q, r
<1>2. q + h \in Nat
    BY <1>1
<1> DEFINE p == q + h
<1> HIDE DEF p
<1>3. m + b * h = b * p + r
    <2>1. b * p = b * q + b * h
        BY <1>1 DEF p
    <2>2. b * q \in Nat /\ b * h \in Nat
        BY <1>1
    <2> DEFINE x == b * q
               y == b * h
               z == b * p
    <2>3. x \in Nat /\ y \in Nat /\ z = x + y /\ m = x + r
        BY <1>1, <2>1, <2>2
    <2> HIDE DEF x, y, z
    <2>4. m + y = z + r
        BY <1>1, <2>3
    <2> QED BY <2>4 DEF y, z
<1>4. (b * p + r) \div b = p /\ (b * p + r) % b = r /\ b * p + r \in Nat
    BY <1>1, <1>2, Division DEF p
<1> QED BY <1>3, <1>4 DEF p, q, r

LEMMA DigitsType ==
    ASSUME NEW m \in Nat, NEW w \in Nat
    PROVE  /\ Digits(m, w) \in Seq(Bytes) /\ Len(Digits(m, w)) = w
           /\ \A i \in 1..w : Digits(m, w)[i] = (m \div Power[w - i]) % BYTE
<1>1. ASSUME NEW i \in 1..w PROVE (m \div Power[w - i]) % BYTE \in Bytes
    <2>1. w - i \in Nat
        OBVIOUS
    <2> DEFINE p == Power[w - i]
    <2>2. p \in Nat /\ p > 0
        BY <2>1, PowerType
    <2> HIDE DEF p
    <2> DEFINE q == m \div p
    <2>3. q \in Nat
        BY <2>2
    <2> HIDE DEF q
    <2>4. q % BYTE \in Bytes
        BY <2>3, ByteIsPositive DEF Bytes
    <2> QED BY <2>4 DEF p, q
<1> DEFINE e(i) == (m \div Power[w - i]) % BYTE
<1>2. Digits(m, w) = [i \in 1..w |-> e(i)]
    BY DEF Digits
<1>3. \A i \in 1..w : e(i) \in Bytes
    BY <1>1
<1> HIDE DEF e
<1>4. [i \in 1..w |-> e(i)] \in Seq(Bytes) /\ Len([i \in 1..w |-> e(i)]) = w
    BY <1>3
<1> QED BY <1>2, <1>4 DEF e

LEMMA NoDigits == \A m \in Nat : Digits(m, 0) = <<>>
<1>1. ASSUME NEW m \in Nat PROVE Digits(m, 0) = <<>>
    <2>1. Digits(m, 0) \in Seq(Bytes) /\ Len(Digits(m, 0)) = 0
        BY DigitsType
    <2> QED BY <2>1
<1> QED BY <1>1

\* The digits of one more byte begin with it.
LEMMA DigitsStep ==
    ASSUME NEW m \in Nat, NEW w \in Nat
    PROVE  /\ (m \div Power[w]) % BYTE \in Bytes
           /\ Digits(m, w + 1) = <<(m \div Power[w]) % BYTE>> \o Digits(m, w)
<1> DEFINE h == (m \div Power[w]) % BYTE
           d == Digits(m, w)
           t == <<h>> \o d
           u == Digits(m, w + 1)
<1>1. w + 1 \in Nat /\ 1 \in 1..(w + 1) /\ (w + 1) - 1 = w
    OBVIOUS
<1>2. /\ u \in Seq(Bytes) /\ Len(u) = w + 1
      /\ \A i \in 1..(w + 1) : u[i] = (m \div Power[(w + 1) - i]) % BYTE
    BY <1>1, DigitsType
<1>3. d \in Seq(Bytes) /\ Len(d) = w /\ \A i \in 1..w : d[i] = (m \div Power[w - i]) % BYTE
    BY DigitsType
<1>4. u[1] = h
    BY <1>1, <1>2
<1>5. h \in Bytes
    BY <1>1, <1>2, <1>4, ElementOfSeq
<1>6. ASSUME NEW i \in 1..(w + 1), i # 1 PROVE u[i] = d[i - 1]
    <2>1. i - 1 \in 1..w /\ w - (i - 1) = (w + 1) - i
        BY <1>6
    <2>2. d[i - 1] = (m \div Power[w - (i - 1)]) % BYTE
        BY <1>3, <2>1
    <2> QED BY <1>2, <2>1, <2>2
<1> HIDE DEF h, d, u
<1>7. t \in Seq(Bytes) /\ Len(t) = w + 1
      /\ \A i \in 1..(w + 1) : t[i] = IF i = 1 THEN h ELSE d[i - 1]
    BY <1>3, <1>5, ConsProperties
<1>8. \A i \in 1..(w + 1) : t[i] = u[i]
    BY <1>4, <1>6, <1>7
<1> HIDE DEF t
<1>9. t = u
    BY <1>2, <1>7, <1>8, SeqEqual
<1> QED BY <1>5, <1>9 DEF h, d, t, u

\* What lies beyond w bytes does not show in w digits.
LEMMA DigitsShift ==
    ASSUME NEW w \in Nat
    PROVE  \A m, h \in Nat : Digits(m + Power[w] * h, w) = Digits(m, w)
<1> DEFINE T == {k \in Nat : \A m, h \in Nat : Digits(m + Power[k] * h, k) = Digits(m, k)}
<1>1. 0 \in T
    <2>1. ASSUME NEW m \in Nat, NEW h \in Nat PROVE Digits(m + Power[0] * h, 0) = Digits(m, 0)
        <3>1. m + Power[0] * h \in Nat
            BY PowerType
        <3> QED BY <3>1, NoDigits
    <2> QED BY <2>1
<1>2. ASSUME NEW k \in Nat, k \in T PROVE k + 1 \in T
    <2>1. ASSUME NEW m \in Nat, NEW h \in Nat
          PROVE  Digits(m + Power[k + 1] * h, k + 1) = Digits(m, k + 1)
        <3> DEFINE p == Power[k]
                   g == BYTE * h
                   a == m + Power[k + 1] * h
        <3>1. p \in Nat /\ p > 0 /\ g \in Nat /\ Power[k + 1] = BYTE * p
            BY PowerType, ByteIsPositive
        <3>2. a = m + p * g
            BY <3>1, ByteIsPositive
        <3> HIDE DEF p, g, a
        <3>3. a \in Nat /\ a \div p = (m \div p) + g
            BY <3>1, <3>2, DivisionShift
        <3>4. Digits(a, k) = Digits(m, k)
            BY <1>2, <3>1, <3>2 DEF p
        <3> DEFINE q == m \div p
        <3>5. q \in Nat
            BY <3>1
        <3> HIDE DEF q
        <3>6. (q + g) % BYTE = q % BYTE
            BY <3>5, DivisionShift, ByteIsPositive DEF g
        <3>7. (a \div p) % BYTE = (m \div p) % BYTE
            BY <3>3, <3>6 DEF q
        <3>8. Digits(a, k + 1) = Digits(m, k + 1)
            BY <3>3, <3>4, <3>7, DigitsStep DEF p
        <3> QED BY <3>8 DEF a
    <2> QED BY <2>1
<1> HIDE DEF T
<1>3. Nat \subseteq T
    BY <1>1, <1>2, NumberInduction
<1> QED BY <1>3 DEF T

LEMMA EmptyNumber == <<>> \in Seq(Nat) /\ Number[<<>>] = 0 /\ Power[0] = 1
<1>1. <<>> \in Seq(Nat) /\ 0 \in Nat
    OBVIOUS
<1> QED BY <1>1, NumberStep, PowerStep

LEMMA NumberOfCons ==
    ASSUME NEW x \in Nat, NEW s \in Seq(Nat)
    PROVE  Number[<<x>> \o s] = x * Power[Len(s)] + Number[s]
<1> DEFINE t == <<x>> \o s
<1>1. /\ t \in Seq(Nat) /\ t # <<>> /\ Head(t) = x /\ Tail(t) = s
      /\ Len(t) = Len(s) + 1 /\ Len(s) \in Nat
    BY ConsProperties
<1>2. Len(t) - 1 = Len(s)
    BY <1>1
<1> HIDE DEF t
<1>3. Number[t] = x * Power[Len(s)] + Number[s]
    BY <1>1, <1>2, NumberStep
<1> QED BY <1>3 DEF t

\* k bytes make a number below the k-th power, and are its digits.
LEMMA NumberOfBytes ==
    ASSUME NEW s \in Seq(Bytes)
    PROVE  /\ Number[s] \in Nat /\ Number[s] < Power[Len(s)]
           /\ Digits(Number[s], Len(s)) = s
<1> DEFINE T == {t \in Seq(Bytes) : /\ Number[t] \in Nat /\ Number[t] < Power[Len(t)]
                                    /\ Digits(Number[t], Len(t)) = t}
<1>1. <<>> \in T
    <2>1. Number[<<>>] = 0 /\ Len(<<>>) = 0 /\ Power[0] = 1 /\ <<>> \in Seq(Bytes)
        BY EmptyNumber
    <2>2. Digits(0, 0) = <<>>
        BY NoDigits
    <2> QED BY <2>1, <2>2
<1>2. ASSUME NEW t \in Seq(Bytes), t # <<>>, Tail(t) \in T PROVE t \in T
    <2> DEFINE x == Head(t)
               r == Tail(t)
               k == Len(r)
               p == Power[k]
               m == Number[r]
    <2>1. x \in Bytes /\ r \in Seq(Bytes) /\ t = <<x>> \o r /\ Len(t) = k + 1 /\ k \in Nat
        BY <1>2, ConsOfHeadTail
    <2>2. m \in Nat /\ m < p /\ Digits(m, k) = r
        BY <1>2
    <2> HIDE DEF x, r, T, m
    <2>3. x \in Nat /\ r \in Seq(Nat) /\ x < BYTE
        <3>1. Bytes \subseteq Nat
            BY ByteIsPositive
        <3> QED BY <2>1, <3>1, SeqMonotonic, ByteIsPositive DEF Bytes
    <2>4. Number[t] = x * p + m
        BY <2>1, <2>3, NumberOfCons DEF m
    <2>5. p \in Nat /\ p > 0 /\ Power[k + 1] = BYTE * p
        BY <2>1, PowerType
    <2> HIDE DEF p, k
    <2>6. x * p = p * x /\ x * p \in Nat
        BY <2>3, <2>5
    <2>7. Number[t] = p * x + m /\ Number[t] \in Nat /\ Number[t] \div p = x
        <3>1. p * x + m \in Nat /\ (p * x + m) \div p = x
            BY <2>2, <2>3, <2>5, Division
        <3>2. Number[t] = p * x + m
            BY <2>4, <2>6
        <3> QED BY <3>1, <3>2
    <2>8. Number[t] < BYTE * p
        <3>1. (x + 1) * p <= BYTE * p
            BY <2>3, <2>5, ByteIsPositive
        <3>2. (x + 1) * p = x * p + p
            BY <2>3, <2>5
        <3> DEFINE y == x * p
                   z == BYTE * p
        <3>3. y \in Nat /\ z \in Nat /\ y + p <= z /\ Number[t] = y + m
            BY <2>4, <2>5, <2>6, <3>1, <3>2, ByteIsPositive
        <3> HIDE DEF y, z
        <3>4. Number[t] < z
            BY <2>2, <2>5, <3>3
        <3> QED BY <3>4 DEF z
    <2>9. Digits(Number[t], k + 1) = t
        <3>1. Digits(Number[t], k) = r
            <4>1. Number[t] = m + p * x
                BY <2>2, <2>4, <2>6
            <4> QED BY <2>1, <2>2, <2>3, <4>1, DigitsShift DEF p
        <3>2. x % BYTE = x
            BY <2>3, SmallRemainder, ByteIsPositive
        <3> QED BY <2>1, <2>7, <3>1, <3>2, DigitsStep DEF p
    <2> QED BY <2>1, <2>5, <2>7, <2>8, <2>9 DEF T
<1> HIDE DEF T
<1>3. Seq(Bytes) \subseteq T
    BY <1>1, <1>2, ListInduction
<1> QED BY <1>3 DEF T

\* A number that fits into w bytes is read back from them.
LEMMA NumberOfDigits ==
    ASSUME NEW w \in Nat
    PROVE  \A m \in Nat : Number[Digits(m, w)] = m % Power[w]
<1> DEFINE T == {k \in Nat : \A m \in Nat : Number[Digits(m, k)] = m % Power[k]}
<1>1. 0 \in T
    <2>1. ASSUME NEW m \in Nat PROVE Number[Digits(m, 0)] = m % Power[0]
        <3>1. Digits(m, 0) = <<>> /\ Number[<<>>] = 0 /\ Power[0] = 1
            BY NoDigits, EmptyNumber
        <3> QED BY <3>1
    <2> QED BY <2>1
<1>2. ASSUME NEW k \in Nat, k \in T PROVE k + 1 \in T
    <2>1. ASSUME NEW m \in Nat PROVE Number[Digits(m, k + 1)] = m % Power[k + 1]
        <3> DEFINE p == Power[k]
                   q == m \div p
                   r == m % p
                   a == q % BYTE
                   c == q \div BYTE
                   z == BYTE * p
        <3>1. p \in Nat /\ p > 0 /\ Power[k + 1] = z
            BY PowerType
        <3> HIDE DEF p
        <3>2. q \in Nat /\ r \in Nat /\ r < p /\ m = p * q + r
            BY <3>1
        <3> HIDE DEF q, r
        <3>3. a \in Nat /\ a < BYTE /\ c \in Nat /\ q = BYTE * c + a
            BY <3>2, ByteIsPositive
        <3> HIDE DEF a, c
        <3>4. z \in Nat /\ z > 0
            BY <3>1, ByteIsPositive
        <3>5. m = z * c + (a * p + r) /\ a * p \in Nat
            <4>1. p * (BYTE * c + a) = (BYTE * p) * c + a * p
                BY <3>1, <3>3, ByteIsPositive
            <4>2. a * p \in Nat /\ z * c \in Nat
                BY <3>1, <3>3, <3>4
            <4> DEFINE u == z * c
                       v == a * p
            <4>3. m = (u + v) + r /\ u \in Nat /\ v \in Nat
                BY <3>2, <3>3, <4>1, <4>2
            <4> HIDE DEF u, v
            <4>4. m = u + (v + r)
                BY <3>2, <4>3
            <4> QED BY <4>2, <4>4 DEF u, v
        <3>6. a * p + r < z /\ a * p + r \in Nat
            <4>1. (a + 1) * p <= BYTE * p
                BY <3>1, <3>3, ByteIsPositive
            <4>2. (a + 1) * p = a * p + p
                BY <3>1, <3>3
            <4> DEFINE y == a * p
            <4>3. y \in Nat /\ y + p <= z
                BY <3>5, <4>1, <4>2
            <4> HIDE DEF y, z
            <4>4. y + r < z /\ y + r \in Nat
                BY <3>1, <3>2, <3>4, <4>3
            <4> QED BY <4>4 DEF y
        <3> HIDE DEF z
        <3>7. m % z = a * p + r
            <4> DEFINE y == a * p + r
            <4>1. y \in Nat /\ y < z /\ m = z * c + y
                BY <3>5, <3>6
            <4> HIDE DEF y
            <4>2. (z * c + y) % z = y
                BY <3>3, <3>4, <4>1, Division
            <4> QED BY <4>1, <4>2 DEF y
        <3>8. Digits(m, k + 1) = <<a>> \o Digits(m, k)
            BY DigitsStep DEF a, q, p
        <3>9. Number[Digits(m, k)] = r
            BY <1>2 DEF r, p
        <3>10. /\ Digits(m, k) \in Seq(Nat) /\ Len(Digits(m, k)) = k
            <4>1. Bytes \subseteq Nat /\ Digits(m, k) \in Seq(Bytes) /\ Len(Digits(m, k)) = k
                BY DigitsType, ByteIsPositive
            <4> QED BY <4>1, SeqMonotonic
        <3>11. Number[Digits(m, k + 1)] = a * p + r
            BY <3>3, <3>8, <3>9, <3>10, NumberOfCons DEF p
        <3> QED BY <3>1, <3>7, <3>11
    <2> QED BY <2>1
<1> HIDE DEF T
<1>3. Nat \subseteq T
    BY <1>1, <1>2, NumberInduction
<1> QED BY <1>3 DEF T

-----------------------------------------------------------------------------
(* Datagrams.                                                              *)

LEMMA SliceType ==
    ASSUME NEW S, NEW data \in Seq(S), NEW a \in Nat, NEW k \in Nat, a + k <= Len(data)
    PROVE  /\ Slice(data, a, k) \in Seq(S) /\ Len(Slice(data, a, k)) = k
           /\ \A i \in 1..k : Slice(data, a, k)[i] = data[a + i]
<1> DEFINE p == a + 1
           q == a + k
<1>1. p \in Int /\ q \in Int /\ \A i \in p..q : i \in 1..Len(data)
    OBVIOUS
<1>2. \A i \in p..q : data[i] \in S
    BY <1>1, ElementOfSeq
<1> HIDE DEF p, q
<1>3. /\ SubSeq(data, p, q) \in Seq(S)
      /\ Len(SubSeq(data, p, q)) = IF p <= q THEN q - p + 1 ELSE 0
      /\ \A i \in 1..(q - p + 1) : SubSeq(data, p, q)[i] = data[p + i - 1]
    BY <1>1, <1>2, SubSeqProperties
<1>4. q - p + 1 = k /\ (p <= q <=> k > 0) /\ \A i \in 1..k : p + i - 1 = a + i
    BY DEF p, q
<1> QED BY <1>3, <1>4 DEF Slice, p, q

LEMMA SliceJoin ==
    ASSUME NEW S, NEW data \in Seq(S), NEW a \in Nat, NEW k \in Nat, NEW l \in Nat,
           a + k + l <= Len(data)
    PROVE  Slice(data, a, k) \o Slice(data, a + k, l) = Slice(data, a, k + l)
<1>1. /\ a + k \in Nat /\ k + l \in Nat /\ a + k <= Len(data)
      /\ (a + k) + l <= Len(data) /\ a + (k + l) <= Len(data)
    OBVIOUS
<1> DEFINE x == Slice(data, a, k)
           y == Slice(data, a + k, l)
           z == Slice(data, a, k + l)
<1>2. /\ x \in Seq(S) /\ Len(x) = k /\ \A i \in 1..k : x[i] = data[a + i]
      /\ y \in Seq(S) /\ Len(y) = l /\ \A i \in 1..l : y[i] = data[(a + k) + i]
      /\ z \in Seq(S) /\ Len(z) = k + l /\ \A i \in 1..(k + l) : z[i] = data[a + i]
    BY <1>1, SliceType
<1> HIDE DEF x, y, z
<1>3. /\ x \o y \in Seq(S) /\ Len(x \o y) = k + l
      /\ \A i \in 1..(k + l) : (x \o y)[i] = IF i <= k THEN x[i] ELSE y[i - k]
    <2>1. x \in Seq(S) /\ y \in Seq(S) /\ Len(x) = k /\ Len(y) = l
        BY <1>2
    <2> QED BY <2>1, ConcatProperties
<1>4. ASSUME NEW i \in 1..(k + l) PROVE (x \o y)[i] = z[i]
    <2>1. CASE i <= k
        <3>1. i \in 1..k
            BY <2>1
        <3> QED BY <1>2, <1>3, <2>1, <3>1
    <2>2. CASE ~(i <= k)
        <3>1. i - k \in 1..l /\ (a + k) + (i - k) = a + i
            BY <2>2
        <3>2. y[i - k] = data[(a + k) + (i - k)]
            BY <1>2, <3>1
        <3> QED BY <1>2, <1>3, <2>2, <3>1, <3>2
    <2> QED BY <2>1, <2>2
<1>5. x \o y = z
    BY <1>2, <1>3, <1>4, SeqEqual
<1> QED BY <1>5 DEF x, y, z

\* A field of k bytes is packed again into the bytes it was read from.
LEMMA FieldKept ==
    ASSUME NEW data \in Seq(Bytes), NEW a \in Nat, NEW k \in Nat, a + k <= Len(data)
    PROVE  /\ Number[Slice(data, a, k)] \in Nat
           /\ Digits(Number[Slice(data, a, k)], k) = Slice(data, a, k)
BY SliceType, NumberOfBytes

\* What an accepted datagram looks like.
PayloadLen(data) == Number[Slice(data, 2 + ID + 2 * QUAD, WORD)]
Body(data) == HEADER_SIZE + PayloadLen(data)

Accepted(data) ==
    /\ Len(data) >= HEADER_SIZE /\ data[1] = PROTOCOL_VERSION
    /\ PayloadLen(data) <= MAX_PAYLOAD_SIZE
    /\ Body(data) + HALF + 2 * COORD <= Len(data)
    /\ Number[Slice(data, Body(data), HALF)] = 2 * COORD

Fields(data) ==
    [version   |-> data[1],
     type      |-> data[2],
     sender    |-> Slice(data, 2, ID),
     timestamp |-> Number[Slice(data, 2 + ID, QUAD)],
     nonce     |-> Number[Slice(data, 2 + ID + QUAD, QUAD)],
     payload   |-> Slice(data, HEADER_SIZE, PayloadLen(data)),
     signature |-> <<Number[Slice(data, Body(data) + HALF, COORD)],
                     Number[Slice(data, (Body(data) + HALF) + COORD, COORD)]>>]

LEMMA HeaderType == HEADER_SIZE \in Nat /\ HEADER_SIZE = 2 + ID + 2 * QUAD + WORD
BY WidthsArePositive DEF HEADER_SIZE

LEMMA LengthsType ==
    ASSUME NEW data \in Seq(Bytes), Len(data) >= HEADER_SIZE
    PROVE  PayloadLen(data) \in Nat /\ Body(data) \in Nat
<1> DEFINE a == 2 + ID + 2 * QUAD
<1>1. a \in Nat /\ WORD \in Nat /\ a + WORD = HEADER_SIZE /\ Len(data) \in Nat
    BY HeaderType, WidthsArePositive
<1> HIDE DEF a
<1>2. Number[Slice(data, a, WORD)] \in Nat
    BY <1>1, FieldKept
<1> QED BY <1>2, HeaderType DEF a, PayloadLen, Body

LEMMA Deserialized ==
    ASSUME NEW data \in Seq(Bytes)
    PROVE  /\ Deserialize(data).at >= 0 => Accepted(data)
           /\ Accepted(data) =>
                  /\ Deserialize(data).at = Body(data) + HALF + 2 * COORD
                  /\ Deserialize(data).value = Fields(data)
<1> DEFINE L == PayloadLen(data)
           body == Body(data)
           sig == Unpack(data, body, HALF)
           inner == Then(sig, LAMBDA sigLen, b :
                        IF sigLen # 2 * COORD \/ Len(data) < b + sigLen
                        THEN Refused
                        ELSE Done([version   |-> data[1],
                                   type      |-> data[2],
                                   sender    |-> Slice(data, 2, ID),
                                   timestamp |-> Number[Slice(data, 2 + ID, QUAD)],
                                   nonce     |-> NonceOf(data),
                                   payload   |-> Slice(data, HEADER_SIZE, L),
                                   signature |-> <<Number[Slice(data, b, COORD)],
                                                   Number[Slice(data, b + COORD, COORD)]>>],
                                  b + sigLen))
<1>1. Deserialize(data) =
          IF Len(data) < HEADER_SIZE \/ data[1] # PROTOCOL_VERSION \/ L > MAX_PAYLOAD_SIZE
          THEN Refused ELSE inner
    BY DEF Deserialize, PayloadLen, Body
<1>2. Refused.at = -1 /\ ~(Refused.at >= 0)
    BY DEF Refused, Done
<1>3. ASSUME Len(data) >= HEADER_SIZE
      PROVE  /\ inner.at >= 0 =>
                 /\ body + HALF + 2 * COORD <= Len(data)
                 /\ Number[Slice(data, body, HALF)] = 2 * COORD
             /\ body + HALF + 2 * COORD <= Len(data) /\ Number[Slice(data, body, HALF)] = 2 * COORD =>
                 inner = Done(Fields(data), body + HALF + 2 * COORD)
    <2>1. body \in Nat /\ HALF \in Nat /\ 2 * COORD \in Nat /\ Len(data) \in Nat
        BY <1>3, LengthsType, WidthsArePositive
    <2>2. CASE body + HALF > Len(data)
        <3>1. sig = Refused
            BY <2>2 DEF Unpack, Exactly, Then, Refused, Done
        <3>2. inner = Refused
            BY <1>2, <3>1 DEF Then, Refused, Done
        <3>3. ~(inner.at >= 0)
            BY <1>2, <3>2
        <3> HIDE DEF inner, body
        <3>4. ~(body + HALF + 2 * COORD <= Len(data))
            BY <2>1, <2>2
        <3> QED BY <3>3, <3>4
    <2>3. CASE ~(body + HALF > Len(data))
        <3>1. sig = Done(Number[Slice(data, body, HALF)], body + HALF)
            BY <2>1, <2>3 DEF Unpack, Exactly, Then, Refused, Done
        <3> DEFINE x == Number[Slice(data, body, HALF)]
                   b == body + HALF
        <3>2. sig.value = x /\ sig.at = b /\ ~(sig.at < 0) /\ b \in Nat
            BY <2>1, <3>1 DEF Done
        <3>3. inner = IF x # 2 * COORD \/ Len(data) < b + x THEN Refused
                      ELSE Done(Fields(data), b + x)
            BY <3>2 DEF Then, Fields, NonceOf
        <3> HIDE DEF inner, sig, x, body
        <3>4. ~(x # 2 * COORD \/ Len(data) < b + x) <=> b + 2 * COORD <= Len(data) /\ x = 2 * COORD
            BY <2>1, <3>2
        <3> QED BY <1>2, <3>3, <3>4 DEF x, body
    <2> QED BY <2>2, <2>3
<1>4. (Len(data) \in Nat /\ L \in Nat) \/ Len(data) < HEADER_SIZE
    BY LengthsType, HeaderType
<1>5. Deserialize(data).at >= 0 => Accepted(data)
    <2> HIDE DEF inner
    <2> QED BY <1>1, <1>2, <1>3, <1>4, WidthsArePositive, PayloadSizeType, HeaderType DEF Accepted
<1>6. Accepted(data) => Deserialize(data) = Done(Fields(data), body + HALF + 2 * COORD)
    <2> HIDE DEF inner
    <2> QED BY <1>1, <1>3, <1>4, WidthsArePositive, PayloadSizeType, HeaderType DEF Accepted
<1> QED BY <1>5, <1>6 DEF Done

LEMMA TwoBytes ==
    ASSUME NEW S, NEW data \in Seq(S), 2 <= Len(data)
    PROVE  Slice(data, 0, 2) = <<data[1], data[2]>>
<1>1. 0 + 2 <= Len(data) /\ 0 \in Nat /\ 2 \in Nat /\ 0 + 1 = 1 /\ 0 + 2 = 2
    OBVIOUS
<1>2. /\ Slice(data, 0, 2) \in Seq(S) /\ Len(Slice(data, 0, 2)) = 2
      /\ \A i \in 1..2 : Slice(data, 0, 2)[i] = data[0 + i]
    BY <1>1, SliceType
<1>3. Slice(data, 0, 2)[1] = data[1] /\ Slice(data, 0, 2)[2] = data[2]
    <2>1. 1 \in 1..2 /\ 2 \in 1..2
        OBVIOUS
    <2> QED BY <1>1, <1>2, <2>1
<1> DEFINE z == Slice(data, 0, 2)
<1> HIDE DEF z
<1>4. z \in Seq(S) /\ Len(z) = 2
    BY <1>2 DEF z
<1>5. z = <<z[1], z[2]>>
    BY <1>4
<1> QED BY <1>3, <1>5 DEF z

LEMMA SlicePrefix ==
    ASSUME NEW S, NEW data \in Seq(S), NEW k \in Nat, NEW l \in Nat, NEW e \in Nat,
           k + l = e, e <= Len(data)
    PROVE  Slice(data, 0, k) \o Slice(data, k, l) = Slice(data, 0, e)
<1>1. 0 + k = k /\ 0 + k + l <= Len(data) /\ 0 \in Nat
    OBVIOUS
<1>2. Slice(data, 0, k) \o Slice(data, 0 + k, l) = Slice(data, 0, k + l)
    BY <1>1, SliceJoin
<1> QED BY <1>1, <1>2

\* The fields of an accepted datagram are packed again into its bytes.
LEMMA BytesKept ==
    ASSUME NEW data \in Seq(Bytes), Accepted(data)
    PROVE  Serialize(Fields(data)) = SubSeq(data, 1, Body(data) + HALF + 2 * COORD)
<1> DEFINE f == Fields(data)
           L == PayloadLen(data)
           s(a, k) == Slice(data, a, k)
           o2 == 2 + ID
           o3 == o2 + QUAD
           o4 == o3 + QUAD
           o5 == o4 + WORD
           o6 == o5 + L
           o7 == o6 + HALF
           o8 == o7 + COORD
           o9 == o8 + COORD
           len == Len(data)
<1>1. /\ L \in Nat /\ len \in Nat
      /\ o4 = 2 + ID + 2 * QUAD /\ o5 = HEADER_SIZE /\ o6 = Body(data)
      /\ o9 = Body(data) + HALF + 2 * COORD /\ o9 <= len
    <2>1. L \in Nat /\ len \in Nat /\ Body(data) + HALF + 2 * COORD <= len
        BY LengthsType, HeaderType, WidthsArePositive DEF Accepted, Body
    <2> HIDE DEF L, len
    <2> QED BY <2>1, HeaderType, WidthsArePositive DEF Body, L
<1>2. /\ f.version = data[1] /\ f.type = data[2] /\ f.sender = s(2, ID)
      /\ f.timestamp = Number[s(o2, QUAD)] /\ f.nonce = Number[s(o3, QUAD)]
      /\ f.payload = s(o5, L)
      /\ f.signature[1] = Number[s(o7, COORD)] /\ f.signature[2] = Number[s(o8, COORD)]
    BY <1>1 DEF Fields
<1>3. Number[s(o4, WORD)] = L /\ Number[s(o6, HALF)] = 2 * COORD
    BY <1>1 DEF Accepted, PayloadLen
<1>4. /\ ID \in Nat /\ QUAD \in Nat /\ WORD \in Nat /\ HALF \in Nat /\ COORD \in Nat
      /\ o2 \in Nat /\ o2 = 2 + ID /\ o2 <= len
      /\ o3 \in Nat /\ o3 = o2 + QUAD /\ o3 <= len
      /\ o4 \in Nat /\ o4 = o3 + QUAD /\ o4 <= len
      /\ o5 \in Nat /\ o5 = o4 + WORD /\ o5 <= len
      /\ o6 \in Nat /\ o6 = o5 + L /\ o6 <= len
      /\ o7 \in Nat /\ o7 = o6 + HALF /\ o7 <= len
      /\ o8 \in Nat /\ o8 = o7 + COORD /\ o8 <= len
      /\ o9 \in Nat /\ o9 = o8 + COORD /\ o9 <= len
      /\ 2 <= len
    <2> HIDE DEF L, len
    <2> QED BY <1>1, WidthsArePositive
<1> HIDE DEF f, L, o2, o3, o4, o5, o6, o7, o8, o9
<1> DEFINE within(a, k, e) == a \in Nat /\ k \in Nat /\ e \in Nat /\ a + k = e /\ e <= Len(data)
<1>5. ASSUME NEW a, NEW k, NEW e, within(a, k, e)
      PROVE  /\ Digits(Number[s(a, k)], k) = s(a, k) /\ Len(s(a, k)) = k
             /\ s(0, a) \o s(a, k) = s(0, e)
    <2>1. a \in Nat /\ k \in Nat /\ e \in Nat /\ a + k = e /\ e <= Len(data) /\ a + k <= Len(data)
        BY <1>5
    <2> HIDE DEF within
    <2>2. Digits(Number[s(a, k)], k) = s(a, k)
        BY <2>1, FieldKept
    <2>3. Len(s(a, k)) = k
        BY <2>1, SliceType
    <2>4. Slice(data, 0, a) \o Slice(data, a, k) = Slice(data, 0, e)
        <3>1. \A i, l, j \in Nat : i + l = j /\ j <= Len(data) =>
                  Slice(data, 0, i) \o Slice(data, i, l) = Slice(data, 0, j)
            BY SlicePrefix
        <3> QED BY <2>1, <3>1
    <2> QED BY <2>2, <2>3, <2>4
<1>6. /\ within(2, ID, o2) /\ within(o2, QUAD, o3) /\ within(o3, QUAD, o4)
      /\ within(o4, WORD, o5) /\ within(o5, L, o6) /\ within(o6, HALF, o7)
      /\ within(o7, COORD, o8) /\ within(o8, COORD, o9)
    BY <1>1, <1>4
<1>7. <<f.version, f.type>> = s(0, 2)
    BY <1>2, <1>4, TwoBytes
<1> HIDE DEF s, within
<1>8. /\ Digits(f.timestamp, QUAD) = s(o2, QUAD) /\ Digits(f.nonce, QUAD) = s(o3, QUAD)
      /\ Digits(L, WORD) = s(o4, WORD) /\ Digits(2 * COORD, HALF) = s(o6, HALF)
      /\ Digits(f.signature[1], COORD) = s(o7, COORD)
      /\ Digits(f.signature[2], COORD) = s(o8, COORD)
      /\ Len(f.payload) = L
    BY <1>2, <1>3, <1>5, <1>6
<1>9. s(0, 2) \o s(2, ID) = s(0, o2) /\ s(0, o2) \o s(o2, QUAD) = s(0, o3)
      /\ s(0, o3) \o s(o3, QUAD) = s(0, o4) /\ s(0, o4) \o s(o4, WORD) = s(0, o5)
      /\ s(0, o5) \o s(o5, L) = s(0, o6) /\ s(0, o6) \o s(o6, HALF) = s(0, o7)
      /\ s(0, o7) \o s(o7, COORD) = s(0, o8) /\ s(0, o8) \o s(o8, COORD) = s(0, o9)
    BY <1>5, <1>6
<1>10. Serialize(f) = s(0, o9)
    BY <1>2, <1>7, <1>8, <1>9 DEF Serialize, HeaderAndPayload
<1>11. s(0, o9) = SubSeq(data, 1, o9)
    <2>1. 0 + 1 = 1 /\ 0 + o9 = o9
        BY <1>4
    <2> QED BY <2>1 DEF Slice, s
<1> QED BY <1>1, <1>10, <1>11 DEF f

\* A slice of a sequence is not touched by what comes behind it.
LEMMA SliceOfConcat ==
    ASSUME NEW S, NEW x \in Seq(S), NEW y \in Seq(S)
    PROVE  /\ x \o y \in Seq(S) /\ Len(x \o y) = Len(x) + Len(y)
           /\ Len(x) \in Nat /\ Len(y) \in Nat
           /\ Slice(x \o y, Len(x), Len(y)) = y
           /\ \A a, k \in Nat : a + k <= Len(x) => Slice(x \o y, a, k) = Slice(x, a, k)
<1> DEFINE z == x \o y
           p == Len(x)
           q == Len(y)
<1>1. /\ z \in Seq(S) /\ Len(z) = p + q
      /\ \A i \in 1..(p + q) : z[i] = IF i <= p THEN x[i] ELSE y[i - p]
    BY ConcatProperties
<1>2. p \in Nat /\ q \in Nat
    OBVIOUS
<1> HIDE DEF z, p, q
<1>3. Slice(z, p, q) = y
    <2> DEFINE u == Slice(z, p, q)
    <2>1. p + q <= Len(z)
        BY <1>1, <1>2
    <2>2. u \in Seq(S) /\ Len(u) = q /\ \A i \in 1..q : u[i] = z[p + i]
        BY <1>1, <1>2, <2>1, SliceType
    <2> HIDE DEF u
    <2>3. \A i \in 1..q : u[i] = y[i]
        <3> SUFFICES ASSUME NEW i \in 1..q PROVE u[i] = y[i]
            OBVIOUS
        <3>1. p + i \in 1..(p + q) /\ ~(p + i <= p) /\ (p + i) - p = i
            BY <1>2
        <3> QED BY <1>1, <2>2, <3>1
    <2>4. Len(y) = q
        BY DEF q
    <2>5. u = y
        BY <2>2, <2>3, <2>4, SeqEqual
    <2> QED BY <2>5 DEF u
<1>4. ASSUME NEW a \in Nat, NEW k \in Nat, a + k <= p PROVE Slice(z, a, k) = Slice(x, a, k)
    <2> DEFINE u == Slice(z, a, k)
               v == Slice(x, a, k)
    <2>1. a + k <= Len(z) /\ a + k <= Len(x) /\ z \in Seq(S)
        BY <1>1, <1>2, <1>4 DEF p
    <2>2. u \in Seq(S) /\ Len(u) = k /\ \A i \in 1..k : u[i] = z[a + i]
        BY <2>1, SliceType
    <2>3. v \in Seq(S) /\ Len(v) = k /\ \A i \in 1..k : v[i] = x[a + i]
        BY <2>1, SliceType
    <2> HIDE DEF u, v
    <2>4. \A i \in 1..k : u[i] = v[i]
        <3> SUFFICES ASSUME NEW i \in 1..k PROVE u[i] = v[i]
            OBVIOUS
        <3>1. a + i \in 1..(p + q) /\ a + i <= p
            BY <1>2, <1>4
        <3> QED BY <1>1, <2>2, <2>3, <3>1
    <2>5. u = v
        BY <2>2, <2>3, <2>4, SeqEqual
    <2> QED BY <2>5 DEF u, v
<1> QED BY <1>1, <1>2, <1>3, <1>4 DEF z, p, q

\* z is what p bytes x and q bytes y make together.
Adjoined(x, y, z, p, q) ==
    z = x \o y /\ x \in Seq(Bytes) /\ y \in Seq(Bytes) /\ Len(x) = p /\ Len(y) = q

LEMMA AdjoinedType ==
    \A x, y, z, p, q : Adjoined(x, y, z, p, q) =>
        z \in Seq(Bytes) /\ Len(z) = p + q /\ Slice(z, p, q) = y
<1> SUFFICES ASSUME NEW x, NEW y, NEW z, NEW p, NEW q, Adjoined(x, y, z, p, q)
             PROVE  z \in Seq(Bytes) /\ Len(z) = p + q /\ Slice(z, p, q) = y
    OBVIOUS
<1>1. x \in Seq(Bytes) /\ y \in Seq(Bytes)
    BY DEF Adjoined
<1>2. /\ x \o y \in Seq(Bytes) /\ Len(x \o y) = Len(x) + Len(y)
      /\ Slice(x \o y, Len(x), Len(y)) = y
    BY <1>1, SliceOfConcat
<1> QED BY <1>2 DEF Adjoined

LEMMA AdjoinedSlice ==
    \A x, y, z, p, q : Adjoined(x, y, z, p, q) =>
        \A a, k \in Nat : a + k <= p => Slice(z, a, k) = Slice(x, a, k)
<1> SUFFICES ASSUME NEW x, NEW y, NEW z, NEW p, NEW q, Adjoined(x, y, z, p, q)
             PROVE  \A a, k \in Nat : a + k <= p => Slice(z, a, k) = Slice(x, a, k)
    OBVIOUS
<1>1. x \in Seq(Bytes) /\ y \in Seq(Bytes)
    BY DEF Adjoined
<1>2. \A a, k \in Nat : a + k <= Len(x) => Slice(x \o y, a, k) = Slice(x, a, k)
    BY <1>1, SliceOfConcat
<1> QED BY <1>2 DEF Adjoined

\* An assembled datagram is accepted, to its last byte.
LEMMA AssembledAccepted ==
    ASSUME NEW type \in Bytes, NEW sender \in Seq(Bytes), Len(sender) = ID,
           NEW timestamp \in Nat, NEW nonce \in Nat,
           NEW payload \in Seq(Bytes), Len(payload) <= MAX_PAYLOAD_SIZE,
           NEW r \in Nat, NEW t \in Nat,
           NEW data,
           data = Serialize([version |-> PROTOCOL_VERSION, type |-> type, sender |-> sender,
                             timestamp |-> timestamp, nonce |-> nonce, payload |-> payload,
                             signature |-> <<r, t>>])
    PROVE  /\ data \in Seq(Bytes) /\ Accepted(data)
           /\ Len(data) = Body(data) + HALF + 2 * COORD
<1> DEFINE L == Len(payload)
           d4 == Digits(timestamp, QUAD)
           d5 == Digits(nonce, QUAD)
           d6 == Digits(L, WORD)
           d8 == Digits(2 * COORD, HALF)
           d9 == Digits(r, COORD)
           d10 == Digits(t, COORD)
           p2 == <<PROTOCOL_VERSION, type>>
           p3 == p2 \o sender
           p4 == p3 \o d4
           p5 == p4 \o d5
           p6 == p5 \o d6
           p7 == p6 \o payload
           p8 == p7 \o d8
           p9 == p8 \o d9
           p10 == p9 \o d10
<1>1. data = p10
    BY DEF Serialize, HeaderAndPayload
<1>2. L \in Nat /\ 2 * COORD \in Nat /\ L < Power[WORD] /\ 2 * COORD < Power[HALF]
      /\ L <= MAX_PAYLOAD_SIZE
    <2>1. Power[WORD] \in Nat
        BY PowerType, WidthsArePositive
    <2> HIDE DEF L
    <2>2. L \in Nat
        BY DEF L
    <2> QED BY <2>1, <2>2, WidthsArePositive, WireAssumption DEF L
<1>3. /\ d4 \in Seq(Bytes) /\ Len(d4) = QUAD /\ d5 \in Seq(Bytes) /\ Len(d5) = QUAD
      /\ d6 \in Seq(Bytes) /\ Len(d6) = WORD /\ d8 \in Seq(Bytes) /\ Len(d8) = HALF
      /\ d9 \in Seq(Bytes) /\ Len(d9) = COORD /\ d10 \in Seq(Bytes) /\ Len(d10) = COORD
    <2> HIDE DEF L
    <2> QED BY <1>2, DigitsType, WidthsArePositive
<1>4. Number[d6] = L /\ Number[d8] = 2 * COORD
    <2>1. ASSUME NEW m \in Nat, NEW w \in Nat, m < Power[w] PROVE Number[Digits(m, w)] = m
        <3>1. Number[Digits(m, w)] = m % Power[w]
            BY NumberOfDigits
        <3>2. Power[w] \in Nat /\ Power[w] > 0
            BY PowerType
        <3> QED BY <2>1, <3>1, <3>2, SmallRemainder
    <2> HIDE DEF L
    <2> QED BY <1>2, <2>1, WidthsArePositive
<1>5. p2 \in Seq(Bytes) /\ Len(p2) = 2 /\ p2[1] = PROTOCOL_VERSION
    BY ByteIsPositive DEF PROTOCOL_VERSION
<1> DEFINE o4 == 2 + ID + QUAD
           o5 == o4 + QUAD
           o6 == o5 + WORD
           o7 == o6 + L
           o8 == o7 + HALF
           o9 == o8 + COORD
<1>6. /\ o4 \in Nat /\ o5 = 2 + ID + 2 * QUAD /\ o5 \in Nat /\ o6 = HEADER_SIZE /\ o6 \in Nat
      /\ o7 = HEADER_SIZE + L /\ o7 \in Nat /\ o8 \in Nat /\ o9 \in Nat
      /\ 2 + ID <= o4 /\ o4 <= o5 /\ o5 + WORD = o6 /\ o6 <= o7 /\ o7 + HALF = o8 /\ o8 <= o9
      /\ o9 + COORD = o7 + HALF + 2 * COORD /\ o6 <= o9 + COORD /\ 2 <= 2 + ID
    <2> HIDE DEF L
    <2> QED BY <1>2, HeaderType, WidthsArePositive
<1> HIDE DEF L, d4, d5, d6, d8, d9, d10, p2, p3, p4, p5, p6, p7, p8, p9, p10
<1> HIDE DEF o4, o5, o6, o7, o8, o9
<1>7. Adjoined(p2, sender, p3, 2, ID)
    BY <1>5 DEF Adjoined, p3
<1>8. p3 \in Seq(Bytes) /\ Len(p3) = 2 + ID
    BY <1>7, AdjoinedType
<1>9. Adjoined(p3, d4, p4, 2 + ID, QUAD)
    BY <1>3, <1>8 DEF Adjoined, p4
<1>10. p4 \in Seq(Bytes) /\ Len(p4) = o4
    BY <1>9, AdjoinedType DEF o4
<1>11. Adjoined(p4, d5, p5, o4, QUAD)
    BY <1>3, <1>10 DEF Adjoined, p5
<1>12. p5 \in Seq(Bytes) /\ Len(p5) = o5
    BY <1>11, AdjoinedType DEF o5
<1>13. Adjoined(p5, d6, p6, o5, WORD)
    BY <1>3, <1>12 DEF Adjoined, p6
<1>14. p6 \in Seq(Bytes) /\ Len(p6) = o6 /\ Slice(p6, o5, WORD) = d6
    BY <1>13, AdjoinedType DEF o6
<1>15. Adjoined(p6, payload, p7, o6, L)
    BY <1>14 DEF Adjoined, p7, L
<1>16. p7 \in Seq(Bytes) /\ Len(p7) = o7
    BY <1>15, AdjoinedType DEF o7
<1>17. Adjoined(p7, d8, p8, o7, HALF)
    BY <1>3, <1>16 DEF Adjoined, p8
<1>18. p8 \in Seq(Bytes) /\ Len(p8) = o8 /\ Slice(p8, o7, HALF) = d8
    BY <1>17, AdjoinedType DEF o8
<1>19. Adjoined(p8, d9, p9, o8, COORD)
    BY <1>3, <1>18 DEF Adjoined, p9
<1>20. p9 \in Seq(Bytes) /\ Len(p9) = o9
    BY <1>19, AdjoinedType DEF o9
<1>21. Adjoined(p9, d10, p10, o9, COORD)
    BY <1>3, <1>20 DEF Adjoined, p10
<1>22. p10 \in Seq(Bytes) /\ Len(p10) = o9 + COORD
    BY <1>21, AdjoinedType
<1>23. ASSUME NEW a \in Nat, NEW k \in Nat, a + k <= o8
       PROVE  Slice(p10, a, k) = Slice(p8, a, k)
    <2>1. a + k <= o9
        BY <1>6, <1>23
    <2>2. Slice(p9, a, k) = Slice(p8, a, k)
        BY <1>19, <1>23, AdjoinedSlice
    <2>3. Slice(p10, a, k) = Slice(p9, a, k)
        BY <1>21, <2>1, AdjoinedSlice
    <2> QED BY <2>2, <2>3
<1>24. ASSUME NEW a \in Nat, NEW k \in Nat, a + k <= o6
       PROVE  Slice(p10, a, k) = Slice(p6, a, k)
    <2>1. a + k <= o7 /\ a + k <= o8
        BY <1>6, <1>24, WidthsArePositive
    <2>2. Slice(p7, a, k) = Slice(p6, a, k)
        BY <1>15, <1>24, AdjoinedSlice
    <2>3. Slice(p8, a, k) = Slice(p7, a, k)
        BY <1>17, <2>1, AdjoinedSlice
    <2> QED BY <1>23, <2>1, <2>2, <2>3
<1>25. Slice(p10, o7, HALF) = d8 /\ Slice(p10, o5, WORD) = d6
    <2>1. o7 + HALF <= o8 /\ o5 + WORD <= o6 /\ HALF \in Nat /\ WORD \in Nat
        BY <1>6, WidthsArePositive
    <2>2. Slice(p10, o7, HALF) = Slice(p8, o7, HALF)
        BY <1>6, <1>23, <2>1
    <2>3. Slice(p10, o5, WORD) = Slice(p6, o5, WORD)
        BY <1>6, <1>24, <2>1
    <2> QED BY <1>14, <1>18, <2>2, <2>3
<1>26. PayloadLen(p10) = L /\ Body(p10) = o7
    BY <1>4, <1>6, <1>25 DEF PayloadLen, Body
<1>27. p10[1] = PROTOCOL_VERSION
    <2>1. /\ 0 \in Nat /\ 2 \in Nat /\ 0 + 2 <= 2 /\ 0 + 2 <= 2 + ID /\ 0 + 2 <= o4
          /\ 0 + 2 <= o5 /\ 0 + 2 <= o6 /\ 2 <= Len(p2) /\ 2 <= Len(p10)
        BY <1>5, <1>6, <1>22, WidthsArePositive
    <2>2. Slice(p10, 0, 2) = Slice(p6, 0, 2)
        BY <1>24, <2>1
    <2>3. Slice(p6, 0, 2) = Slice(p5, 0, 2)
        BY <1>13, <2>1, AdjoinedSlice
    <2>4. Slice(p5, 0, 2) = Slice(p4, 0, 2)
        BY <1>11, <2>1, AdjoinedSlice
    <2>5. Slice(p4, 0, 2) = Slice(p3, 0, 2)
        BY <1>9, <2>1, AdjoinedSlice
    <2>6. Slice(p3, 0, 2) = Slice(p2, 0, 2)
        BY <1>7, <2>1, AdjoinedSlice
    <2>7. \A w \in Seq(Bytes) : 2 <= Len(w) => Slice(w, 0, 2)[1] = w[1]
        <3>1. \A w \in Seq(Bytes) : 2 <= Len(w) => Slice(w, 0, 2) = <<w[1], w[2]>>
            BY TwoBytes
        <3> QED BY <3>1
    <2>8. Slice(p10, 0, 2)[1] = p10[1] /\ Slice(p2, 0, 2)[1] = p2[1]
        BY <1>5, <1>22, <2>1, <2>7
    <2> QED BY <1>5, <2>2, <2>3, <2>4, <2>5, <2>6, <2>8
<1>28. Len(p10) = Body(p10) + HALF + 2 * COORD /\ Len(p10) >= HEADER_SIZE
       /\ Body(p10) + HALF + 2 * COORD <= Len(p10)
    BY <1>6, <1>22, <1>26, WidthsArePositive
<1>29. Accepted(p10)
    BY <1>2, <1>4, <1>25, <1>26, <1>27, <1>28 DEF Accepted
<1> QED BY <1>1, <1>22, <1>28, <1>29

\* Whatever comes in, it is a sequence of bytes.
LEMMA ArrivingType ==
    ASSUME Datagram \in Seq(Bytes)
    PROVE  Arriving \subseteq Seq(Bytes)
<1> DEFINE d == Datagram
<1>1. d \in Seq(Bytes) /\ 0..(BYTE - 1) = Bytes /\ DOMAIN d = 1..Len(d) /\ Len(d) \in Nat
    BY LenProperties DEF Bytes
<1> HIDE DEF d
<1>2. \A i \in DOMAIN d, b \in Bytes : [d EXCEPT ![i] = b] \in Seq(Bytes)
    BY <1>1, ExceptSeq
<1>3. ASSUME NEW cut \in 0..(Len(d) - 1) PROVE SubSeq(d, 1, cut) \in Seq(Bytes)
    <2>1. 1 \in Int /\ cut \in Int /\ \A i \in 1..cut : i \in 1..Len(d)
        BY <1>1
    <2>2. \A i \in 1..cut : d[i] \in Bytes
        BY <1>1, <2>1, ElementOfSeq
    <2> QED BY <2>1, <2>2, SubSeqProperties
<1>4. \A b \in Bytes : Append(d, b) \in Seq(Bytes)
    BY <1>1
<1>5. Arriving = {[d EXCEPT ![i] = b] : i \in DOMAIN d, b \in Bytes}
                     \cup {SubSeq(d, 1, cut) : cut \in 0..(Len(d) - 1)}
                     \cup {Append(d, b) : b \in Bytes}
    BY DEF Arriving, d, Bytes
<1>6. {[d EXCEPT ![i] = b] : i \in DOMAIN d, b \in Bytes} \subseteq Seq(Bytes)
    BY <1>2
<1>7. {SubSeq(d, 1, cut) : cut \in 0..(Len(d) - 1)} \subseteq Seq(Bytes)
    BY <1>3
<1>8. {Append(d, b) : b \in Bytes} \subseteq Seq(Bytes)
    BY <1>4
<1> QED BY <1>5, <1>6, <1>7, <1>8

\* protocol.py:71-124: whatever n makes of the fields of a datagram, it is
\* accepted as it was sent; and whenever a datagram is accepted, whether it is
\* the one sent or that one with a byte changed, cut off or added, the bytes
\* packed anew from its fields are the bytes that came in.
THEOREM SignedBytesAlwaysSurvive == Spec => []SignedBytesSurvive
<1>1. Natural => SignedBytesSurvive
    <2> SUFFICES ASSUME Natural PROVE SignedBytesSurvive
        OBVIOUS
    <2> DEFINE mod(m, b) == m % b
               data == Datagram
    <2>1. \A m \in Nat, b \in Nat : b > 0 => mod(m, b) \in Nat /\ mod(m, b) < b
        OBVIOUS
    <2>2. /\ n \in Nat /\ 3 * n \in Nat /\ 5 * n \in Nat /\ 11 * n \in Nat
          /\ BYTE > 0 /\ BYTE \in Nat /\ MAX_PAYLOAD_SIZE + 1 \in Nat /\ MAX_PAYLOAD_SIZE + 1 > 0
          /\ Power[QUAD] \in Nat /\ Power[QUAD] > 0 /\ Power[COORD] \in Nat /\ Power[COORD] > 0
        BY ByteIsPositive, WidthsArePositive, PowerType, WireAssumption DEF Natural
    <2> HIDE DEF mod
    <2>3. /\ mod(n, BYTE) \in Nat /\ mod(n, BYTE) < BYTE
          /\ mod(n, Power[QUAD]) \in Nat /\ mod(5 * n, Power[QUAD]) \in Nat
          /\ mod(3 * n, Power[COORD]) \in Nat /\ mod(11 * n, Power[COORD]) \in Nat
          /\ mod(n, MAX_PAYLOAD_SIZE + 1) \in Nat
          /\ mod(n, MAX_PAYLOAD_SIZE + 1) < MAX_PAYLOAD_SIZE + 1
        BY <2>1, <2>2
    <2> DEFINE type == mod(n, BYTE)
               sender == Name(3 * n)
               timestamp == mod(n, Power[QUAD])
               nonce == mod(5 * n, Power[QUAD])
               k == mod(n, MAX_PAYLOAD_SIZE + 1)
               payload == Digits(n, k)
               r == mod(3 * n, Power[COORD])
               t == mod(11 * n, Power[COORD])
    <2>4. type \in Bytes /\ k <= MAX_PAYLOAD_SIZE /\ k \in Nat
        <3> HIDE DEF type, k
        <3>1. type \in Nat /\ type < BYTE /\ k \in Nat /\ k < MAX_PAYLOAD_SIZE + 1
            BY <2>3 DEF type, k
        <3> QED BY <3>1, <2>2, WireAssumption DEF Bytes
    <2>5. sender \in Seq(Bytes) /\ Len(sender) = ID
        BY <2>2, DigitsType, WidthsArePositive DEF Name
    <2>6. payload \in Seq(Bytes) /\ Len(payload) <= MAX_PAYLOAD_SIZE
        <3> HIDE DEF k
        <3>1. Digits(n, k) \in Seq(Bytes) /\ Len(Digits(n, k)) = k
            BY <2>2, <2>4, DigitsType
        <3> QED BY <2>4, <3>1
    <2>7. data = Serialize([version |-> PROTOCOL_VERSION, type |-> type, sender |-> sender,
                            timestamp |-> timestamp, nonce |-> nonce, payload |-> payload,
                            signature |-> <<r, t>>])
        BY DEF Datagram, mod
    <2> HIDE DEF data
    <2>8. /\ data \in Seq(Bytes) /\ Accepted(data)
          /\ Len(data) = Body(data) + HALF + 2 * COORD
        <3>1. timestamp \in Nat /\ nonce \in Nat /\ r \in Nat /\ t \in Nat
            BY <2>3
        <3> HIDE DEF type, sender, timestamp, nonce, payload, r, t
        <3> QED BY <2>4, <2>5, <2>6, <2>7, <3>1, AssembledAccepted
    <2>9. Deserialize(data).at = Len(data)
        BY <2>8, Deserialized
    <2>10. Arriving \subseteq Seq(Bytes)
        BY <2>8, ArrivingType DEF data
    <2>11. ASSUME NEW d \in Arriving, Deserialize(d).at >= 0
           PROVE  Serialize(Deserialize(d).value) = SubSeq(d, 1, Deserialize(d).at)
        <3>1. d \in Seq(Bytes)
            BY <2>10
        <3>2. Accepted(d)
            BY <2>11, <3>1, Deserialized
        <3>3. Deserialize(d).at = Body(d) + HALF + 2 * COORD /\ Deserialize(d).value = Fields(d)
            BY <3>1, <3>2, Deserialized
        <3>4. Serialize(Fields(d)) = SubSeq(d, 1, Body(d) + HALF + 2 * COORD)
            BY <3>1, <3>2, BytesKept
        <3> QED BY <3>3, <3>4
    <2> QED BY <2>9, <2>11 DEF SignedBytesSurvive, data
<1> QED BY <1>1, AlwaysNatural, PTL

-----------------------------------------------------------------------------
(* Fields.                                                                 *)

\* The bytes of e stand at offset at of data, as far as data goes.
Agrees(data, at, e) ==
    \A i \in 1..Len(e) : at + i <= Len(data) => data[at + i] = e[i]

\* What a decoder makes of them: v, unless data ends before they do.
Expect(data, at, e, v) ==
    IF at + Len(e) <= Len(data) THEN Done(v, at + Len(e)) ELSE Refused

LEMMA AgreesConcat ==
    ASSUME NEW data \in Seq(Bytes), NEW at \in Nat,
           NEW x \in Seq(Bytes), NEW y \in Seq(Bytes), Agrees(data, at, x \o y)
    PROVE  Agrees(data, at, x) /\ Agrees(data, at + Len(x), y)
<1> DEFINE z == x \o y
           p == Len(x)
           q == Len(y)
<1>1. /\ Len(z) = p + q /\ p \in Nat /\ q \in Nat
      /\ \A i \in 1..(p + q) : z[i] = IF i <= p THEN x[i] ELSE y[i - p]
    BY ConcatProperties
<1> HIDE DEF z, p, q
<1>2. \A i \in 1..(p + q) : at + i <= Len(data) => data[at + i] = z[i]
    BY <1>1 DEF Agrees, z
<1>3. ASSUME NEW i \in 1..p, at + i <= Len(data) PROVE data[at + i] = x[i]
    <2>1. i \in 1..(p + q) /\ i <= p
        BY <1>1
    <2> QED BY <1>1, <1>2, <1>3, <2>1
<1>4. ASSUME NEW i \in 1..q, (at + p) + i <= Len(data) PROVE data[(at + p) + i] = y[i]
    <2>1. p + i \in 1..(p + q) /\ ~(p + i <= p) /\ (p + i) - p = i /\ at + (p + i) = (at + p) + i
        BY <1>1
    <2> QED BY <1>1, <1>2, <1>4, <2>1
<1> QED BY <1>3, <1>4 DEF Agrees, p, q

Within(data, a, k) == data \in Seq(Bytes) /\ a \in Nat /\ k \in Nat /\ a + k <= Len(data)

LEMMA SliceWithin ==
    \A data, a, k : Within(data, a, k) =>
        /\ Slice(data, a, k) \in Seq(Bytes) /\ Len(Slice(data, a, k)) = k
        /\ \A i \in 1..k : Slice(data, a, k)[i] = data[a + i]
<1> SUFFICES ASSUME NEW data, NEW a, NEW k, Within(data, a, k)
             PROVE  /\ Slice(data, a, k) \in Seq(Bytes) /\ Len(Slice(data, a, k)) = k
                    /\ \A i \in 1..k : Slice(data, a, k)[i] = data[a + i]
    OBVIOUS
<1>1. data \in Seq(Bytes) /\ a \in Nat /\ k \in Nat /\ a + k <= Len(data)
    BY DEF Within
<1> QED BY <1>1, SliceType

LEMMA ExactlyRead ==
    ASSUME NEW data \in Seq(Bytes), NEW at \in Nat, NEW e \in Seq(Bytes), Agrees(data, at, e)
    PROVE  Exactly(data, at, Len(e)) = Expect(data, at, e, e)
<1>1. Len(e) \in Nat /\ Len(data) \in Nat
    OBVIOUS
<1>2. CASE at + Len(e) > Len(data)
    BY <1>1, <1>2 DEF Exactly, Expect
<1>3. CASE at + Len(e) <= Len(data)
    <2> DEFINE k == Len(e)
               s == Slice(data, at, k)
    <2>1. k \in Nat /\ Len(e) = k /\ at + k <= Len(data)
        BY <1>1, <1>3
    <2> HIDE DEF k
    <2>2. s \in Seq(Bytes) /\ Len(s) = k /\ \A i \in 1..k : s[i] = data[at + i]
        <3>1. Within(data, at, k)
            BY <2>1 DEF Within
        <3> QED BY <3>1, SliceWithin
    <2> HIDE DEF s
    <2>3. \A i \in 1..k : s[i] = e[i]
        <3> SUFFICES ASSUME NEW i \in 1..k PROVE s[i] = e[i]
            OBVIOUS
        <3>1. at + i <= Len(data)
            BY <1>1, <2>1
        <3> QED BY <2>1, <2>2, <3>1 DEF Agrees
    <2>4. s = e
        BY <2>1, <2>2, <2>3, SeqEqual
    <2> QED BY <1>1, <1>3, <2>4 DEF Exactly, Expect, s, k
<1> QED BY <1>1, <1>2, <1>3

LEMMA NumberRead ==
    ASSUME NEW m \in Nat, NEW w \in Nat, m < Power[w]
    PROVE  Number[Digits(m, w)] = m
<1>1. Number[Digits(m, w)] = m % Power[w]
    BY NumberOfDigits
<1>2. Power[w] \in Nat /\ Power[w] > 0
    BY PowerType
<1> QED BY <1>1, <1>2, SmallRemainder

LEMMA UnpackRead ==
    ASSUME NEW data \in Seq(Bytes), NEW at \in Nat, NEW m \in Nat, NEW w \in Nat,
           m < Power[w], Agrees(data, at, Digits(m, w))
    PROVE  Unpack(data, at, w) = Expect(data, at, Digits(m, w), m)
<1> DEFINE e == Digits(m, w)
<1>1. e \in Seq(Bytes) /\ Len(e) = w
    BY DigitsType
<1>2. Number[e] = m
    BY NumberRead
<1> HIDE DEF e
<1>3. Exactly(data, at, w) = Expect(data, at, e, e)
    BY <1>1, ExactlyRead DEF e
<1>4. CASE at + Len(e) <= Len(data)
    <2>1. Exactly(data, at, w).value = e /\ Exactly(data, at, w).at = at + w
        BY <1>1, <1>3, <1>4 DEF Expect, Done
    <2>2. ~(at + w < 0)
        OBVIOUS
    <2> QED BY <1>1, <1>2, <1>4, <2>1, <2>2 DEF Unpack, Then, Expect, e
<1>5. CASE ~(at + Len(e) <= Len(data))
    <2>1. Exactly(data, at, w) = Refused
        BY <1>3, <1>5 DEF Expect
    <2> QED BY <1>5, <2>1 DEF Unpack, Then, Expect, Refused, Done, e
<1> QED BY <1>4, <1>5

LEMMA BytesRead ==
    ASSUME NEW raw \in Seq(Bytes), Len(raw) < Power[WORD]
    PROVE  /\ EncodeBytes(raw) \in Seq(Bytes) /\ Len(EncodeBytes(raw)) = WORD + Len(raw)
           /\ \A data \in Seq(Bytes), at \in Nat :
                  Agrees(data, at, EncodeBytes(raw)) =>
                      DecodeBytes(data, at) = Expect(data, at, EncodeBytes(raw), raw)
<1> DEFINE k == Len(raw)
           d == Digits(k, WORD)
           e == EncodeBytes(raw)
<1>1. k \in Nat /\ WORD \in Nat
    BY WidthsArePositive
<1>2. d \in Seq(Bytes) /\ Len(d) = WORD
    <2> HIDE DEF k
    <2> QED BY <1>1, DigitsType
<1>3. e = d \o raw
    BY DEF EncodeBytes
<1> HIDE DEF d, e
<1>4. e \in Seq(Bytes) /\ Len(e) = WORD + k
    BY <1>2, <1>3, ConcatProperties
<1>5. ASSUME NEW data \in Seq(Bytes), NEW at \in Nat, Agrees(data, at, e)
      PROVE  DecodeBytes(data, at) = Expect(data, at, e, raw)
    <2> DEFINE b == at + WORD
               u == Unpack(data, at, WORD)
    <2>1. Agrees(data, at, d) /\ Agrees(data, b, raw)
        BY <1>2, <1>3, <1>5, AgreesConcat
    <2>2. u = Expect(data, at, d, k)
        BY <1>1, <2>1, UnpackRead DEF d
    <2>3. b \in Nat /\ Len(data) \in Nat
        BY <1>1
    <2>4. Exactly(data, b, k) = Expect(data, b, raw, raw)
        BY <2>1, <2>3, ExactlyRead
    <2>5. b + k = at + Len(e)
        BY <1>1, <1>4
    <2>6. CASE b <= Len(data)
        <3>1. u.value = k /\ u.at = b /\ ~(b < 0)
            BY <1>2, <2>2, <2>3, <2>6 DEF Expect, Done
        <3>2. DecodeBytes(data, at) = Exactly(data, b, k)
            BY <3>1 DEF DecodeBytes, Then
        <3> QED BY <2>4, <2>5, <3>2 DEF Expect
    <2>7. CASE ~(b <= Len(data))
        <3>1. u = Refused
            BY <1>2, <2>2, <2>7 DEF Expect
        <3>2. DecodeBytes(data, at) = Refused
            BY <3>1 DEF DecodeBytes, Then, Refused, Done
        <3>3. ~(at + Len(e) <= Len(data))
            BY <1>1, <2>3, <2>5, <2>7
        <3> QED BY <3>2, <3>3 DEF Expect
    <2> QED BY <2>6, <2>7
<1> QED BY <1>4, <1>5 DEF e

-----------------------------------------------------------------------------
(* Numbers of any size.                                                    *)

LEMMA PowerGrows == \A k \in Nat : Power[k] \in Nat /\ Power[k] > 2 * k
<1> DEFINE T == {k \in Nat : Power[k] > 2 * k}
<1>1. 0 \in T
    BY PowerStep
<1>2. ASSUME NEW k \in Nat, k \in T PROVE k + 1 \in T
    <2> DEFINE p == Power[k]
               q == Power[k + 1]
    <2>1. p \in Nat /\ p > 2 * k /\ q = BYTE * p
        BY <1>2, PowerType
    <2> HIDE DEF p, q
    <2>2. BYTE * p >= 4 * p
        BY <2>1, WireAssumption
    <2>3. q >= 4 * p
        BY <2>1, <2>2
    <2>4. q \in Nat
        BY <2>1, ByteIsPositive
    <2>5. q > 2 * (k + 1)
        BY <2>1, <2>3, <2>4
    <2> QED BY <2>5 DEF q
<1> HIDE DEF T
<1>3. Nat \subseteq T
    BY <1>1, <1>2, NumberInduction
<1> QED BY <1>3, PowerType DEF T

LEMMA PowerMonotone ==
    ASSUME NEW a \in Nat, NEW b \in Nat, a <= b
    PROVE  Power[a] <= Power[b]
<1> DEFINE T == {d \in Nat : Power[a] <= Power[a + d]}
<1>1. 0 \in T
    <2>1. a + 0 = a /\ Power[a] \in Nat
        BY PowerType
    <2> QED BY <2>1
<1>2. ASSUME NEW d \in Nat, d \in T PROVE d + 1 \in T
    <2> DEFINE p == Power[a + d]
               q == Power[a + (d + 1)]
    <2>1. a + d \in Nat /\ (a + d) + 1 = a + (d + 1)
        OBVIOUS
    <2>2. p \in Nat /\ p > 0 /\ q = BYTE * p /\ Power[a] <= p /\ Power[a] \in Nat
        BY <1>2, <2>1, PowerType
    <2> HIDE DEF p, q
    <2>3. BYTE * p >= p /\ BYTE * p \in Nat
        BY <2>2, ByteIsPositive
    <2>4. q >= p /\ q \in Nat
        BY <2>2, <2>3
    <2>5. Power[a] <= q
        BY <2>2, <2>4
    <2> QED BY <2>5 DEF q
<1> HIDE DEF T
<1>3. Nat \subseteq T
    BY <1>1, <1>2, NumberInduction
<1>4. b - a \in Nat /\ a + (b - a) = b
    OBVIOUS
<1>5. b - a \in T
    BY <1>3, <1>4
<1> QED BY <1>4, <1>5 DEF T

\* What the bytes of v must be able to hold.
Span(v) == IF v < 0 THEN -2 * v ELSE v

\* Magnitude is the least number of bytes that hold v, and there is one.
LEMMA MagnitudeProperties ==
    ASSUME NEW v \in Int
    PROVE  /\ Magnitude(v) \in Nat /\ Magnitude(v) > 0 /\ Span(v) \in Nat
           /\ Magnitude(v) <= IF v < 0 THEN 1 - v ELSE v + 1
           /\ Span(v) < Power[Magnitude(v)]
           /\ \A j \in Nat : j > 0 /\ Span(v) < Power[j] => Magnitude(v) <= j
<1> DEFINE top == IF v < 0 THEN 1 - v ELSE v + 1
           s == Span(v)
           T == {k \in Nat : k > 0 /\ s < Power[k]}
           fits(k) == /\ s < Power[k]
                      /\ k > 1 => s >= Power[k - 1]
<1>1. top \in Nat /\ top > 0 /\ s \in Nat /\ 2 * top > s
    BY DEF Span
<1>2. Magnitude(v) = CHOOSE k \in 1..top : fits(k)
    <2>1. CASE v < 0
        BY <2>1 DEF Magnitude, Span
    <2>2. CASE ~(v < 0)
        BY <2>2 DEF Magnitude, Span
    <2> QED BY <2>1, <2>2
<1> HIDE DEF s, top
<1>3. top \in T
    BY <1>1, PowerGrows
<1>4. PICK x \in T : \A y \in T : x <= y
    BY <1>3, LeastIsThere
<1>5. x \in 1..top
    BY <1>1, <1>3, <1>4
<1>6. fits(x)
    <2>1. ASSUME x > 1, ~(s >= Power[x - 1]) PROVE FALSE
        <3>1. x - 1 \in Nat /\ x - 1 > 0
            BY <2>1
        <3>2. Power[x - 1] \in Nat
            BY <3>1, PowerType
        <3>3. x - 1 \in T
            BY <1>1, <2>1, <3>1, <3>2
        <3>4. x <= x - 1
            BY <1>4, <3>3
        <3> QED BY <3>4
    <2> QED BY <2>1
<1> DEFINE k == Magnitude(v)
<1>7. k \in 1..top /\ fits(k)
    <2> HIDE DEF fits
    <2> QED BY <1>2, <1>5, <1>6
<1> HIDE DEF k
<1>8. ASSUME NEW j \in Nat, j > 0, s < Power[j] PROVE k <= j
    <2> SUFFICES ASSUME j < k PROVE FALSE
        BY <1>1, <1>7
    <2>1. k - 1 \in Nat /\ j <= k - 1 /\ k > 1
        BY <1>1, <1>7, <1>8
    <2>2. Power[j] <= Power[k - 1] /\ s >= Power[k - 1]
        BY <1>7, <2>1, PowerMonotone
    <2>3. Power[j] \in Nat /\ Power[k - 1] \in Nat
        BY <2>1, PowerType
    <2> QED BY <1>1, <1>8, <2>2, <2>3
<1> QED BY <1>1, <1>7, <1>8 DEF k, s, top

LEMMA MagnitudeMonotone ==
    ASSUME NEW v \in Int, NEW w \in Int, Span(v) <= Span(w)
    PROVE  Magnitude(v) <= Magnitude(w)
<1>1. Magnitude(w) \in Nat /\ Magnitude(w) > 0 /\ Span(w) \in Nat /\ Span(v) \in Nat
    BY MagnitudeProperties
<1>2. Span(w) < Power[Magnitude(w)]
    BY MagnitudeProperties
<1>3. Power[Magnitude(w)] \in Nat
    BY <1>1, PowerType
<1>4. Span(v) < Power[Magnitude(w)]
    BY <1>1, <1>2, <1>3
<1> QED BY <1>1, <1>4, MagnitudeProperties

\* A negative number is read back as its two's complement.
LEMMA ReadBackValue ==
    ASSUME NEW v \in Int
    PROVE  ReadBack(v) = IF v < 0 THEN Power[Magnitude(v)] + v ELSE v
<1>1. CASE v < 0
    <2> DEFINE k == Magnitude(v)
               s == -2 * v
               least(i) == s < Power[i] /\ \A j \in 1..(i - 1) : s >= Power[j]
               c == CHOOSE i \in 1..(1 - v) : least(i)
    <2>1. /\ k \in Nat /\ k > 0 /\ k <= 1 - v /\ s < Power[k] /\ s \in Nat
          /\ \A j \in Nat : j > 0 /\ s < Power[j] => k <= j
        <3>1. Span(v) = s
            BY <1>1 DEF Span
        <3> QED BY <1>1, <3>1, MagnitudeProperties
    <2> HIDE DEF k, s
    <2>2. least(k)
        <3>1. ASSUME NEW j \in 1..(k - 1), ~(s >= Power[j]) PROVE FALSE
            <4>1. j \in Nat /\ j > 0 /\ ~(k <= j) /\ Power[j] \in Nat
                BY <2>1, PowerType
            <4> QED BY <2>1, <3>1, <4>1
        <3> QED BY <2>1, <3>1
    <2>3. k \in 1..(1 - v)
        BY <1>1, <2>1
    <2>4. c \in 1..(1 - v) /\ least(c)
        <3> HIDE DEF least
        <3> QED BY <2>2, <2>3
    <2>5. ReadBack(v) = v + Power[c]
        BY <1>1 DEF ReadBack, s
    <2> HIDE DEF c
    <2>6. c \in Nat /\ c > 0 /\ s < Power[c] /\ \A j \in 1..(c - 1) : s >= Power[j]
        BY <1>1, <2>4
    <2>7. k <= c
        BY <2>1, <2>6
    <2>8. ~(k < c)
        <3> SUFFICES ASSUME k < c PROVE FALSE
            OBVIOUS
        <3>1. k \in 1..(c - 1)
            BY <2>1, <2>6
        <3>2. s >= Power[k] /\ Power[k] \in Nat
            BY <2>1, <2>6, <3>1, PowerType
        <3> QED BY <2>1, <3>2
    <2>9. c = k
        BY <2>1, <2>6, <2>7, <2>8
    <2>10. Power[k] \in Nat
        BY <2>1, PowerType
    <2> QED BY <1>1, <2>5, <2>9, <2>10 DEF k
<1>2. CASE ~(v < 0)
    BY <1>2 DEF ReadBack
<1> QED BY <1>1, <1>2

LEMMA BigintRead ==
    ASSUME NEW v \in Int, Magnitude(v) < Power[WORD]
    PROVE  /\ EncodeBigint(v) \in Seq(Bytes)
           /\ \A data \in Seq(Bytes), at \in Nat :
                  Agrees(data, at, EncodeBigint(v)) =>
                      DecodeBigint(data, at) = Expect(data, at, EncodeBigint(v), ReadBack(v))
<1> DEFINE k == Magnitude(v)
           m == IF v < 0 THEN Power[k] + v ELSE v
           raw == Digits(m, k)
           e == EncodeBigint(v)
<1>1. k \in Nat /\ k > 0 /\ Span(v) \in Nat /\ Span(v) < Power[k] /\ Power[k] \in Nat
    BY MagnitudeProperties, PowerType
<1>2. m \in Nat /\ m < Power[k]
    <2> HIDE DEF k
    <2> QED BY <1>1 DEF Span
<1>3. m = ReadBack(v)
    BY ReadBackValue
<1>4. e = EncodeBytes(raw)
    BY DEF EncodeBigint
<1> HIDE DEF k, m, e
<1>5. raw \in Seq(Bytes) /\ Len(raw) = k /\ Number[raw] = m
    BY <1>1, <1>2, DigitsType, NumberRead
<1> HIDE DEF raw
<1>6. Len(raw) < Power[WORD]
    BY <1>5 DEF k
<1>7. e \in Seq(Bytes) /\ Len(e) = WORD + Len(raw)
    BY <1>4, <1>5, <1>6, BytesRead
<1>8. ASSUME NEW data \in Seq(Bytes), NEW at \in Nat, Agrees(data, at, e)
      PROVE  DecodeBigint(data, at) = Expect(data, at, e, m)
    <2> DEFINE r == DecodeBytes(data, at)
               b == at + Len(e)
    <2>1. r = Expect(data, at, e, raw)
        BY <1>4, <1>5, <1>6, <1>8, BytesRead
    <2>2. b \in Nat
        BY <1>7
    <2>3. CASE b <= Len(data)
        <3>1. r.value = raw /\ r.at = b /\ ~(b < 0)
            BY <2>1, <2>2, <2>3 DEF Expect, Done
        <3>2. DecodeBigint(data, at) = Done(m, b)
            BY <1>5, <3>1 DEF DecodeBigint, Then
        <3> QED BY <2>3, <3>2 DEF Expect
    <2>4. CASE ~(b <= Len(data))
        <3>1. r = Refused
            BY <2>1, <2>4 DEF Expect
        <3> QED BY <2>4, <3>1 DEF Expect, DecodeBigint, Then, Refused, Done
    <2> QED BY <2>3, <2>4
<1> QED BY <1>3, <1>7, <1>8 DEF e

-----------------------------------------------------------------------------
(* Texts.                                                                  *)

\* A text becomes bytes, and bytes become characters, of these kinds.
Readable == Nat \cup {Wide}

LEMMA LeadAndContinuation ==
    /\ Lead \in Bytes /\ Continuation \in Bytes /\ Lead # Continuation /\ Continuation > 1
    /\ Lead > Continuation /\ 0..(Continuation - 1) \subseteq Bytes
    /\ \A b \in 0..(Continuation - 1) : b \in Nat /\ b # Lead /\ b # Continuation
<1> DEFINE c == BYTE \div 2
<1>1. BYTE \in Nat /\ BYTE >= 4
    BY WireAssumption
<1>2. c \in Nat /\ BYTE >= 2 * c /\ BYTE < 2 * c + 2
    BY <1>1
<1> HIDE DEF c
<1>3. c > 1 /\ c < BYTE - 1
    BY <1>1, <1>2
<1> QED BY <1>1, <1>2, <1>3 DEF Lead, Continuation, Bytes, c

\* What one character becomes, and one byte.
CharacterBytes(ch) == IF ch = Wide THEN <<Lead, Continuation>> ELSE <<ch>>
ByteCharacters(b) ==
    CASE b = Continuation -> <<>> [] b = Lead -> <<Wide>> [] OTHER -> <<b>>

LEMMA CharacterBytesType ==
    ASSUME NEW ch \in Character
    PROVE  CharacterBytes(ch) \in Seq(Bytes)
<1>1. CASE ch = Wide
    BY <1>1, LeadAndContinuation DEF CharacterBytes
<1>2. CASE ch # Wide
    <2>1. ch \in Bytes
        BY <1>2, LeadAndContinuation DEF Character
    <2> QED BY <1>2, <2>1 DEF CharacterBytes
<1> QED BY <1>1, <1>2

LEMMA ByteCharactersType ==
    ASSUME NEW b \in Nat
    PROVE  ByteCharacters(b) \in Seq(Readable)
<1>1. <<>> \in Seq(Readable) /\ <<Wide>> \in Seq(Readable) /\ <<b>> \in Seq(Readable)
    BY DEF Readable
<1> QED BY <1>1 DEF ByteCharacters

LEMMA Utf8Step ==
    /\ Utf8 \in [Seq(Character) -> Seq(Bytes)]
    /\ \A s \in Seq(Character) :
           Utf8[s] = IF s = <<>> THEN <<>> ELSE CharacterBytes(Head(s)) \o Utf8[Tail(s)]
<1> DEFINE D == Seq(Character)
           V == Seq(Bytes)
           m == [s \in Seq(Character) |-> Len(s)]
           step(s, g) == IF s = <<>> THEN <<>> ELSE CharacterBytes(Head(s)) \o g[Tail(s)]
           F == [g \in [D -> V] |-> [s \in D |-> step(s, g)]]
<1>1. /\ m \in [D -> Nat]
      /\ \A s \in D : s # <<>> => Head(s) \in Character /\ Tail(s) \in D /\ m[Tail(s)] < m[s]
    BY LengthMeasure
<1>2. ASSUME NEW g \in [D -> V], NEW s \in D PROVE step(s, g) \in V
    <2>1. CASE s = <<>>
        BY <2>1
    <2>2. CASE s # <<>>
        <3>1. CharacterBytes(Head(s)) \in Seq(Bytes)
            BY <1>1, <2>2, CharacterBytesType
        <3>2. g[Tail(s)] \in Seq(Bytes)
            BY <1>1, <2>2
        <3> QED BY <2>2, <3>1, <3>2, ConcatProperties
    <2> QED BY <2>1, <2>2
<1>3. \A g, h \in [D -> V] : \A s \in D :
          (\A y \in D : m[y] < m[s] => g[y] = h[y]) => F[g][s] = F[h][s]
    <2>1. ASSUME NEW g \in [D -> V], NEW h \in [D -> V], NEW s \in D,
                 \A y \in D : m[y] < m[s] => g[y] = h[y]
          PROVE  step(s, g) = step(s, h)
        <3>1. s # <<>> => g[Tail(s)] = h[Tail(s)]
            BY <1>1, <2>1
        <3> QED BY <3>1
    <2> HIDE DEF step, V
    <2> QED BY <2>1
<1>4. F \in [[D -> V] -> [D -> V]]
    <2> HIDE DEF step, V
    <2> QED BY <1>2
<1>5. PICK g \in [D -> V] : g = F[g]
    <2>1. V # {}
        BY EmptySeq
    <2> HIDE DEF F, D, m, V
    <2>2. Recursive(F, D, V, m)
        BY <1>1, <1>3, <1>4, <2>1 DEF Recursive
    <2> QED BY <2>2, RecursionExists
<1>6. g = [s \in Seq(Character) |-> IF s = <<>> THEN <<>>
              ELSE (IF Head(s) = Wide THEN <<Lead, Continuation>> ELSE <<Head(s)>>) \o g[Tail(s)]]
    BY <1>5 DEF CharacterBytes
<1>7. Utf8 = [s \in Seq(Character) |-> IF s = <<>> THEN <<>>
              ELSE (IF Head(s) = Wide THEN <<Lead, Continuation>> ELSE <<Head(s)>>) \o Utf8[Tail(s)]]
    BY <1>6 DEF Utf8
<1>8. \A s \in Seq(Character) :
          Utf8[s] = IF s = <<>> THEN <<>> ELSE CharacterBytes(Head(s)) \o Utf8[Tail(s)]
    BY <1>7 DEF CharacterBytes
<1> DEFINE T == {s \in Seq(Character) : Utf8[s] \in Seq(Bytes)}
<1>9. <<>> \in T
    <2>1. <<>> \in Seq(Character) /\ <<>> \in Seq(Bytes)
        OBVIOUS
    <2> QED BY <1>8, <2>1
<1>10. ASSUME NEW s \in Seq(Character), s # <<>>, Tail(s) \in T PROVE s \in T
    <2>1. Head(s) \in Character
        BY <1>10
    <2>2. CharacterBytes(Head(s)) \in Seq(Bytes) /\ Utf8[Tail(s)] \in Seq(Bytes)
        BY <1>10, <2>1, CharacterBytesType
    <2>3. Utf8[s] \in Seq(Bytes)
        BY <1>8, <1>10, <2>2, ConcatProperties
    <2> QED BY <2>3
<1> HIDE DEF T
<1>11. Seq(Character) \subseteq T
    BY <1>9, <1>10, ListInduction
<1>12. \A s \in Seq(Character) : Utf8[s] \in Seq(Bytes)
    BY <1>11 DEF T
<1>13. Utf8 = [s \in Seq(Character) |-> Utf8[s]]
    BY <1>7
<1> QED BY <1>8, <1>12, <1>13

LEMMA TextStep ==
    \A s \in Seq(Nat) :
        Text[s] = IF s = <<>> THEN <<>> ELSE ByteCharacters(Head(s)) \o Text[Tail(s)]
<1> DEFINE D == Seq(Nat)
           V == Seq(Readable)
           m == [s \in Seq(Nat) |-> Len(s)]
           step(s, g) == IF s = <<>> THEN <<>> ELSE ByteCharacters(Head(s)) \o g[Tail(s)]
           F == [g \in [D -> V] |-> [s \in D |-> step(s, g)]]
<1>1. /\ m \in [D -> Nat]
      /\ \A s \in D : s # <<>> => Head(s) \in Nat /\ Tail(s) \in D /\ m[Tail(s)] < m[s]
    BY LengthMeasure
<1>2. ASSUME NEW g \in [D -> V], NEW s \in D PROVE step(s, g) \in V
    <2>1. CASE s = <<>>
        BY <2>1
    <2>2. CASE s # <<>>
        <3>1. ByteCharacters(Head(s)) \in Seq(Readable)
            BY <1>1, <2>2, ByteCharactersType
        <3>2. g[Tail(s)] \in Seq(Readable)
            BY <1>1, <2>2
        <3> QED BY <2>2, <3>1, <3>2, ConcatProperties
    <2> QED BY <2>1, <2>2
<1>3. \A g, h \in [D -> V] : \A s \in D :
          (\A y \in D : m[y] < m[s] => g[y] = h[y]) => F[g][s] = F[h][s]
    <2>1. ASSUME NEW g \in [D -> V], NEW h \in [D -> V], NEW s \in D,
                 \A y \in D : m[y] < m[s] => g[y] = h[y]
          PROVE  step(s, g) = step(s, h)
        <3>1. s # <<>> => g[Tail(s)] = h[Tail(s)]
            BY <1>1, <2>1
        <3> QED BY <3>1
    <2> HIDE DEF step, V
    <2> QED BY <2>1
<1>4. F \in [[D -> V] -> [D -> V]]
    <2> HIDE DEF step, V
    <2> QED BY <1>2
<1>5. PICK g \in [D -> V] : g = F[g]
    <2>1. V # {}
        BY EmptySeq
    <2> HIDE DEF F, D, m, V
    <2>2. Recursive(F, D, V, m)
        BY <1>1, <1>3, <1>4, <2>1 DEF Recursive
    <2> QED BY <2>2, RecursionExists
<1>6. g = [s \in Seq(Nat) |-> IF s = <<>> THEN <<>>
              ELSE (CASE Head(s) = Continuation -> <<>>
                      [] Head(s) = Lead         -> <<Wide>>
                      [] OTHER                  -> <<Head(s)>>) \o g[Tail(s)]]
    BY <1>5 DEF ByteCharacters
<1>7. Text = [s \in Seq(Nat) |-> IF s = <<>> THEN <<>>
              ELSE (CASE Head(s) = Continuation -> <<>>
                      [] Head(s) = Lead         -> <<Wide>>
                      [] OTHER                  -> <<Head(s)>>) \o Text[Tail(s)]]
    BY <1>6 DEF Text
<1> QED BY <1>7 DEF ByteCharacters

LEMMA TextOfCons ==
    ASSUME NEW b \in Nat, NEW s \in Seq(Nat)
    PROVE  Text[<<b>> \o s] = ByteCharacters(b) \o Text[s]
<1> DEFINE t == <<b>> \o s
<1>1. t \in Seq(Nat) /\ t # <<>> /\ Head(t) = b /\ Tail(t) = s
    BY ConsProperties
<1> HIDE DEF t
<1>2. Text[t] = ByteCharacters(b) \o Text[s]
    BY <1>1, TextStep
<1> QED BY <1>2 DEF t

LEMMA Utf8OfCons ==
    ASSUME NEW ch \in Character, NEW s \in Seq(Character)
    PROVE  Utf8[<<ch>> \o s] = CharacterBytes(ch) \o Utf8[s]
<1> DEFINE t == <<ch>> \o s
<1>1. t \in Seq(Character) /\ t # <<>> /\ Head(t) = ch /\ Tail(t) = s
    BY ConsProperties
<1> HIDE DEF t
<1>2. Utf8[t] = CharacterBytes(ch) \o Utf8[s]
    BY <1>1, Utf8Step
<1> QED BY <1>2 DEF t

\* Another character in front of proper UTF-8.
LEMMA OneByteInFront ==
    ASSUME NEW b \in 0..(Continuation - 1), NEW s \in Seq(Bytes), IsUtf8(s)
    PROVE  IsUtf8(<<b>> \o s)
<1> DEFINE t == <<b>> \o s
           k == Len(s)
<1>1. b \in Bytes /\ b \in Nat /\ b # Lead /\ b # Continuation /\ b < Continuation
      /\ Continuation \in Nat /\ Continuation # Lead
    BY LeadAndContinuation, ByteIsPositive
<1>2. /\ t \in Seq(Bytes) /\ Len(t) = k + 1 /\ k \in Nat
      /\ \A i \in 1..(k + 1) : t[i] = IF i = 1 THEN b ELSE s[i - 1]
    BY <1>1, ConsProperties
<1>3. \A i \in 1..k :
        /\ s[i] < Continuation \/ s[i] \in {Lead, Continuation}
        /\ s[i] = Lead => i < k
        /\ s[i] = Continuation <=> i > 1 /\ s[i - 1] = Lead
    BY DEF IsUtf8
<1> HIDE DEF t, k
<1>4. ASSUME NEW i \in 1..(k + 1)
      PROVE  /\ t[i] < Continuation \/ t[i] \in {Lead, Continuation}
             /\ t[i] = Lead => i < k + 1
             /\ t[i] = Continuation <=> i > 1 /\ t[i - 1] = Lead
    <2>1. CASE i = 1
        BY <1>1, <1>2, <2>1
    <2>2. CASE i = 2
        <3>1. 1 \in 1..k /\ 1 \in 1..(k + 1) /\ i - 1 = 1 /\ i > 1
            BY <1>2, <2>2
        <3>2. t[1] = b /\ t[i] = s[1]
            BY <1>2, <2>2, <3>1
        <3>3. s[1] # Continuation
            BY <1>3, <3>1
        <3> QED BY <1>1, <1>2, <1>3, <3>1, <3>2, <3>3
    <2>3. CASE i > 2
        <3>1. /\ i - 1 \in 1..k /\ i - 1 \in 1..(k + 1) /\ i - 1 # 1 /\ i - 1 > 1 /\ i > 1
              /\ (i - 1) - 1 \in 1..k
            BY <1>2, <2>3
        <3> DEFINE j == i - 1
        <3>2. t[i] = s[j] /\ t[j] = s[j - 1]
            BY <1>2, <2>3, <3>1
        <3>3. /\ s[j] < Continuation \/ s[j] \in {Lead, Continuation}
              /\ s[j] = Lead => j < k
              /\ s[j] = Continuation <=> j > 1 /\ s[j - 1] = Lead
            BY <1>3, <3>1
        <3>4. j < k => i < k + 1
            BY <1>2
        <3> QED BY <3>1, <3>2, <3>3, <3>4
    <2> QED BY <2>1, <2>2, <2>3
<1>5. DOMAIN t = 1..(k + 1)
    BY <1>2, LenProperties
<1> QED BY <1>2, <1>4, <1>5 DEF IsUtf8, t

LEMMA TwoBytesInFront ==
    ASSUME NEW s \in Seq(Bytes), IsUtf8(s)
    PROVE  IsUtf8(<<Lead, Continuation>> \o s)
<1> DEFINE t == <<Lead, Continuation>> \o s
           k == Len(s)
<1>1. Lead \in Bytes /\ Continuation \in Bytes /\ Continuation # Lead /\ Continuation \in Nat
      /\ Lead \in Nat
    BY LeadAndContinuation, ByteIsPositive
<1>2. /\ t \in Seq(Bytes) /\ Len(t) = k + 2 /\ k \in Nat
      /\ \A i \in 1..(k + 2) : t[i] = IF i = 1 THEN Lead ELSE IF i = 2 THEN Continuation
                                      ELSE s[i - 2]
    BY <1>1
<1>3. \A i \in 1..k :
        /\ s[i] < Continuation \/ s[i] \in {Lead, Continuation}
        /\ s[i] = Lead => i < k
        /\ s[i] = Continuation <=> i > 1 /\ s[i - 1] = Lead
    BY DEF IsUtf8
<1> HIDE DEF t, k
<1>4. ASSUME NEW i \in 1..(k + 2)
      PROVE  /\ t[i] < Continuation \/ t[i] \in {Lead, Continuation}
             /\ t[i] = Lead => i < k + 2
             /\ t[i] = Continuation <=> i > 1 /\ t[i - 1] = Lead
    <2>1. CASE i = 1
        BY <1>1, <1>2, <2>1
    <2>2. CASE i = 2
        <3>1. 1 \in 1..(k + 2) /\ i - 1 = 1 /\ i > 1
            BY <1>2, <2>2
        <3>2. t[1] = Lead /\ t[i] = Continuation
            BY <1>2, <2>2, <3>1
        <3> QED BY <1>1, <3>1, <3>2
    <2>3. CASE i = 3
        <3>1. 1 \in 1..k /\ 2 \in 1..(k + 2) /\ i - 1 = 2 /\ i - 2 = 1 /\ i > 1
            BY <1>2, <2>3
        <3>2. t[2] = Continuation /\ t[i] = s[1]
            BY <1>2, <2>3, <3>1
        <3>3. s[1] # Continuation
            BY <1>3, <3>1
        <3>4. 1 < k => i < k + 2
            BY <1>2, <2>3
        <3> QED BY <1>1, <1>3, <3>1, <3>2, <3>3, <3>4
    <2>4. CASE i > 3
        <3> DEFINE j == i - 2
        <3>1. /\ j \in 1..k /\ i - 1 \in 1..(k + 2) /\ i - 1 # 1 /\ i - 1 # 2 /\ i # 1 /\ i # 2
              /\ j > 1 /\ i > 1 /\ (i - 1) - 2 = j - 1
            BY <1>2, <2>4
        <3>2. t[i] = s[j] /\ t[i - 1] = s[j - 1]
            BY <1>2, <3>1
        <3>3. /\ s[j] < Continuation \/ s[j] \in {Lead, Continuation}
              /\ s[j] = Lead => j < k
              /\ s[j] = Continuation <=> j > 1 /\ s[j - 1] = Lead
            BY <1>3, <3>1
        <3>4. j < k => i < k + 2
            BY <1>2
        <3> QED BY <3>1, <3>2, <3>3, <3>4
    <2> QED BY <2>1, <2>2, <2>3, <2>4
<1>5. DOMAIN t = 1..(k + 2)
    BY <1>2, LenProperties
<1> QED BY <1>2, <1>4, <1>5 DEF IsUtf8, t

LEMMA PairOfCons ==
    ASSUME NEW S, NEW a \in S, NEW b \in S
    PROVE  <<a>> \o <<b>> = <<a, b>>
<1> DEFINE z == <<a>> \o <<b>>
           y == <<a, b>>
           x == <<b>>
<1>1. x \in Seq(S) /\ Len(x) = 1 /\ x[1] = b
    OBVIOUS
<1> HIDE DEF x
<1>2. z \in Seq(S) /\ Len(z) = 2 /\ z[1] = a /\ z[2] = x[1]
    BY <1>1 DEF x
<1>3. y \in Seq(S) /\ Len(y) = 2 /\ y[1] = a /\ y[2] = b
    OBVIOUS
<1> HIDE DEF z, y
<1>4. \A i \in 1..2 : z[i] = y[i]
    BY <1>1, <1>2, <1>3
<1>5. z = y
    BY <1>2, <1>3, <1>4, SeqEqual
<1> QED BY <1>5 DEF z, y

\* Any text survives its encoding.
LEMMA TextRead ==
    ASSUME NEW text \in Seq(Character)
    PROVE  /\ Utf8[text] \in Seq(Bytes) /\ IsUtf8(Utf8[text])
           /\ Text[Utf8[text]] = text
<1> DEFINE T == {s \in Seq(Character) : IsUtf8(Utf8[s]) /\ Text[Utf8[s]] = s}
<1>1. <<>> \in T
    <2>1. <<>> \in Seq(Character) /\ <<>> \in Seq(Nat) /\ DOMAIN <<>> = {}
        OBVIOUS
    <2>2. Utf8[<<>>] = <<>> /\ Text[<<>>] = <<>>
        BY <2>1, Utf8Step, TextStep
    <2>3. IsUtf8(<<>>)
        BY <2>1 DEF IsUtf8
    <2> QED BY <2>1, <2>2, <2>3
<1>2. ASSUME NEW s \in Seq(Character), s # <<>>, Tail(s) \in T PROVE s \in T
    <2> DEFINE ch == Head(s)
               r == Tail(s)
               u == Utf8[r]
    <2>1. ch \in Character /\ r \in Seq(Character) /\ s = <<ch>> \o r
        BY <1>2, ConsOfHeadTail
    <2>2. IsUtf8(u) /\ Text[u] = r
        BY <1>2
    <2> HIDE DEF ch, r, T
    <2>3. u \in Seq(Bytes) /\ Utf8[s] = CharacterBytes(ch) \o u
        BY <2>1, Utf8Step, Utf8OfCons
    <2> HIDE DEF u
    <2>4. u \in Seq(Nat)
        BY <2>3, ByteIsPositive, SeqMonotonic
    <2>5. CASE ch = Wide
        <3> DEFINE v == <<Continuation>> \o u
        <3>1. Lead \in Nat /\ Continuation \in Nat /\ Lead # Continuation
            BY LeadAndContinuation, ByteIsPositive
        <3>2. Utf8[s] = <<Lead, Continuation>> \o u
            BY <2>3, <2>5 DEF CharacterBytes
        <3>3. IsUtf8(Utf8[s])
            BY <2>2, <2>3, <3>2, TwoBytesInFront
        <3>4. <<Lead, Continuation>> \o u = <<Lead>> \o v /\ v \in Seq(Nat)
            <4>1. <<Lead>> \in Seq(Nat) /\ <<Continuation>> \in Seq(Nat)
                BY <3>1
            <4>2. (<<Lead>> \o <<Continuation>>) \o u = <<Lead>> \o v
                BY <2>4, <4>1, ConcatAssociative
            <4>3. <<Lead>> \o <<Continuation>> = <<Lead, Continuation>>
                BY <3>1, PairOfCons
            <4>4. v \in Seq(Nat)
                BY <2>4, <4>1, ConcatProperties
            <4> QED BY <4>2, <4>3, <4>4
        <3>5. Text[v] = <<>> \o r
            BY <2>2, <2>4, <3>1, TextOfCons DEF ByteCharacters
        <3>6. Text[v] = r
            BY <2>1, <3>5, ConcatEmptySeq
        <3> HIDE DEF v
        <3>7. Text[<<Lead>> \o v] = <<Wide>> \o r
            BY <3>1, <3>4, <3>6, TextOfCons DEF ByteCharacters
        <3>8. Text[Utf8[s]] = s
            BY <2>1, <2>5, <3>2, <3>4, <3>7
        <3> QED BY <3>3, <3>8 DEF T
    <2>6. CASE ch # Wide
        <3>1. ch \in 0..(Continuation - 1)
            BY <2>1, <2>6 DEF Character
        <3>2. ch \in Nat /\ ch # Lead /\ ch # Continuation
            BY <3>1, LeadAndContinuation
        <3>3. Utf8[s] = <<ch>> \o u
            BY <2>3, <2>6 DEF CharacterBytes
        <3>4. IsUtf8(Utf8[s])
            BY <2>2, <2>3, <3>1, <3>3, OneByteInFront
        <3>5. Text[<<ch>> \o u] = <<ch>> \o r
            BY <2>2, <2>4, <3>2, TextOfCons DEF ByteCharacters
        <3> QED BY <2>1, <3>3, <3>4, <3>5 DEF T
    <2> QED BY <2>5, <2>6
<1> HIDE DEF T
<1>3. Seq(Character) \subseteq T
    BY <1>1, <1>2, ListInduction
<1> QED BY <1>3, Utf8Step DEF T

LEMMA StringRead ==
    ASSUME NEW text \in Seq(Character), Len(Utf8[text]) < Power[WORD]
    PROVE  /\ EncodeString(text) \in Seq(Bytes)
           /\ \A data \in Seq(Bytes), at \in Nat :
                  Agrees(data, at, EncodeString(text)) =>
                      DecodeString(data, at) = Expect(data, at, EncodeString(text), text)
<1> DEFINE raw == Utf8[text]
           e == EncodeString(text)
<1>1. raw \in Seq(Bytes) /\ IsUtf8(raw) /\ Text[raw] = text
    BY TextRead
<1>2. e = EncodeBytes(raw) /\ Len(raw) < Power[WORD]
    BY DEF EncodeString
<1> HIDE DEF raw, e
<1>3. e \in Seq(Bytes) /\ Len(e) = WORD + Len(raw)
    BY <1>1, <1>2, BytesRead
<1>4. ASSUME NEW data \in Seq(Bytes), NEW at \in Nat, Agrees(data, at, e)
      PROVE  DecodeString(data, at) = Expect(data, at, e, text)
    <2> DEFINE r == DecodeBytes(data, at)
               b == at + Len(e)
    <2>1. r = Expect(data, at, e, raw)
        BY <1>1, <1>2, <1>4, BytesRead
    <2>2. b \in Nat
        BY <1>3
    <2>3. CASE b <= Len(data)
        <3>1. r.value = raw /\ r.at = b /\ ~(b < 0)
            BY <2>1, <2>2, <2>3 DEF Expect, Done
        <3>2. DecodeString(data, at) = Done(text, b)
            BY <1>1, <3>1 DEF DecodeString, Then
        <3> QED BY <2>3, <3>2 DEF Expect
    <2>4. CASE ~(b <= Len(data))
        <3>1. r = Refused
            BY <2>1, <2>4 DEF Expect
        <3> QED BY <2>4, <3>1 DEF Expect, DecodeString, Then, Refused, Done
    <2> QED BY <2>3, <2>4
<1> QED BY <1>3, <1>4 DEF e

-----------------------------------------------------------------------------
(* Items of lists, and lists of them.                                      *)

\* Where the second of two fields ends, and that the first ends before it.
LEMMA ConcatEnd ==
    ASSUME NEW at \in Nat, NEW x \in Seq(Bytes), NEW y \in Seq(Bytes)
    PROVE  /\ x \o y \in Seq(Bytes) /\ Len(x) \in Nat /\ Len(y) \in Nat
           /\ at + Len(x) \in Nat /\ (at + Len(x)) + Len(y) \in Nat
           /\ at + Len(x \o y) = (at + Len(x)) + Len(y)
           /\ at + Len(x) <= at + Len(x \o y)
<1>1. x \o y \in Seq(Bytes) /\ Len(x \o y) = Len(x) + Len(y) /\ Len(x) \in Nat /\ Len(y) \in Nat
    BY ConcatProperties
<1> DEFINE p == Len(x)
           q == Len(y)
           r == Len(x \o y)
<1>2. p \in Nat /\ q \in Nat /\ r = p + q
    BY <1>1
<1> HIDE DEF p, q, r
<1>3. at + p \in Nat /\ (at + p) + q \in Nat /\ at + r = (at + p) + q /\ at + p <= at + r
    BY <1>2
<1> QED BY <1>1, <1>3 DEF p, q, r

\* An expected value is there, and ends where its bytes do, or is refused.
LEMMA Expected ==
    ASSUME NEW data \in Seq(Bytes), NEW at \in Nat, NEW e \in Seq(Bytes), NEW v
    PROVE  /\ at + Len(e) <= Len(data) =>
                  /\ Expect(data, at, e, v).value = v
                  /\ Expect(data, at, e, v).at = at + Len(e)
                  /\ ~(Expect(data, at, e, v).at < 0)
           /\ ~(at + Len(e) <= Len(data)) => Expect(data, at, e, v).at < 0
<1>1. at + Len(e) \in Nat /\ -1 < 0
    OBVIOUS
<1> QED BY <1>1 DEF Expect, Done, Refused

\* A host and a port.
LEMMA AddressRead ==
    ASSUME NEW host \in Seq(Character), Len(Utf8[host]) < Power[WORD],
           NEW port \in Nat, port < Power[HALF]
    PROVE  /\ EncodeAddress(<<host, port>>) \in Seq(Bytes)
           /\ \A data \in Seq(Bytes), at \in Nat :
                  Agrees(data, at, EncodeAddress(<<host, port>>)) =>
                      DecodeAddress(data, at) =
                          Expect(data, at, EncodeAddress(<<host, port>>), <<host, port>>)
<1> DEFINE x == EncodeString(host)
           y == Digits(port, HALF)
           e == EncodeAddress(<<host, port>>)
<1>1. x \in Seq(Bytes) /\ y \in Seq(Bytes) /\ HALF \in Nat /\ Len(y) = HALF
    BY StringRead, DigitsType, WidthsArePositive
<1>2. e = x \o y
    BY DEF EncodeAddress
<1> HIDE DEF e
<1>3. e \in Seq(Bytes)
    BY <1>1, <1>2, ConcatProperties
<1>4. ASSUME NEW data \in Seq(Bytes), NEW at \in Nat, Agrees(data, at, e)
      PROVE  DecodeAddress(data, at) = Expect(data, at, e, <<host, port>>)
    <2> DEFINE r == DecodeString(data, at)
               b == at + Len(x)
               c == b + Len(y)
               u == Unpack(data, b, HALF)
    <2>1. Agrees(data, at, x) /\ Agrees(data, b, y)
        BY <1>1, <1>2, <1>4, AgreesConcat
    <2>2. b \in Nat /\ c \in Nat /\ at + Len(e) = c /\ b <= c /\ Len(data) \in Nat
        BY <1>1, <1>2, ConcatEnd
    <2>3. r = Expect(data, at, x, host)
        BY <2>1, StringRead
    <2>4. u = Expect(data, b, y, port)
        BY <1>1, <2>1, <2>2, UnpackRead
    <2> HIDE DEF x, y
    <2>5. CASE b <= Len(data)
        <3>1. r.value = host /\ r.at = b /\ ~(r.at < 0)
            BY <1>1, <2>3, <2>5, Expected
        <3>2. DecodeAddress(data, at) =
                  IF u.at < 0 THEN Refused ELSE Done(<<host, u.value>>, u.at)
            BY <3>1 DEF DecodeAddress, Then
        <3>3. CASE c <= Len(data)
            <4> DEFINE z == Expect(data, b, y, port)
            <4>1. z.value = port /\ z.at = c /\ ~(z.at < 0)
                BY <1>1, <2>2, <3>3, Expected
            <4>2. u = z
                BY <2>4
            <4> HIDE DEF z, u
            <4> QED BY <2>2, <3>2, <3>3, <4>1, <4>2 DEF Expect
        <3>4. CASE ~(c <= Len(data))
            <4>1. u.at < 0
                BY <1>1, <2>2, <2>4, <3>4, Expected
            <4> QED BY <2>2, <3>2, <3>4, <4>1 DEF Expect
        <3> QED BY <3>3, <3>4
    <2>6. CASE ~(b <= Len(data))
        <3>1. r.at < 0
            BY <1>1, <2>3, <2>6, Expected
        <3>2. DecodeAddress(data, at) = Refused
            BY <3>1 DEF DecodeAddress, Then
        <3>3. ~(at + Len(e) <= Len(data))
            BY <2>2, <2>6
        <3> QED BY <3>2, <3>3 DEF Expect
    <2> QED BY <2>5, <2>6
<1> QED BY <1>3, <1>4 DEF e

\* An item of a list of this kind arrives as v.
Arrives(kind, item, v) ==
    /\ EncodeItem(kind, item) \in Seq(Bytes)
    /\ \A data \in Seq(Bytes), at \in Nat :
           Agrees(data, at, EncodeItem(kind, item)) =>
               DecodeItem(kind, data, at) = Expect(data, at, EncodeItem(kind, item), v)

LEMMA TextArrives ==
    ASSUME NEW text \in Seq(Character), Len(Utf8[text]) < Power[WORD]
    PROVE  Arrives("text", text, text)
BY StringRead DEF Arrives, EncodeItem, DecodeItem

LEMMA NumberArrives ==
    ASSUME NEW v \in Int, Magnitude(v) < Power[WORD]
    PROVE  Arrives("number", v, ReadBack(v))
<1>1. /\ EncodeItem("number", v) = EncodeBigint(v)
      /\ \A data, at : DecodeItem("number", data, at) = DecodeBigint(data, at)
    BY DEF EncodeItem, DecodeItem
<1> QED BY <1>1, BigintRead DEF Arrives

LEMMA AgentArrives ==
    ASSUME NEW id \in Seq(Bytes), Len(id) = ID,
           NEW host \in Seq(Character), Len(Utf8[host]) < Power[WORD],
           NEW port \in Nat, port < Power[HALF]
    PROVE  Arrives("agent", [id |-> id, addr |-> <<host, port>>],
                            [id |-> id, addr |-> <<host, port>>])
<1> DEFINE addr == <<host, port>>
           item == [id |-> id, addr |-> addr]
           y == EncodeAddress(addr)
           e == id \o y
<1>1. /\ EncodeItem("agent", item) = e
      /\ \A data, at : DecodeItem("agent", data, at) = DecodeAgent(data, at)
    BY DEF EncodeItem, DecodeItem
<1>2. y \in Seq(Bytes) /\ ID \in Nat
    BY AddressRead, WidthsArePositive
<1>3. \A data \in Seq(Bytes), at \in Nat :
          Agrees(data, at, y) => DecodeAddress(data, at) = Expect(data, at, y, addr)
    BY AddressRead
<1>4. e \in Seq(Bytes)
    BY <1>2, ConcatProperties
<1> HIDE DEF y, addr
<1>5. ASSUME NEW data \in Seq(Bytes), NEW at \in Nat, Agrees(data, at, e)
      PROVE  DecodeAgent(data, at) = Expect(data, at, e, item)
    <2> DEFINE b == at + ID
               c == b + Len(y)
               u == DecodeAddress(data, b)
    <2>1. Agrees(data, at, id) /\ Agrees(data, b, y)
        BY <1>2, <1>5, AgreesConcat
    <2>2. b \in Nat /\ c \in Nat /\ at + Len(e) = c /\ b <= c /\ Len(data) \in Nat
        BY <1>2, ConcatEnd
    <2>3. u = Expect(data, b, y, addr)
        BY <1>3, <2>1, <2>2
    <2>4. CASE c <= Len(data)
        <3>1. u.value = addr /\ u.at = c /\ ~(u.at < 0)
            BY <1>2, <2>2, <2>3, <2>4, Expected
        <3>2. Slice(data, at, ID) = id
            <4>1. b <= Len(data)
                BY <2>2, <2>4
            <4>2. Exactly(data, at, ID) = Expect(data, at, id, id)
                BY <2>1, ExactlyRead
            <4>3. Exactly(data, at, ID) = Done(Slice(data, at, ID), b)
                BY <2>2, <4>1 DEF Exactly
            <4>4. Expect(data, at, id, id) = Done(id, b)
                BY <4>1 DEF Expect
            <4>5. /\ Done(Slice(data, at, ID), b).value = Slice(data, at, ID)
                  /\ Done(id, b).value = id
                BY DEF Done
            <4> QED BY <4>2, <4>3, <4>4, <4>5
        <3>3. DecodeAgent(data, at) = Done([id |-> id, addr |-> addr], c)
            BY <3>1, <3>2 DEF DecodeAgent, Then
        <3> QED BY <2>2, <2>4, <3>3 DEF Expect
    <2>5. CASE ~(c <= Len(data))
        <3>1. u.at < 0
            BY <1>2, <2>2, <2>3, <2>5, Expected
        <3>2. DecodeAgent(data, at) = Refused
            BY <3>1 DEF DecodeAgent, Then
        <3> QED BY <2>2, <2>5, <3>2 DEF Expect
    <2> QED BY <2>4, <2>5
<1>6. Arrives("agent", item, item)
    <2> HIDE DEF e, item
    <2> QED BY <1>1, <1>4, <1>5 DEF Arrives
<1> QED BY <1>6 DEF addr

LEMMA ParamArrives ==
    ASSUME NEW name \in Seq(Character), Len(Utf8[name]) < Power[WORD],
           NEW v \in Int, Magnitude(v) < Power[WORD]
    PROVE  Arrives("param", <<name, v>>, <<name, ReadBack(v)>>)
<1> DEFINE x == EncodeString(name)
           y == EncodeBigint(v)
           w == ReadBack(v)
           item == <<name, v>>
           e == x \o y
<1>1. /\ EncodeItem("param", item) = e
      /\ \A data, at : DecodeItem("param", data, at) = DecodeParam(data, at)
    BY DEF EncodeItem, DecodeItem
<1>2. x \in Seq(Bytes) /\ y \in Seq(Bytes)
    BY StringRead, BigintRead
<1>3. \A data \in Seq(Bytes), at \in Nat :
          /\ Agrees(data, at, x) => DecodeString(data, at) = Expect(data, at, x, name)
          /\ Agrees(data, at, y) => DecodeBigint(data, at) = Expect(data, at, y, w)
    BY StringRead, BigintRead
<1>4. e \in Seq(Bytes)
    BY <1>2, ConcatProperties
<1> HIDE DEF x, y, w
<1>5. ASSUME NEW data \in Seq(Bytes), NEW at \in Nat, Agrees(data, at, e)
      PROVE  DecodeParam(data, at) = Expect(data, at, e, <<name, w>>)
    <2> DEFINE r == DecodeString(data, at)
               b == at + Len(x)
               c == b + Len(y)
               u == DecodeBigint(data, b)
    <2>1. Agrees(data, at, x) /\ Agrees(data, b, y)
        BY <1>2, <1>5, AgreesConcat
    <2>2. b \in Nat /\ c \in Nat /\ at + Len(e) = c /\ b <= c /\ Len(data) \in Nat
        BY <1>2, ConcatEnd
    <2>3. r = Expect(data, at, x, name) /\ u = Expect(data, b, y, w)
        BY <1>3, <2>1, <2>2
    <2>4. CASE b <= Len(data)
        <3>1. r.value = name /\ r.at = b /\ ~(r.at < 0)
            BY <1>2, <2>3, <2>4, Expected
        <3>2. DecodeParam(data, at) =
                  IF u.at < 0 THEN Refused ELSE Done(<<name, u.value>>, u.at)
            BY <3>1 DEF DecodeParam, Then
        <3>3. CASE c <= Len(data)
            <4>1. u.value = w /\ u.at = c /\ ~(u.at < 0)
                BY <1>2, <2>2, <2>3, <3>3, Expected
            <4> QED BY <2>2, <3>2, <3>3, <4>1 DEF Expect
        <3>4. CASE ~(c <= Len(data))
            <4>1. u.at < 0
                BY <1>2, <2>2, <2>3, <3>4, Expected
            <4> QED BY <2>2, <3>2, <3>4, <4>1 DEF Expect
        <3> QED BY <3>3, <3>4
    <2>5. CASE ~(b <= Len(data))
        <3>1. r.at < 0
            BY <1>2, <2>3, <2>5, Expected
        <3>2. DecodeParam(data, at) = Refused
            BY <3>1 DEF DecodeParam, Then
        <3>3. ~(at + Len(e) <= Len(data))
            BY <2>2, <2>5
        <3> QED BY <3>2, <3>3 DEF Expect
    <2> QED BY <2>4, <2>5
<1>6. Arrives("param", item, <<name, w>>)
    <2> HIDE DEF e, item
    <2> QED BY <1>1, <1>4, <1>5 DEF Arrives
<1> QED BY <1>6 DEF w

-----------------------------------------------------------------------------
(* Lists.                                                                  *)

\* When q is refused then so is all of it, E; otherwise q is v up to offset b,
\* and F remains.
Chain(q, E, F, v, b) ==
    /\ q.at < 0 => E = Refused
    /\ ~(q.at < 0) => q.value = v /\ q.at = b /\ E = F

\* One field after another: the second is decoded where the first one ends.
LEMMA ThenExpected ==
    ASSUME NEW data \in Seq(Bytes), NEW at \in Nat, NEW x \in Seq(Bytes), NEW y \in Seq(Bytes),
           NEW v, NEW w, NEW b, b = at + Len(x)
    PROVE  Chain(Expect(data, at, x, v), Expect(data, at, x \o y, w), Expect(data, b, y, w), v, b)
<1> DEFINE c == b + Len(y)
           e == x \o y
           r == Expect(data, at, x, v)
<1>1. b \in Nat /\ c \in Nat /\ at + Len(e) = c /\ b <= c /\ Len(data) \in Nat
    BY ConcatEnd
<1>2. /\ b <= Len(data) => r.at = b /\ r.value = v /\ ~(r.at < 0)
      /\ ~(b <= Len(data)) => r.at < 0
    BY Expected
<1>3. c = b + Len(y)
    OBVIOUS
<1> HIDE DEF c, e, r
<1>4. CASE b <= Len(data)
    <2>1. Expect(data, at, e, w) = Expect(data, b, y, w)
        BY <1>1, <1>3 DEF Expect
    <2>2. /\ ~(r.at < 0) /\ r.at = b /\ r.value = v
        BY <1>2, <1>4
    <2> QED BY <2>1, <2>2 DEF r, e, Chain
<1>5. CASE ~(b <= Len(data))
    <2>1. ~(at + Len(e) <= Len(data))
        BY <1>1, <1>5
    <2>2. Expect(data, at, e, w) = Refused /\ r.at < 0
        BY <1>2, <1>5, <2>1 DEF Expect
    <2> QED BY <2>2 DEF r, e, Chain
<1> QED BY <1>4, <1>5

\* The last field: what it holds is put into another value.
LEMMA WrapExpected ==
    ASSUME NEW data \in Seq(Bytes), NEW at \in Nat, NEW e \in Seq(Bytes), NEW v, NEW w
    PROVE  /\ Expect(data, at, e, v).at < 0 => Expect(data, at, e, w) = Refused
           /\ ~(Expect(data, at, e, v).at < 0) =>
                  /\ Expect(data, at, e, v).value = v
                  /\ Expect(data, at, e, w) = Done(w, Expect(data, at, e, v).at)
<1> DEFINE z == Expect(data, at, e, v)
<1>1. CASE at + Len(e) <= Len(data)
    <2>1. z.at = at + Len(e) /\ ~(z.at < 0) /\ z.value = v
        BY <1>1, Expected
    <2> HIDE DEF z
    <2>2. Expect(data, at, e, w) = Done(w, z.at)
        BY <1>1, <2>1 DEF Expect
    <2> QED BY <2>1, <2>2 DEF z
<1>2. CASE ~(at + Len(e) <= Len(data))
    <2>1. z.at < 0
        BY <1>2, Expected
    <2>2. Expect(data, at, e, w) = Refused
        BY <1>2 DEF Expect
    <2> QED BY <2>1, <2>2 DEF z
<1> QED BY <1>1, <1>2

\* The encoded items, one behind the other.
Run(kind, s, k, f) ==
    f = [j \in 0..k |-> IF j = 0 THEN <<>> ELSE f[j - 1] \o EncodeItem(kind, s[j])]

LEMMA RunExists ==
    ASSUME NEW kind, NEW s, NEW k \in Nat
    PROVE  \E f : Run(kind, s, k, f)
<1> DEFINE T == {j \in Nat : \E f : Run(kind, s, j, f)}
<1>1. 0 \in T
    <2> DEFINE f == [j \in 0..0 |-> <<>>]
               g == [j \in 0..0 |-> IF j = 0 THEN <<>> ELSE f[j - 1] \o EncodeItem(kind, s[j])]
    <2>1. \A j \in 0..0 : j = 0
        OBVIOUS
    <2>2. f = g
        BY <2>1
    <2>3. Run(kind, s, 0, f)
        BY <2>2 DEF Run
    <2> QED BY <2>3
<1>2. ASSUME NEW j \in Nat, j \in T PROVE j + 1 \in T
    <2>1. PICK f : Run(kind, s, j, f)
        BY <1>2
    <2> DEFINE last == f[j] \o EncodeItem(kind, s[j + 1])
               g == [i \in 0..(j + 1) |-> IF i = j + 1 THEN last ELSE f[i]]
               h == [i \in 0..(j + 1) |-> IF i = 0 THEN <<>> ELSE g[i - 1] \o EncodeItem(kind, s[i])]
    <2>2. \A i \in 0..j : f[i] = IF i = 0 THEN <<>> ELSE f[i - 1] \o EncodeItem(kind, s[i])
        BY <2>1 DEF Run
    <2>3. ASSUME NEW i \in 0..(j + 1) PROVE g[i] = h[i]
        <3>1. CASE i = j + 1
            <4>1. i # 0 /\ i - 1 = j /\ i - 1 \in 0..(j + 1) /\ i - 1 # j + 1
                BY <3>1
            <4>2. g[i - 1] = f[j]
                BY <4>1
            <4>3. h[i] = f[j] \o EncodeItem(kind, s[i])
                BY <4>1, <4>2
            <4> QED BY <3>1, <4>3
        <3>2. CASE i # j + 1
            <4>1. i \in 0..j /\ g[i] = f[i]
                BY <3>2
            <4>2. CASE i = 0
                BY <2>2, <4>1, <4>2
            <4>3. CASE i # 0
                <5>1. i - 1 \in 0..(j + 1) /\ i - 1 # j + 1
                    BY <4>3
                <5>2. g[i - 1] = f[i - 1]
                    BY <5>1
                <5> QED BY <2>2, <4>1, <4>3, <5>2
            <4> QED BY <4>2, <4>3
        <3> QED BY <3>1, <3>2
    <2>4. g = h
        BY <2>3
    <2>5. Run(kind, s, j + 1, g)
        <3> HIDE DEF last
        <3> QED BY <2>4 DEF Run
    <2> QED BY <2>5
<1>3. k \in T
    <2> HIDE DEF T
    <2> QED BY <1>1, <1>2, NumberInduction
<1> QED BY <1>3

\* The recursion in EncodeList has a solution, and it is what is chosen.
LEMMA ListEncoded ==
    ASSUME NEW kind, NEW s, Len(s) \in Nat
    PROVE  \E f : Run(kind, s, Len(s), f) /\ EncodeList(kind, s) = Digits(Len(s), HALF) \o f[Len(s)]
<1> DEFINE count == Len(s)
           first == CHOOSE f : f = [j \in 0..count |->
                        IF j = 0 THEN <<>> ELSE f[j - 1] \o EncodeItem(kind, s[j])]
<1>1. \E f : f = [j \in 0..count |-> IF j = 0 THEN <<>> ELSE f[j - 1] \o EncodeItem(kind, s[j])]
    <2>1. \E f : Run(kind, s, count, f)
        BY RunExists
    <2> HIDE DEF count
    <2> QED BY <2>1 DEF Run
<1>2. Run(kind, s, count, first)
    BY <1>1 DEF Run
<1>3. EncodeList(kind, s) = Digits(count, HALF) \o first[count]
    BY DEF EncodeList
<1> HIDE DEF first
<1> QED BY <1>2, <1>3

\* The items of s arrive as those of r.
AllArrive(kind, s, r) == \A i \in 1..Len(r) : Arrives(kind, s[i], r[i])

\* The beginnings of a list of encoded items, each one item longer.
Running(kind, s, count, f) ==
    /\ \A k \in 0..count : f[k] \in Seq(Bytes)
    /\ f[0] = <<>>
    /\ \A k \in 1..count : f[k] = f[k - 1] \o EncodeItem(kind, s[k])

LEMMA RunType ==
    ASSUME NEW kind, NEW s, NEW r, Len(r) \in Nat, AllArrive(kind, s, r),
           NEW f, Run(kind, s, Len(r), f)
    PROVE  Running(kind, s, Len(r), f)
<1> DEFINE count == Len(r)
           T == {k \in Nat : k <= count => f[k] \in Seq(Bytes)}
<1>1. count \in Nat
    OBVIOUS
<1>2. \A i \in 1..count : EncodeItem(kind, s[i]) \in Seq(Bytes)
    BY DEF AllArrive, Arrives
<1>3. \A k \in 0..count : f[k] = IF k = 0 THEN <<>> ELSE f[k - 1] \o EncodeItem(kind, s[k])
    BY DEF Run
<1> HIDE DEF count
<1>4. f[0] = <<>>
    BY <1>1, <1>3
<1>5. ASSUME NEW k \in 1..count PROVE f[k] = f[k - 1] \o EncodeItem(kind, s[k])
    <2>1. k \in 0..count /\ k # 0
        OBVIOUS
    <2> QED BY <1>3, <2>1
<1>6. 0 \in T
    BY <1>4, EmptySeq
<1>7. ASSUME NEW k \in Nat, k \in T PROVE k + 1 \in T
    <2> SUFFICES ASSUME k + 1 <= count PROVE f[k + 1] \in Seq(Bytes)
        OBVIOUS
    <2>1. k + 1 \in 1..count /\ (k + 1) - 1 = k /\ k <= count
        BY <1>1
    <2>2. f[k] \in Seq(Bytes) /\ EncodeItem(kind, s[k + 1]) \in Seq(Bytes)
        BY <1>2, <1>7, <2>1
    <2>3. f[k + 1] = f[k] \o EncodeItem(kind, s[k + 1])
        BY <1>5, <2>1
    <2> QED BY <2>2, <2>3, ConcatProperties
<1>8. Nat \subseteq T
    <2> HIDE DEF T
    <2> QED BY <1>6, <1>7, NumberInduction
<1>9. \A k \in 0..count : f[k] \in Seq(Bytes)
    BY <1>1, <1>8
<1> QED BY <1>4, <1>5, <1>9 DEF count, Running

\* The data that agrees with a list agrees with each beginning of it, and
\* behind that with the next item.
LEMMA RunAgrees ==
    ASSUME NEW kind, NEW s, NEW r, Len(r) \in Nat, AllArrive(kind, s, r),
           NEW f, Running(kind, s, Len(r), f),
           NEW data \in Seq(Bytes), NEW at \in Nat, Agrees(data, at, f[Len(r)])
    PROVE  \A k \in 1..Len(r) : Agrees(data, at + Len(f[k - 1]), EncodeItem(kind, s[k]))
<1>0. /\ \A k \in 0..Len(r) : f[k] \in Seq(Bytes)
      /\ \A k \in 1..Len(r) : f[k] = f[k - 1] \o EncodeItem(kind, s[k])
    BY DEF Running
<1> DEFINE count == Len(r)
           T == {j \in Nat : j <= count => Agrees(data, at, f[count - j])}
<1>1. count \in Nat
    OBVIOUS
<1>2. \A i \in 1..count : EncodeItem(kind, s[i]) \in Seq(Bytes)
    BY DEF AllArrive, Arrives
<1>3. /\ \A k \in 0..count : f[k] \in Seq(Bytes)
      /\ \A k \in 1..count : f[k] = f[k - 1] \o EncodeItem(kind, s[k])
    BY <1>0
<1>4. Agrees(data, at, f[count])
    OBVIOUS
<1> HIDE DEF count
<1>5. ASSUME NEW k \in 1..count, Agrees(data, at, f[k])
      PROVE  Agrees(data, at, f[k - 1]) /\ Agrees(data, at + Len(f[k - 1]), EncodeItem(kind, s[k]))
    <2>1. k - 1 \in 0..count
        BY <1>1
    <2>2. f[k - 1] \in Seq(Bytes) /\ EncodeItem(kind, s[k]) \in Seq(Bytes)
        BY <1>2, <1>3, <2>1
    <2>3. f[k] = f[k - 1] \o EncodeItem(kind, s[k])
        BY <1>3
    <2>4. Agrees(data, at, f[k - 1] \o EncodeItem(kind, s[k]))
        BY <1>5, <2>3
    <2> QED BY <2>2, <2>4, AgreesConcat
<1>6. 0 \in T
    <2>1. count - 0 = count
        BY <1>1
    <2> QED BY <1>4, <2>1
<1>7. ASSUME NEW j \in Nat, j \in T PROVE j + 1 \in T
    <2> SUFFICES ASSUME j + 1 <= count PROVE Agrees(data, at, f[count - (j + 1)])
        OBVIOUS
    <2>1. count - j \in 1..count /\ (count - j) - 1 = count - (j + 1) /\ j <= count
        BY <1>1
    <2>2. Agrees(data, at, f[count - j])
        BY <1>7, <2>1
    <2>3. Agrees(data, at, f[(count - j) - 1])
        BY <1>5, <2>1, <2>2
    <2> QED BY <2>1, <2>3
<1>8. Nat \subseteq T
    <2> HIDE DEF T
    <2> QED BY <1>6, <1>7, NumberInduction
<1>9. ASSUME NEW k \in 1..count PROVE Agrees(data, at, f[k])
    <2>1. count - k \in Nat /\ count - (count - k) = k /\ count - k <= count
        BY <1>1
    <2> QED BY <1>8, <2>1
<1> QED BY <1>5, <1>9 DEF count

\* One element more of a sequence.
LEMMA NextOfPrefix ==
    ASSUME NEW R, NEW r \in Seq(R), NEW k \in 1..Len(r)
    PROVE  SubSeq(r, 1, k) = Append(SubSeq(r, 1, k - 1), r[k])
<1>1. 1 \in 1..Len(r) /\ k \in 1..Len(r)
    OBVIOUS
<1>2. SubSeq(r, 1, k) = SubSeq(r, 1, k - 1) \o <<r[k]>>
    BY <1>1, SubSeqRecursiveSecond
<1>3. SubSeq(r, 1, k - 1) \in Seq(R) /\ r[k] \in R
    <2>1. \A i \in 1..(k - 1) : r[i] \in R
        OBVIOUS
    <2> QED BY <2>1, SubSeqProperties
<1>4. Append(SubSeq(r, 1, k - 1), r[k]) = SubSeq(r, 1, k - 1) \o <<r[k]>>
    BY <1>3, AppendIsConcat
<1> QED BY <1>2, <1>4

\* One item more.
NextItem(kind, data, q) ==
    Then(q, LAMBDA items, b :
        Then(DecodeItem(kind, data, b), LAMBDA item, c : Done(Append(items, item), c)))

LEMMA NextItemRead ==
    ASSUME NEW kind, NEW item, NEW v, Arrives(kind, item, v),
           NEW data \in Seq(Bytes), NEW at \in Nat, NEW x \in Seq(Bytes), NEW items,
           NEW b, b = at + Len(x), Agrees(data, b, EncodeItem(kind, item))
    PROVE  NextItem(kind, data, Expect(data, at, x, items)) =
               Expect(data, at, x \o EncodeItem(kind, item), Append(items, v))
<1> DEFINE q == Expect(data, at, x, items)
           y == EncodeItem(kind, item)
           w == Append(items, v)
           d == DecodeItem(kind, data, q.at)
           z == Expect(data, b, y, v)
<1>1. NextItem(kind, data, q) =
          IF q.at < 0 THEN Refused
          ELSE IF d.at < 0 THEN Refused ELSE Done(Append(q.value, d.value), d.at)
    <2> HIDE DEF q
    <2> QED BY DEF NextItem, Then
<1>2. y \in Seq(Bytes) /\ b \in Nat
    BY DEF Arrives
<1>3. DecodeItem(kind, data, b) = z
    BY <1>2 DEF Arrives
<1>4. Chain(q, Expect(data, at, x \o y, w), Expect(data, b, y, w), items, b)
    <2> HIDE DEF y, w
    <2> QED BY <1>2, ThenExpected
<1>5. /\ z.at < 0 => Expect(data, b, y, w) = Refused
      /\ ~(z.at < 0) => z.value = v /\ Expect(data, b, y, w) = Done(w, z.at)
    <2> HIDE DEF y, w
    <2> QED BY <1>2, WrapExpected
<1> HIDE DEF q, y, z
<1>6. NextItem(kind, data, q) = Expect(data, at, x \o y, w)
    BY <1>1, <1>3, <1>4, <1>5 DEF Chain
<1> QED BY <1>6 DEF q, y

\* The items are decoded one after the other, until the data ends: what
\* DecodeItems chooses is the only solution of its recursion.
LEMMA ItemsRead ==
    ASSUME NEW kind, NEW s, NEW R, NEW r \in Seq(R), AllArrive(kind, s, r),
           NEW f, Running(kind, s, Len(r), f),
           NEW data \in Seq(Bytes), NEW at \in Nat, at <= Len(data), Agrees(data, at, f[Len(r)])
    PROVE  DecodeItems(kind, data, at, Len(r)) = Expect(data, at, f[Len(r)], r)
<1>1. Len(r) \in Nat /\ SubSeq(r, 1, Len(r)) = r
    BY SubSeqFull
<1>2. \A k \in 1..Len(r) : Arrives(kind, s[k], r[k])
    BY DEF AllArrive
<1>3. \A k \in 1..Len(r) : Agrees(data, at + Len(f[k - 1]), EncodeItem(kind, s[k]))
    BY <1>1, RunAgrees
<1>4. \A k \in 1..Len(r) : SubSeq(r, 1, k) = Append(SubSeq(r, 1, k - 1), r[k])
    BY NextOfPrefix
<1>5. /\ \A k \in 0..Len(r) : f[k] \in Seq(Bytes)
      /\ f[0] = <<>>
      /\ \A k \in 1..Len(r) : f[k] = f[k - 1] \o EncodeItem(kind, s[k])
    BY DEF Running
<1>6. SubSeq(r, 1, 0) = <<>>
    BY SubSeqEmpty
<1> DEFINE count == Len(r)
           prefix(k) == Expect(data, at, f[k], SubSeq(r, 1, k))
           g == [k \in 0..count |-> prefix(k)]
           start == Done(<<>>, at)
           h == [k \in 0..count |-> IF k = 0 THEN start ELSE NextItem(kind, data, g[k - 1])]
<1>7. prefix(0) = start
    <2>1. at + Len(f[0]) = at
        BY <1>5
    <2> QED BY <1>6, <2>1 DEF Expect
<1>8. ASSUME NEW k \in 1..count PROVE NextItem(kind, data, prefix(k - 1)) = prefix(k)
    <2>1. k - 1 \in 0..count
        BY <1>1
    <2>2. f[k - 1] \in Seq(Bytes)
        BY <1>5, <2>1
    <2>3. NextItem(kind, data, Expect(data, at, f[k - 1], SubSeq(r, 1, k - 1))) =
              Expect(data, at, f[k - 1] \o EncodeItem(kind, s[k]), Append(SubSeq(r, 1, k - 1), r[k]))
        <3> DEFINE x == f[k - 1]
                   item == s[k]
                   v == r[k]
                   b == at + Len(x)
                   items == SubSeq(r, 1, k - 1)
        <3>1. Arrives(kind, item, v) /\ Agrees(data, b, EncodeItem(kind, item))
            BY <1>2, <1>3
        <3>2. x \in Seq(Bytes) /\ b = at + Len(x)
            BY <2>2
        <3> HIDE DEF x, item, v, b, items
        <3>3. NextItem(kind, data, Expect(data, at, x, items)) =
                  Expect(data, at, x \o EncodeItem(kind, item), Append(items, v))
            BY <3>1, <3>2, NextItemRead
        <3> QED BY <3>3 DEF x, item, v, items
    <2> QED BY <1>4, <1>5, <2>3
<1>9. prefix(count) = Expect(data, at, f[count], r)
    BY <1>1
<1> HIDE DEF count, prefix, start
<1>10. g = h
    <2>1. ASSUME NEW k \in 0..count PROVE g[k] = h[k]
        <3>1. CASE k = 0
            BY <1>7, <3>1
        <3>2. CASE k # 0
            <4>1. k \in 1..count /\ k - 1 \in 0..count
                BY <3>2, <1>1 DEF count
            <4>2. g[k - 1] = prefix(k - 1)
                BY <4>1
            <4> QED BY <1>8, <3>2, <4>1, <4>2
        <3> QED BY <3>1, <3>2
    <2> QED BY <2>1
<1> DEFINE first == CHOOSE q : q = [k \in 0..count |->
                        IF k = 0 THEN start ELSE NextItem(kind, data, q[k - 1])]
<1>11. first = [k \in 0..count |-> IF k = 0 THEN start ELSE NextItem(kind, data, first[k - 1])]
    <2>1. \E q : q = [k \in 0..count |-> IF k = 0 THEN start ELSE NextItem(kind, data, q[k - 1])]
        <3> HIDE DEF g
        <3> QED BY <1>10
    <2> QED BY <2>1
<1>12. DecodeItems(kind, data, at, count) = first[count]
    BY DEF DecodeItems, NextItem, start
<1> HIDE DEF first
<1>13. \A k \in 0..count : first[k] = IF k = 0 THEN start ELSE NextItem(kind, data, first[k - 1])
    BY <1>11
<1> DEFINE T == {k \in Nat : k <= count => first[k] = prefix(k)}
<1>14. 0 \in T
    <2>1. 0 \in 0..count
        BY <1>1 DEF count
    <2> QED BY <1>7, <1>13, <2>1
<1>15. ASSUME NEW k \in Nat, k \in T PROVE k + 1 \in T
    <2> SUFFICES ASSUME k + 1 <= count PROVE first[k + 1] = prefix(k + 1)
        OBVIOUS
    <2>1. k + 1 \in 1..count /\ k + 1 \in 0..count /\ (k + 1) - 1 = k /\ k <= count /\ k + 1 # 0
        BY <1>1 DEF count
    <2>2. first[k] = prefix(k)
        BY <1>15, <2>1
    <2>3. first[k + 1] = NextItem(kind, data, prefix(k))
        BY <1>13, <2>1, <2>2
    <2>4. NextItem(kind, data, prefix((k + 1) - 1)) = prefix(k + 1)
        BY <1>8, <2>1
    <2> QED BY <2>1, <2>3, <2>4
<1>16. Nat \subseteq T
    <2> HIDE DEF T
    <2> QED BY <1>14, <1>15, NumberInduction
<1>17. first[count] = prefix(count)
    BY <1>1, <1>16 DEF count
<1> QED BY <1>9, <1>12, <1>17 DEF count

\* The list s arrives as r.
ListArrives(kind, s, r) ==
    /\ EncodeList(kind, s) \in Seq(Bytes)
    /\ \A data \in Seq(Bytes), at \in Nat :
           Agrees(data, at, EncodeList(kind, s)) =>
               DecodeList(kind, data, at) = Expect(data, at, EncodeList(kind, s), r)

LEMMA ListRead ==
    ASSUME NEW kind, NEW s, NEW R, NEW r \in Seq(R), Len(s) = Len(r), Len(r) < Power[HALF],
           AllArrive(kind, s, r)
    PROVE  ListArrives(kind, s, r)
<1> DEFINE count == Len(r)
           x == Digits(count, HALF)
           e == EncodeList(kind, s)
<1>1. count \in Nat /\ HALF \in Nat /\ count < Power[HALF]
    BY WidthsArePositive
<1>2. x \in Seq(Bytes) /\ Len(x) = HALF
    <2> HIDE DEF count
    <2> QED BY <1>1, DigitsType
<1>3. PICK f : Run(kind, s, count, f) /\ e = x \o f[count]
    <2>1. Len(s) \in Nat
        OBVIOUS
    <2> QED BY <2>1, ListEncoded
<1>4. Running(kind, s, count, f)
    BY <1>3, RunType
<1>5. f[count] \in Seq(Bytes)
    BY <1>1, <1>4 DEF Running
<1> HIDE DEF x, e
<1>6. e \in Seq(Bytes)
    BY <1>2, <1>3, <1>5, ConcatProperties
<1>7. ASSUME NEW data \in Seq(Bytes), NEW at \in Nat, Agrees(data, at, e)
      PROVE  DecodeList(kind, data, at) = Expect(data, at, e, r)
    <2> DEFINE b == at + Len(x)
               y == f[count]
               u == DecodeItems(kind, data, b, count)
               q == Expect(data, at, x, count)
    <2>1. Agrees(data, at, x) /\ Agrees(data, b, y)
        BY <1>2, <1>3, <1>5, <1>7, AgreesConcat
    <2>2. b \in Nat /\ Len(data) \in Nat
        BY <1>1, <1>2
    <2>3. Unpack(data, at, HALF) = q
        <3> HIDE DEF count
        <3> QED BY <1>1, <2>1, UnpackRead DEF x
    <2>4. b <= Len(data) => u = Expect(data, b, y, r)
        BY <1>4, <2>1, <2>2, ItemsRead
    <2>5. ~(q.at < 0) => b <= Len(data)
        BY <1>2, Expected
    <2>6. Chain(q, Expect(data, at, x \o y, r), Expect(data, b, y, r), count, b)
        <3>1. y \in Seq(Bytes) /\ b = at + Len(x)
            BY <1>5
        <3> HIDE DEF y, count, b
        <3> QED BY <1>2, <3>1, ThenExpected
    <2> HIDE DEF q, y
    <2>7. DecodeList(kind, data, at) =
              IF q.at < 0 THEN Refused ELSE DecodeItems(kind, data, q.at, q.value)
        BY <2>3 DEF DecodeList, Then
    <2>8. e = x \o y
        BY <1>3 DEF y
    <2> QED BY <2>4, <2>5, <2>6, <2>7, <2>8 DEF Chain
<1> QED BY <1>6, <1>7 DEF e, ListArrives

LEMMA FirstOfConcat ==
    ASSUME NEW x \in Seq(Bytes), NEW y \in Seq(Bytes), Len(x) > 0
    PROVE  (x \o y)[1] = x[1]
<1>1. Len(x) \in Nat /\ Len(y) \in Nat
    OBVIOUS
<1>2. 1 \in 1..(Len(x) + Len(y)) /\ 1 <= Len(x)
    BY <1>1
<1> QED BY <1>2, ConcatProperties

\* A key is read from its tag and its coordinates.
LEMMA KeyRead ==
    ASSUME NEW a \in Nat, NEW b \in Nat, a < Power[COORD], b < Power[COORD]
    PROVE  /\ EncodeKey(<<a, b>>) \in Seq(Bytes)
           /\ Len(EncodeKey(<<a, b>>)) = 1 + 2 * COORD
           /\ DecodeKey(EncodeKey(<<a, b>>)) = Done(<<a, b>>, 1 + 2 * COORD)
<1> DEFINE t == <<POINT_TAG>>
           x == Digits(a, COORD)
           y == Digits(b, COORD)
           e == EncodeKey(<<a, b>>)
<1>1. COORD \in Nat /\ x \in Seq(Bytes) /\ y \in Seq(Bytes) /\ Len(x) = COORD /\ Len(y) = COORD
    BY DigitsType, WidthsArePositive
<1>2. t \in Seq(Bytes) /\ Len(t) = 1 /\ t[1] = POINT_TAG
    BY ByteIsPositive, WireAssumption DEF POINT_TAG, Bytes
<1>3. e = (t \o x) \o y
    BY DEF EncodeKey
<1>4. Number[x] = a /\ Number[y] = b
    BY <1>1, NumberRead
<1> DEFINE h == t \o x
<1> HIDE DEF t, x, y, e, h
<1>5. Adjoined(t, x, h, 1, COORD)
    BY <1>1, <1>2 DEF Adjoined, h
<1>6. h \in Seq(Bytes) /\ Len(h) = 1 + COORD /\ Slice(h, 1, COORD) = x
    <2>1. PICK p : p = 1
        OBVIOUS
    <2>2. Adjoined(t, x, h, p, COORD)
        BY <1>5, <2>1
    <2>3. h \in Seq(Bytes) /\ Len(h) = p + COORD /\ Slice(h, p, COORD) = x
        BY <2>2, AdjoinedType
    <2> QED BY <2>1, <2>3
<1>7. Adjoined(h, y, e, 1 + COORD, COORD)
    BY <1>1, <1>3, <1>6 DEF Adjoined, h
<1>8. /\ e \in Seq(Bytes) /\ Len(e) = 1 + 2 * COORD /\ Slice(e, 1 + COORD, COORD) = y
      /\ Slice(e, 1, COORD) = x
    <2>1. e \in Seq(Bytes) /\ Len(e) = (1 + COORD) + COORD /\ Slice(e, 1 + COORD, COORD) = y
        BY <1>7, AdjoinedType
    <2>2. \A p, k \in Nat : p + k <= 1 + COORD => Slice(e, p, k) = Slice(h, p, k)
        BY <1>7, AdjoinedSlice
    <2>3. Slice(e, 1, COORD) = Slice(h, 1, COORD)
        BY <1>1, <2>2
    <2>4. (1 + COORD) + COORD = 1 + 2 * COORD
        BY <1>1
    <2> QED BY <1>6, <2>1, <2>3, <2>4
<1>9. e[1] = POINT_TAG
    <2>1. e = h \o y /\ h = t \o x
        BY <1>5, <1>7 DEF Adjoined
    <2>2. Len(h) > 0 /\ Len(t) > 0
        BY <1>1, <1>2, <1>6
    <2>3. h[1] = t[1]
        BY <1>1, <1>2, <2>1, <2>2, FirstOfConcat
    <2>4. e[1] = h[1]
        BY <1>1, <1>6, <2>1, <2>2, FirstOfConcat
    <2> QED BY <1>2, <2>3, <2>4
<1>10. Head(e) = POINT_TAG
    <2>1. e # <<>>
        BY <1>1, <1>8
    <2> QED BY <1>8, <1>9, <2>1
<1>11. DecodeKey(e) = Done(<<a, b>>, 1 + 2 * COORD)
    BY <1>4, <1>8, <1>10 DEF DecodeKey
<1> QED BY <1>8, <1>11 DEF e

-----------------------------------------------------------------------------
(* Payloads.                                                               *)

\* A payload p arrives as v.
PayloadArrives(p, v) ==
    /\ Build(p) \in Seq(Bytes)
    /\ \A data \in Seq(Bytes) :
           Agrees(data, 0, Build(p)) => Parse(p.type, data) = Expect(data, 0, Build(p), v)

\* Three fields that make e together, the second at offset b and the third at c.
Consecutive(e, x, y, z, b, c) ==
    /\ e = (x \o y) \o z
    /\ x \in Seq(Bytes) /\ y \in Seq(Bytes) /\ z \in Seq(Bytes)
    /\ b = 0 + Len(x) /\ c = b + Len(y)

\* They are decoded as q1, q2 and q3, and all of e as E: as m, unless one of
\* them is refused.
Chained(E, m, q1, q2, q3, u, v, w, b, c) ==
    /\ q1.at < 0 => E = Refused
    /\ ~(q1.at < 0) =>
           /\ q1.value = u /\ q1.at = b
           /\ q2.at < 0 => E = Refused
           /\ ~(q2.at < 0) =>
                  /\ q2.value = v /\ q2.at = c
                  /\ q3.at < 0 => E = Refused
                  /\ ~(q3.at < 0) => q3.value = w /\ E = Done(m, q3.at)

LEMMA Regrouped ==
    ASSUME NEW x \in Seq(Bytes), NEW y \in Seq(Bytes), NEW z \in Seq(Bytes), NEW yz, yz = y \o z
    PROVE  (x \o y) \o z = x \o yz
BY ConcatAssociative

LEMMA ThreeFields ==
    ASSUME NEW data \in Seq(Bytes),
           NEW e, NEW x, NEW y, NEW z, NEW b, NEW c, Consecutive(e, x, y, z, b, c),
           NEW m, NEW u, NEW v, NEW w
    PROVE  Chained(Expect(data, 0, e, m), m,
                   Expect(data, 0, x, u), Expect(data, b, y, v), Expect(data, c, z, w), u, v, w, b, c)
<1>1. PICK at : at = 0
    OBVIOUS
<1>2. /\ x \in Seq(Bytes) /\ y \in Seq(Bytes) /\ z \in Seq(Bytes)
      /\ b = at + Len(x) /\ c = b + Len(y) /\ e = (x \o y) \o z
    BY <1>1 DEF Consecutive
<1> DEFINE yz == y \o z
           q1 == Expect(data, at, x, u)
           q2 == Expect(data, b, y, v)
           q3 == Expect(data, c, z, w)
<1>3. at \in Nat /\ b \in Nat /\ c \in Nat /\ yz \in Seq(Bytes)
    BY <1>1, <1>2, ConcatProperties
<1> HIDE DEF yz
<1>4. e = x \o yz
    <2>1. yz = y \o z
        BY DEF yz
    <2>2. (x \o y) \o z = x \o yz
        BY <1>2, <2>1, Regrouped
    <2> QED BY <1>2, <2>2
<1>5. Chain(q1, Expect(data, at, x \o yz, m), Expect(data, b, yz, m), u, b)
    BY <1>2, <1>3, ThenExpected
<1>6. Chain(q2, Expect(data, b, y \o z, m), Expect(data, c, z, m), v, c)
    BY <1>2, <1>3, ThenExpected
<1>7. /\ q3.at < 0 => Expect(data, c, z, m) = Refused
      /\ ~(q3.at < 0) => q3.value = w /\ Expect(data, c, z, m) = Done(m, q3.at)
    BY <1>2, <1>3, WrapExpected
<1> HIDE DEF q1, q2, q3
<1>8. Chained(Expect(data, at, e, m), m, q1, q2, q3, u, v, w, b, c)
    BY <1>4, <1>5, <1>6, <1>7 DEF Chained, Chain, yz
<1> QED BY <1>1, <1>8 DEF q1, q2, q3

LEMMA ThreeAgree ==
    ASSUME NEW e, NEW x, NEW y, NEW z, NEW b, NEW c, Consecutive(e, x, y, z, b, c)
    PROVE  /\ e \in Seq(Bytes) /\ b \in Nat /\ c \in Nat
           /\ \A data \in Seq(Bytes) :
                  Agrees(data, 0, e) =>
                      Agrees(data, 0, x) /\ Agrees(data, b, y) /\ Agrees(data, c, z)
<1>1. PICK at : at = 0
    OBVIOUS
<1>2. /\ x \in Seq(Bytes) /\ y \in Seq(Bytes) /\ z \in Seq(Bytes)
      /\ b = at + Len(x) /\ c = b + Len(y) /\ e = (x \o y) \o z
    BY <1>1 DEF Consecutive
<1> DEFINE xy == x \o y
<1>3. xy \in Seq(Bytes) /\ Len(xy) = Len(x) + Len(y) /\ b \in Nat /\ c \in Nat /\ at \in Nat
    BY <1>1, <1>2, ConcatProperties
<1>4. c = at + Len(xy)
    BY <1>2, <1>3
<1> HIDE DEF xy
<1>5. e = xy \o z
    BY <1>2 DEF xy
<1>6. e \in Seq(Bytes)
    BY <1>2, <1>3, <1>5, ConcatProperties
<1>7. ASSUME NEW data \in Seq(Bytes), Agrees(data, at, e)
      PROVE  Agrees(data, at, x) /\ Agrees(data, b, y) /\ Agrees(data, c, z)
    <2>1. Agrees(data, at, xy) /\ Agrees(data, at + Len(xy), z)
        BY <1>2, <1>3, <1>5, <1>7, AgreesConcat
    <2>2. Agrees(data, at, x) /\ Agrees(data, at + Len(x), y)
        BY <1>2, <1>3, <2>1, AgreesConcat DEF xy
    <2> QED BY <1>2, <1>4, <2>1, <2>2
<1> QED BY <1>1, <1>3, <1>6, <1>7

LEMMA PeersArrive ==
    ASSUME NEW peers, NEW r, ListArrives("agent", peers, r)
    PROVE  PayloadArrives([type |-> "PEERS", peers |-> peers], [type |-> "PEERS", peers |-> r])
<1> DEFINE p == [type |-> "PEERS", peers |-> peers]
           m == [type |-> "PEERS", peers |-> r]
           e == EncodeList("agent", peers)
<1>1. p.type = "PEERS" /\ p.peers = peers
    OBVIOUS
<1> HIDE DEF p
<1>2. Build(p) = e
    BY <1>1 DEF Build
<1>3. e \in Seq(Bytes)
    BY DEF ListArrives
<1>4. ASSUME NEW data \in Seq(Bytes), Agrees(data, 0, e)
      PROVE  Parse(p.type, data) = Expect(data, 0, e, m)
    <2> DEFINE q == DecodeList("agent", data, 0)
               z == Expect(data, 0, e, r)
    <2>1. q = z
        BY <1>4 DEF ListArrives
    <2>2. Parse(p.type, data) =
              IF q.at < 0 THEN Refused ELSE Done([type |-> "PEERS", peers |-> q.value], q.at)
        <3>1. Parse(p.type, data) = ParsePeers(data)
            BY <1>1 DEF Parse
        <3> QED BY <3>1 DEF ParsePeers, Then
    <2>3. /\ z.at < 0 => Expect(data, 0, e, m) = Refused
          /\ ~(z.at < 0) => z.value = r /\ Expect(data, 0, e, m) = Done(m, z.at)
        <3>1. 0 \in Nat
            OBVIOUS
        <3> HIDE DEF e, m
        <3> QED BY <1>3, <3>1, WrapExpected
    <2> HIDE DEF q, z, e
    <2> QED BY <2>1, <2>2, <2>3
<1> QED BY <1>2, <1>3, <1>4 DEF PayloadArrives, p

LEMMA ExactRead ==
    ASSUME NEW data \in Seq(Bytes), NEW at \in Nat, NEW e \in Seq(Bytes), NEW k, Len(e) = k,
           Agrees(data, at, e)
    PROVE  Exactly(data, at, k) = Expect(data, at, e, e)
BY ExactlyRead

LEMMA AssignArrives ==
    ASSUME NEW task \in Seq(Bytes), Len(task) = ID,
           NEW algorithm \in Seq(Character), Len(Utf8[algorithm]) < Power[WORD],
           NEW params, NEW r, ListArrives("param", params, r)
    PROVE  PayloadArrives(
               [type |-> "ASSIGN", task |-> task, algorithm |-> algorithm, params |-> params],
               [type |-> "ASSIGN", task |-> task, algorithm |-> algorithm, params |-> r])
<1> DEFINE p == [type |-> "ASSIGN", task |-> task, algorithm |-> algorithm, params |-> params]
           m == [type |-> "ASSIGN", task |-> task, algorithm |-> algorithm, params |-> r]
           y == EncodeString(algorithm)
           z == EncodeList("param", params)
           e == (task \o y) \o z
           b == 0 + Len(task)
           c == b + Len(y)
<1>1. p.type = "ASSIGN" /\ p.task = task /\ p.algorithm = algorithm /\ p.params = params
    OBVIOUS
<1> HIDE DEF p
<1>2. Build(p) = e
    BY <1>1 DEF Build
<1>3. y \in Seq(Bytes) /\ z \in Seq(Bytes) /\ 0 \in Nat
    BY StringRead DEF ListArrives
<1>4. ASSUME NEW data \in Seq(Bytes)
      PROVE  Parse(p.type, data) =
                 Then(Exactly(data, 0, ID), LAMBDA t, i :
                     Then(DecodeString(data, i), LAMBDA a, j :
                         Then(DecodeList("param", data, j), LAMBDA s, k :
                             Done([type |-> "ASSIGN", task |-> t, algorithm |-> a, params |-> s], k))))
    <2>1. Parse(p.type, data) = ParseAssign(data)
        BY <1>1 DEF Parse
    <2> QED BY <2>1 DEF ParseAssign
<1>5. ASSUME NEW data \in Seq(Bytes), NEW at \in Nat
      PROVE  /\ Agrees(data, at, y) => DecodeString(data, at) = Expect(data, at, y, algorithm)
             /\ Agrees(data, at, z) => DecodeList("param", data, at) = Expect(data, at, z, r)
    BY StringRead DEF ListArrives
<1> HIDE DEF y, z
<1>0. Consecutive(e, task, y, z, b, c)
    BY <1>3 DEF Consecutive
<1> HIDE DEF e, b, c
<1>6. /\ e \in Seq(Bytes) /\ b \in Nat /\ c \in Nat
      /\ \A data \in Seq(Bytes) :
             Agrees(data, 0, e) => Agrees(data, 0, task) /\ Agrees(data, b, y) /\ Agrees(data, c, z)
    BY <1>0, ThreeAgree
<1>7. ASSUME NEW data \in Seq(Bytes), Agrees(data, 0, e)
      PROVE  Parse(p.type, data) = Expect(data, 0, e, m)
    <2> DEFINE q1 == Exactly(data, 0, ID)
               q2 == DecodeString(data, b)
               q3 == DecodeList("param", data, c)
               E == Expect(data, 0, e, m)
    <2>1. Agrees(data, 0, task) /\ Agrees(data, b, y) /\ Agrees(data, c, z)
        BY <1>6, <1>7
    <2>2. q1 = Expect(data, 0, task, task)
        BY <1>3, <2>1, ExactRead
    <2>3. q2 = Expect(data, b, y, algorithm) /\ q3 = Expect(data, c, z, r)
        BY <1>5, <1>6, <2>1
    <2>4. Chained(E, m, q1, q2, q3, task, algorithm, r, b, c)
        <3>1. Chained(E, m, Expect(data, 0, task, task), Expect(data, b, y, algorithm),
                      Expect(data, c, z, r), task, algorithm, r, b, c)
            <4> HIDE DEF m
            <4> QED BY <1>0, ThreeFields
        <3> HIDE DEF q1, q2, q3, E
        <3> QED BY <2>2, <2>3, <3>1
    <2>5. Parse(p.type, data) =
              IF q1.at < 0 THEN Refused
              ELSE LET d2 == DecodeString(data, q1.at)
                       d3 == DecodeList("param", data, d2.at)
                   IN  IF d2.at < 0 THEN Refused
                       ELSE IF d3.at < 0 THEN Refused
                       ELSE Done([type |-> "ASSIGN", task |-> q1.value, algorithm |-> d2.value,
                                  params |-> d3.value], d3.at)
        BY <1>4 DEF Then
    <2> HIDE DEF q1, E
    <2>6. CASE q1.at < 0
        BY <2>4, <2>5, <2>6 DEF Chained, E
    <2>7. CASE ~(q1.at < 0) /\ q2.at < 0
        BY <2>4, <2>5, <2>7 DEF Chained, E
    <2>8. CASE ~(q1.at < 0) /\ ~(q2.at < 0)
        BY <2>4, <2>5, <2>8 DEF Chained, E
    <2> QED BY <2>6, <2>7, <2>8
<1>8. Build(p) = e
    BY <1>2 DEF e
<1> QED BY <1>6, <1>7, <1>8 DEF PayloadArrives, p

LEMMA ResultArrives ==
    ASSUME NEW task \in Seq(Bytes), Len(task) = ID,
           NEW status \in Seq(Character), Len(Utf8[status]) < Power[WORD],
           NEW factors, NEW r, ListArrives("number", factors, r)
    PROVE  PayloadArrives(
               [type |-> "RESULT", task |-> task, status |-> status, factors |-> factors],
               [type |-> "RESULT", task |-> task, status |-> status, factors |-> r])
<1> DEFINE p == [type |-> "RESULT", task |-> task, status |-> status, factors |-> factors]
           m == [type |-> "RESULT", task |-> task, status |-> status, factors |-> r]
           y == EncodeString(status)
           z == EncodeList("number", factors)
           e == (task \o y) \o z
           b == 0 + Len(task)
           c == b + Len(y)
<1>1. p.type = "RESULT" /\ p.task = task /\ p.status = status /\ p.factors = factors
    OBVIOUS
<1> HIDE DEF p
<1>2. Build(p) = e
    BY <1>1 DEF Build
<1>3. y \in Seq(Bytes) /\ z \in Seq(Bytes) /\ 0 \in Nat
    BY StringRead DEF ListArrives
<1>4. ASSUME NEW data \in Seq(Bytes)
      PROVE  Parse(p.type, data) =
                 Then(Exactly(data, 0, ID), LAMBDA t, i :
                     Then(DecodeString(data, i), LAMBDA a, j :
                         Then(DecodeList("number", data, j), LAMBDA s, k :
                             Done([type |-> "RESULT", task |-> t, status |-> a, factors |-> s], k))))
    <2>1. Parse(p.type, data) = ParseResult(data)
        BY <1>1 DEF Parse
    <2> QED BY <2>1 DEF ParseResult
<1>5. ASSUME NEW data \in Seq(Bytes), NEW at \in Nat
      PROVE  /\ Agrees(data, at, y) => DecodeString(data, at) = Expect(data, at, y, status)
             /\ Agrees(data, at, z) => DecodeList("number", data, at) = Expect(data, at, z, r)
    BY StringRead DEF ListArrives
<1> HIDE DEF y, z
<1>0. Consecutive(e, task, y, z, b, c)
    BY <1>3 DEF Consecutive
<1> HIDE DEF e, b, c
<1>6. /\ e \in Seq(Bytes) /\ b \in Nat /\ c \in Nat
      /\ \A data \in Seq(Bytes) :
             Agrees(data, 0, e) => Agrees(data, 0, task) /\ Agrees(data, b, y) /\ Agrees(data, c, z)
    BY <1>0, ThreeAgree
<1>7. ASSUME NEW data \in Seq(Bytes), Agrees(data, 0, e)
      PROVE  Parse(p.type, data) = Expect(data, 0, e, m)
    <2> DEFINE q1 == Exactly(data, 0, ID)
               q2 == DecodeString(data, b)
               q3 == DecodeList("number", data, c)
               E == Expect(data, 0, e, m)
    <2>1. Agrees(data, 0, task) /\ Agrees(data, b, y) /\ Agrees(data, c, z)
        BY <1>6, <1>7
    <2>2. q1 = Expect(data, 0, task, task)
        BY <1>3, <2>1, ExactRead
    <2>3. q2 = Expect(data, b, y, status) /\ q3 = Expect(data, c, z, r)
        BY <1>5, <1>6, <2>1
    <2>4. Chained(E, m, q1, q2, q3, task, status, r, b, c)
        <3>1. Chained(E, m, Expect(data, 0, task, task), Expect(data, b, y, status),
                      Expect(data, c, z, r), task, status, r, b, c)
            <4> HIDE DEF m
            <4> QED BY <1>0, ThreeFields
        <3> HIDE DEF q1, q2, q3, E
        <3> QED BY <2>2, <2>3, <3>1
    <2>5. Parse(p.type, data) =
              IF q1.at < 0 THEN Refused
              ELSE LET d2 == DecodeString(data, q1.at)
                       d3 == DecodeList("number", data, d2.at)
                   IN  IF d2.at < 0 THEN Refused
                       ELSE IF d3.at < 0 THEN Refused
                       ELSE Done([type |-> "RESULT", task |-> q1.value, status |-> d2.value,
                                  factors |-> d3.value], d3.at)
        BY <1>4 DEF Then
    <2> HIDE DEF q1, E
    <2>6. CASE q1.at < 0
        BY <2>4, <2>5, <2>6 DEF Chained, E
    <2>7. CASE ~(q1.at < 0) /\ q2.at < 0
        BY <2>4, <2>5, <2>7 DEF Chained, E
    <2>8. CASE ~(q1.at < 0) /\ ~(q2.at < 0)
        BY <2>4, <2>5, <2>8 DEF Chained, E
    <2> QED BY <2>6, <2>7, <2>8
<1>8. Build(p) = e
    BY <1>2 DEF e
<1> QED BY <1>6, <1>7, <1>8 DEF PayloadArrives, p

LEMMA NumberField ==
    ASSUME NEW v \in Nat, Magnitude(v) < Power[WORD]
    PROVE  /\ EncodeBigint(v) \in Seq(Bytes)
           /\ \A data \in Seq(Bytes), at \in Nat :
                  Agrees(data, at, EncodeBigint(v)) =>
                      DecodeBigint(data, at) = Expect(data, at, EncodeBigint(v), v)
<1>1. v \in Int /\ ~(v < 0)
    OBVIOUS
<1>2. ReadBack(v) = v
    BY <1>1, ReadBackValue
<1> QED BY <1>1, <1>2, BigintRead

LEMMA VerifyArrives ==
    ASSUME NEW task \in Seq(Bytes), Len(task) = ID,
           NEW v \in Nat, Magnitude(v) < Power[WORD],
           NEW factors, NEW r, ListArrives("number", factors, r)
    PROVE  PayloadArrives(
               [type |-> "VERIFY", task |-> task, n |-> v, factors |-> factors],
               [type |-> "VERIFY", task |-> task, n |-> v, factors |-> r])
<1> DEFINE p == [type |-> "VERIFY", task |-> task, n |-> v, factors |-> factors]
           m == [type |-> "VERIFY", task |-> task, n |-> v, factors |-> r]
           y == EncodeBigint(v)
           z == EncodeList("number", factors)
           e == (task \o y) \o z
           b == 0 + Len(task)
           c == b + Len(y)
<1>1. p.type = "VERIFY" /\ p.task = task /\ p.n = v /\ p.factors = factors
    OBVIOUS
<1> HIDE DEF p
<1>2. Build(p) = e
    BY <1>1 DEF Build
<1>3. y \in Seq(Bytes) /\ z \in Seq(Bytes) /\ 0 \in Nat
    BY NumberField DEF ListArrives
<1>4. ASSUME NEW data \in Seq(Bytes)
      PROVE  Parse(p.type, data) =
                 Then(Exactly(data, 0, ID), LAMBDA t, i :
                     Then(DecodeBigint(data, i), LAMBDA a, j :
                         Then(DecodeList("number", data, j), LAMBDA s, k :
                             Done([type |-> "VERIFY", task |-> t, n |-> a, factors |-> s], k))))
    <2>1. Parse(p.type, data) = ParseVerify(data)
        BY <1>1 DEF Parse
    <2> QED BY <2>1 DEF ParseVerify
<1>5. ASSUME NEW data \in Seq(Bytes), NEW at \in Nat
      PROVE  /\ Agrees(data, at, y) => DecodeBigint(data, at) = Expect(data, at, y, v)
             /\ Agrees(data, at, z) => DecodeList("number", data, at) = Expect(data, at, z, r)
    BY NumberField DEF ListArrives
<1> HIDE DEF y, z
<1>0. Consecutive(e, task, y, z, b, c)
    BY <1>3 DEF Consecutive
<1> HIDE DEF e, b, c
<1>6. /\ e \in Seq(Bytes) /\ b \in Nat /\ c \in Nat
      /\ \A data \in Seq(Bytes) :
             Agrees(data, 0, e) => Agrees(data, 0, task) /\ Agrees(data, b, y) /\ Agrees(data, c, z)
    BY <1>0, ThreeAgree
<1>7. ASSUME NEW data \in Seq(Bytes), Agrees(data, 0, e)
      PROVE  Parse(p.type, data) = Expect(data, 0, e, m)
    <2> DEFINE q1 == Exactly(data, 0, ID)
               q2 == DecodeBigint(data, b)
               q3 == DecodeList("number", data, c)
               E == Expect(data, 0, e, m)
    <2>1. Agrees(data, 0, task) /\ Agrees(data, b, y) /\ Agrees(data, c, z)
        BY <1>6, <1>7
    <2>2. q1 = Expect(data, 0, task, task)
        BY <1>3, <2>1, ExactRead
    <2>3. q2 = Expect(data, b, y, v) /\ q3 = Expect(data, c, z, r)
        BY <1>5, <1>6, <2>1
    <2>4. Chained(E, m, q1, q2, q3, task, v, r, b, c)
        <3>1. Chained(E, m, Expect(data, 0, task, task), Expect(data, b, y, v),
                      Expect(data, c, z, r), task, v, r, b, c)
            <4> HIDE DEF m
            <4> QED BY <1>0, ThreeFields
        <3> HIDE DEF q1, q2, q3, E
        <3> QED BY <2>2, <2>3, <3>1
    <2>5. Parse(p.type, data) =
              IF q1.at < 0 THEN Refused
              ELSE LET d2 == DecodeBigint(data, q1.at)
                       d3 == DecodeList("number", data, d2.at)
                   IN  IF d2.at < 0 THEN Refused
                       ELSE IF d3.at < 0 THEN Refused
                       ELSE Done([type |-> "VERIFY", task |-> q1.value, n |-> d2.value,
                                  factors |-> d3.value], d3.at)
        BY <1>4 DEF Then
    <2> HIDE DEF q1, E
    <2>6. CASE q1.at < 0
        BY <2>4, <2>5, <2>6 DEF Chained, E
    <2>7. CASE ~(q1.at < 0) /\ q2.at < 0
        BY <2>4, <2>5, <2>7 DEF Chained, E
    <2>8. CASE ~(q1.at < 0) /\ ~(q2.at < 0)
        BY <2>4, <2>5, <2>8 DEF Chained, E
    <2> QED BY <2>6, <2>7, <2>8
<1>8. Build(p) = e
    BY <1>2 DEF e
<1> QED BY <1>6, <1>7, <1>8 DEF PayloadArrives, p

LEMMA HelloArrives ==
    ASSUME NEW capabilities, NEW r, ListArrives("text", capabilities, r),
           NEW k1 \in Nat, NEW k2 \in Nat, k1 < Power[COORD], k2 < Power[COORD],
           NEW port \in Nat, port < Power[HALF]
    PROVE  PayloadArrives(
               [type |-> "HELLO", capabilities |-> capabilities, key |-> <<k1, k2>>, port |-> port],
               [type |-> "HELLO", capabilities |-> r, key |-> <<k1, k2>>, port |-> port])
<1> DEFINE key == <<k1, k2>>
           p == [type |-> "HELLO", capabilities |-> capabilities, key |-> key, port |-> port]
           m == [type |-> "HELLO", capabilities |-> r, key |-> key, port |-> port]
           raw == EncodeKey(key)
           x == EncodeList("text", capabilities)
           y == EncodeBytes(raw)
           z == Digits(port, HALF)
           e == (x \o y) \o z
           b == 0 + Len(x)
           c == b + Len(y)
<1>1. p.type = "HELLO" /\ p.capabilities = capabilities /\ p.key = key /\ p.port = port
    OBVIOUS
<1> HIDE DEF p
<1>2. Build(p) = e
    BY <1>1 DEF Build
<1>3. raw \in Seq(Bytes) /\ Len(raw) < Power[WORD] /\ DecodeKey(raw) = Done(key, 1 + 2 * COORD)
    BY KeyRead, WireAssumption
<1> HIDE DEF raw
<1>4. y \in Seq(Bytes) /\ z \in Seq(Bytes) /\ x \in Seq(Bytes) /\ HALF \in Nat
    BY <1>3, BytesRead, DigitsType, WidthsArePositive DEF ListArrives
<1>5. /\ \A data \in Seq(Bytes), at \in Nat :
             Agrees(data, at, x) => DecodeList("text", data, at) = Expect(data, at, x, r)
      /\ \A data \in Seq(Bytes), at \in Nat :
             Agrees(data, at, y) => DecodeBytes(data, at) = Expect(data, at, y, raw)
      /\ \A data \in Seq(Bytes), at \in Nat :
             Agrees(data, at, z) => Unpack(data, at, HALF) = Expect(data, at, z, port)
    <2>1. \A data \in Seq(Bytes), at \in Nat :
              Agrees(data, at, x) => DecodeList("text", data, at) = Expect(data, at, x, r)
        BY DEF ListArrives
    <2>2. \A data \in Seq(Bytes), at \in Nat :
              Agrees(data, at, y) => DecodeBytes(data, at) = Expect(data, at, y, raw)
        BY <1>3, BytesRead
    <2>3. \A data \in Seq(Bytes), at \in Nat :
              Agrees(data, at, z) => Unpack(data, at, HALF) = Expect(data, at, z, port)
        BY <1>4, UnpackRead
    <2> QED BY <2>1, <2>2, <2>3
<1>6. ~(DecodeKey(raw).at < 0) /\ DecodeKey(raw).value = key
    <2>1. COORD \in Nat
        BY WidthsArePositive
    <2>2. DecodeKey(raw).at = 1 + 2 * COORD /\ DecodeKey(raw).value = key
        BY <1>3 DEF Done
    <2> QED BY <2>1, <2>2
<1> HIDE DEF x, y, z, key
<1>7. Consecutive(e, x, y, z, b, c)
    BY <1>4 DEF Consecutive
<1> HIDE DEF e, b, c
<1>8. /\ e \in Seq(Bytes) /\ b \in Nat /\ c \in Nat
      /\ \A data \in Seq(Bytes) :
             Agrees(data, 0, e) => Agrees(data, 0, x) /\ Agrees(data, b, y) /\ Agrees(data, c, z)
    BY <1>7, ThreeAgree
<1>9. ASSUME NEW data \in Seq(Bytes), Agrees(data, 0, e)
      PROVE  Parse(p.type, data) = Expect(data, 0, e, m)
    <2> DEFINE q1 == DecodeList("text", data, 0)
               q2 == DecodeBytes(data, b)
               q3 == Unpack(data, c, HALF)
               E == Expect(data, 0, e, m)
    <2>1. Agrees(data, 0, x) /\ Agrees(data, b, y) /\ Agrees(data, c, z) /\ 0 \in Nat
        BY <1>8, <1>9
    <2>2. q1 = Expect(data, 0, x, r) /\ q2 = Expect(data, b, y, raw) /\ q3 = Expect(data, c, z, port)
        BY <1>5, <1>8, <2>1
    <2>3. Chained(E, m, q1, q2, q3, r, raw, port, b, c)
        <3>1. Chained(E, m, Expect(data, 0, x, r), Expect(data, b, y, raw), Expect(data, c, z, port),
                      r, raw, port, b, c)
            <4> HIDE DEF m
            <4> QED BY <1>7, ThreeFields
        <3> HIDE DEF q1, q2, q3, E
        <3> QED BY <2>2, <3>1
    <2>4. Parse(p.type, data) =
              IF q1.at < 0 THEN Refused
              ELSE LET d2 == DecodeBytes(data, q1.at)
                       d3 == Unpack(data, d2.at, HALF)
                   IN  IF d2.at < 0 THEN Refused
                       ELSE IF DecodeKey(d2.value).at < 0 THEN Refused
                       ELSE IF d3.at < 0 THEN Refused
                       ELSE Done([type |-> "HELLO", capabilities |-> q1.value,
                                  key |-> DecodeKey(d2.value).value, port |-> d3.value], d3.at)
        <3>1. Parse(p.type, data) = ParseHello(data)
            BY <1>1 DEF Parse
        <3> QED BY <3>1 DEF ParseHello, Then
    <2> HIDE DEF q1, E
    <2>5. CASE q1.at < 0
        BY <2>3, <2>4, <2>5 DEF Chained, E
    <2>6. CASE ~(q1.at < 0) /\ q2.at < 0
        BY <2>3, <2>4, <2>6 DEF Chained, E
    <2>7. CASE ~(q1.at < 0) /\ ~(q2.at < 0)
        BY <1>6, <2>3, <2>4, <2>7 DEF Chained, E
    <2> QED BY <2>5, <2>6, <2>7
<1>10. Build(p) = e
    BY <1>2 DEF e
<1> QED BY <1>8, <1>9, <1>10 DEF PayloadArrives, p, key

-----------------------------------------------------------------------------
(* The payloads of a run.                                                  *)

LEMMA SmallNumbers ==
    /\ 3 < Power[WORD] /\ 2 < Power[HALF] /\ Power[WORD] \in Nat
    /\ Power[2] \in Nat /\ Power[2] > 0 /\ Power[2] < Power[3]
<1>1. Power[1] = BYTE /\ Power[2] = BYTE * BYTE /\ Power[3] = BYTE * Power[2]
    <2>1. /\ Power[0] = 1 /\ Power[1] = BYTE * Power[0]
          /\ Power[2] = BYTE * Power[1] /\ Power[3] = BYTE * Power[2]
        <3>1. 0 \in Nat /\ 1 \in Nat /\ 2 \in Nat /\ 3 \in Nat
            OBVIOUS
        <3>2. /\ Power[0] = IF 0 = 0 THEN 1 ELSE BYTE * Power[0 - 1]
              /\ Power[1] = IF 1 = 0 THEN 1 ELSE BYTE * Power[1 - 1]
              /\ Power[2] = IF 2 = 0 THEN 1 ELSE BYTE * Power[2 - 1]
              /\ Power[3] = IF 3 = 0 THEN 1 ELSE BYTE * Power[3 - 1]
            BY <3>1, PowerStep
        <3>3. 1 - 1 = 0 /\ 2 - 1 = 1 /\ 3 - 1 = 2
            OBVIOUS
        <3> QED BY <3>2, <3>3
    <2>2. BYTE \in Nat
        BY WireAssumption
    <2> QED BY <2>1, <2>2
<1>2. BYTE \in Nat /\ BYTE >= 4
    BY WireAssumption
<1>3. Power[1] <= Power[WORD] /\ Power[1] <= Power[HALF] /\ Power[WORD] \in Nat /\ Power[HALF] \in Nat
    BY WidthsArePositive, PowerMonotone, PowerType
<1>4. BYTE * BYTE \in Nat /\ BYTE * BYTE > 0
    BY <1>2
<1> DEFINE p == BYTE * BYTE
<1>5. \A q \in Nat : q > 0 => BYTE * q > q
    BY <1>2
<1>6. BYTE * p > p
    BY <1>4, <1>5
<1> QED BY <1>1, <1>2, <1>3, <1>4, <1>6

\* The numbers of a payload fit behind the field for their length.
LEMMA NumbersFit ==
    ASSUME n \in 0..NMax
    PROVE  /\ Magnitude(n) < Power[WORD] /\ Magnitude(n * n) < Power[WORD]
           /\ Magnitude(0 - n) < Power[WORD] /\ Magnitude(0) < Power[WORD]
           /\ Magnitude(Power[2]) < Power[WORD] /\ Magnitude(Power[2] - 1) < Power[WORD]
<1>1. n \in Nat /\ NMax \in Nat /\ n <= NMax
    BY NMaxAssumption
<1> DEFINE sq == n * n
           top == NMax * NMax
           neg == 0 - n
           low == -NMax
<1>2. sq \in Nat /\ top \in Nat /\ n <= sq /\ sq <= top
    <2>1. sq <= top
        BY <1>1, SquaresGrow
    <2> QED BY <1>1, <2>1
<1>3. neg \in Int /\ low \in Int /\ Span(neg) <= Span(low) /\ Span(neg) \in Nat
    BY <1>1 DEF Span
<1>4. Magnitude(top) < Power[WORD] /\ Magnitude(low) < Power[WORD] /\ Power[WORD] \in Nat
    BY NMaxAssumption, SmallNumbers
<1> HIDE DEF sq, top, neg, low
<1>5. \A v \in Nat : v <= top => Magnitude(v) < Power[WORD]
    <2> SUFFICES ASSUME NEW v \in Nat, v <= top PROVE Magnitude(v) < Power[WORD]
        OBVIOUS
    <2>1. v \in Int /\ top \in Int /\ Span(v) <= Span(top)
        BY <1>2 DEF Span
    <2>2. Magnitude(v) <= Magnitude(top) /\ Magnitude(v) \in Nat /\ Magnitude(top) \in Nat
        BY <2>1, MagnitudeMonotone, MagnitudeProperties
    <2> QED BY <1>4, <2>2
<1>6. Magnitude(neg) < Power[WORD]
    <2>1. Magnitude(neg) <= Magnitude(low) /\ Magnitude(neg) \in Nat /\ Magnitude(low) \in Nat
        BY <1>3, MagnitudeMonotone, MagnitudeProperties
    <2> QED BY <1>4, <2>1
<1>7. \A v \in Nat : v <= Power[2] => Magnitude(v) < Power[WORD]
    <2> SUFFICES ASSUME NEW v \in Nat, v <= Power[2] PROVE Magnitude(v) < Power[WORD]
        OBVIOUS
    <2>1. v \in Int /\ Span(v) = v
        BY DEF Span
    <2>2. v < Power[3]
        <3>1. Power[3] \in Nat
            BY PowerType
        <3> QED BY <3>1, SmallNumbers
    <2>3. \A j \in Nat : j > 0 /\ Span(v) < Power[j] => Magnitude(v) <= j
        BY <2>1, MagnitudeProperties
    <2>4. 3 \in Nat /\ 3 > 0
        OBVIOUS
    <2>5. Magnitude(v) <= 3 /\ Magnitude(v) \in Nat
        BY <2>1, <2>2, <2>3, <2>4, MagnitudeProperties
    <2> QED BY <2>5, SmallNumbers
<1>8. 0 <= top /\ n <= top
    BY <1>1, <1>2
<1>9. Magnitude(n) < Power[WORD] /\ Magnitude(sq) < Power[WORD] /\ Magnitude(0) < Power[WORD]
    BY <1>1, <1>2, <1>5, <1>8
<1>10. Magnitude(Power[2]) < Power[WORD] /\ Magnitude(Power[2] - 1) < Power[WORD]
    <2>1. Power[2] \in Nat /\ Power[2] - 1 \in Nat /\ Power[2] - 1 <= Power[2] /\ Power[2] <= Power[2]
        BY SmallNumbers
    <2> QED BY <1>7, <2>1
<1> QED BY <1>6, <1>9, <1>10 DEF sq, neg

LEMMA PairsType ==
    ASSUME NEW S, NEW s \in Pairs(S)
    PROVE  /\ s \in Seq(S) /\ Len(s) \in Nat /\ Len(s) < Power[HALF]
           /\ \A i \in 1..Len(s) : s[i] \in S
<1>1. s \in Seq(S) /\ Len(s) <= 2
    <2>1. CASE s = <<>>
        BY <2>1
    <2>2. CASE \E a \in S : s = <<a>>
        BY <2>2
    <2>3. CASE \E a, b \in S : s = <<a, b>>
        BY <2>3
    <2> QED BY <2>1, <2>2, <2>3 DEF Pairs
<1>2. Power[HALF] \in Nat
    BY WidthsArePositive, PowerType
<1> QED BY <1>1, <1>2, SmallNumbers, ElementOfSeq

\* The texts of a payload are short.
LEMMA TextsType ==
    ASSUME NEW text \in Texts \cup {<<Wide>>}
    PROVE  text \in Seq(Character) /\ Len(Utf8[text]) < Power[WORD]
<1>1. 0 \in Character /\ 1 \in Character /\ Wide \in Character
    <2>1. Continuation \in Nat /\ Continuation > 1
        BY LeadAndContinuation, ByteIsPositive
    <2> QED BY <2>1 DEF Character
<1>2. /\ <<>> \in Seq(Character) /\ <<1>> \in Seq(Character) /\ <<0>> \in Seq(Character)
      /\ <<Wide, 0>> \in Seq(Character) /\ <<Wide>> \in Seq(Character)
    BY <1>1
<1>3. Utf8[<<>>] = <<>>
    BY <1>2, Utf8Step
<1>4. ASSUME NEW ch \in Character
      PROVE  /\ CharacterBytes(ch) \in Seq(Bytes) /\ Len(CharacterBytes(ch)) <= 2
             /\ ch # Wide => Len(CharacterBytes(ch)) = 1
    <2>1. Len(CharacterBytes(ch)) <= 2 /\ (ch # Wide => Len(CharacterBytes(ch)) = 1)
        <3>1. CASE ch = Wide
            BY <3>1 DEF CharacterBytes
        <3>2. CASE ch # Wide
            BY <3>2 DEF CharacterBytes
        <3> QED BY <3>1, <3>2
    <2> QED BY <2>1, CharacterBytesType
<1>5. ASSUME NEW ch \in Character, NEW s \in Seq(Character)
      PROVE  Len(Utf8[<<ch>> \o s]) = Len(CharacterBytes(ch)) + Len(Utf8[s])
    <2>1. Utf8[<<ch>> \o s] = CharacterBytes(ch) \o Utf8[s]
        BY Utf8OfCons
    <2>2. Utf8[s] \in Seq(Bytes)
        BY TextRead
    <2> QED BY <1>4, <2>1, <2>2, ConcatProperties
<1>6. /\ <<1>> \o <<>> = <<1>> /\ <<0>> \o <<>> = <<0>> /\ <<Wide>> \o <<>> = <<Wide>>
      /\ <<Wide>> \o <<0>> = <<Wide, 0>>
    BY <1>1, <1>2, ConcatEmptySeq, PairOfCons
<1>7. 0 # Wide /\ 1 # Wide
    BY WireAssumption
<1>8. Len(Utf8[<<>>]) = 0
    BY <1>3
<1>9. Len(Utf8[<<1>>]) = 1 /\ Len(Utf8[<<0>>]) = 1
    <2>1. /\ Len(Utf8[<<1>> \o <<>>]) = Len(CharacterBytes(1)) + 0
          /\ Len(Utf8[<<0>> \o <<>>]) = Len(CharacterBytes(0)) + 0
        BY <1>1, <1>2, <1>5, <1>8
    <2>2. Len(CharacterBytes(1)) = 1 /\ Len(CharacterBytes(0)) = 1
        BY <1>1, <1>4, <1>7
    <2> QED BY <1>6, <2>1, <2>2
<1>10. Len(Utf8[<<Wide, 0>>]) <= 3
    <2>1. Len(Utf8[<<Wide>> \o <<0>>]) = Len(CharacterBytes(Wide)) + Len(Utf8[<<0>>])
        BY <1>1, <1>2, <1>5
    <2>2. Len(CharacterBytes(Wide)) <= 2 /\ Len(CharacterBytes(Wide)) \in Nat
        BY <1>1, <1>4
    <2>3. Len(Utf8[<<Wide, 0>>]) = Len(CharacterBytes(Wide)) + 1
        <3>1. Len(Utf8[<<Wide>> \o <<0>>]) = Len(CharacterBytes(Wide)) + 1
            BY <1>9, <2>1
        <3>2. <<Wide>> \o <<0>> = <<Wide, 0>>
            BY <1>6
        <3> QED BY <3>1, <3>2
    <2> QED BY <2>2, <2>3
<1>11. text \in Seq(Character) /\ Len(Utf8[text]) <= 3 /\ Len(Utf8[text]) \in Nat
    <2>1. \A t \in Seq(Character) : Len(Utf8[t]) \in Nat
        BY TextRead
    <2>2. CASE text = <<>>
        BY <1>2, <1>8, <2>2
    <2>3. CASE text = <<1>>
        <3>1. Len(Utf8[text]) = Len(Utf8[<<1>>]) /\ text \in Seq(Character)
            BY <1>2, <2>3
        <3>2. Len(Utf8[text]) = 1
            BY <1>9, <3>1
        <3> QED BY <3>1, <3>2
    <2>4. CASE text = <<Wide, 0>>
        BY <1>2, <1>10, <2>1, <2>4
    <2>5. CASE text = <<Wide>>
        <3>1. Len(Utf8[<<Wide>> \o <<>>]) = Len(CharacterBytes(Wide)) + 0
            BY <1>1, <1>2, <1>5, <1>8
        <3>2. text = <<Wide>> \o <<>> /\ text \in Seq(Character)
            BY <1>2, <1>6, <2>5
        <3>3. Len(CharacterBytes(Wide)) <= 2
            BY <1>1, <1>4
        <3>4. Len(Utf8[text]) = Len(CharacterBytes(Wide)) + 0 /\ Len(Utf8[text]) \in Nat
            BY <2>1, <3>1, <3>2
        <3>5. Len(CharacterBytes(Wide)) \in Nat
            BY <1>1, <1>4
        <3> QED BY <3>2, <3>3, <3>4, <3>5
    <2> QED BY <2>2, <2>3, <2>4, <2>5 DEF Texts
<1> QED BY <1>11, SmallNumbers

Bounded == n \in 0..NMax

LEMMA AlwaysBounded == Spec => []Bounded
<1>1. Init => Bounded
    BY NMaxAssumption DEF Init, Bounded
<1>2. Bounded /\ [Next]_n => Bounded'
    BY NMaxAssumption DEF Next, Bounded
<1> QED BY <1>1, <1>2, PTL DEF Spec

\* Remainders, and the names made of numbers.
LEMMA FieldsFit ==
    ASSUME NEW m \in Nat, NEW w \in {HALF, COORD}
    PROVE  m % Power[w] \in Nat /\ m % Power[w] < Power[w]
<1>1. Power[w] \in Nat /\ Power[w] > 0
    BY WidthsArePositive, PowerType
<1> DEFINE p == Power[w]
<1> HIDE DEF p
<1>2. \A q \in Nat : q > 0 => m % q \in Nat /\ m % q < q
    OBVIOUS
<1> QED BY <1>1, <1>2

LEMMA NameType == \A m \in Nat : Name(m) \in Seq(Bytes) /\ Len(Name(m)) = ID
BY DigitsType, WidthsArePositive DEF Name

\* A list whose items arrive as they were sent.
LEMMA SameList ==
    ASSUME NEW S, NEW s \in Pairs(S), NEW kind, \A item \in S : Arrives(kind, item, item)
    PROVE  ListArrives(kind, s, s)
<1>1. s \in Seq(S) /\ Len(s) < Power[HALF] /\ \A i \in 1..Len(s) : s[i] \in S
    BY PairsType
<1>2. AllArrive(kind, s, s)
    BY <1>1 DEF AllArrive
<1> QED BY <1>1, <1>2, ListRead

LEMMA SameNumber ==
    ASSUME NEW v \in Nat, Magnitude(v) < Power[WORD]
    PROVE  Arrives("number", v, v)
<1>1. v \in Int /\ ~(v < 0)
    OBVIOUS
<1>2. ReadBack(v) = v
    BY <1>1, ReadBackValue
<1> QED BY <1>1, <1>2, NumberArrives

LEMMA HelloOfRun ==
    ASSUME Bounded,
           NEW p \in [type : {"HELLO"}, capabilities : Pairs(Texts),
                      key : {<<n % Power[COORD], (7 * n) % Power[COORD]>>}, port : {n % Power[HALF]}]
    PROVE  PayloadArrives(p, Received(p))
<1> DEFINE k1 == n % Power[COORD]
           k2 == (7 * n) % Power[COORD]
           port == n % Power[HALF]
           s == p.capabilities
<1>1. n \in Nat /\ 7 * n \in Nat
    BY NMaxAssumption DEF Bounded
<1>2. /\ k1 \in Nat /\ k1 < Power[COORD] /\ k2 \in Nat /\ k2 < Power[COORD]
      /\ port \in Nat /\ port < Power[HALF]
    BY <1>1, FieldsFit
<1> HIDE DEF k1, k2, port
<1>3. p = [type |-> "HELLO", capabilities |-> s, key |-> <<k1, k2>>, port |-> port] /\ s \in Pairs(Texts)
    BY DEF k1, k2, port
<1>4. p.type # "ASSIGN"
    BY <1>3
<1>5. ListArrives("text", s, s)
    <2>1. \A item \in Texts : Arrives("text", item, item)
        BY TextsType, TextArrives
    <2> HIDE DEF s
    <2> QED BY <1>3, <2>1, SameList
<1> HIDE DEF s
<1>6. PayloadArrives(p, p)
    BY <1>2, <1>3, <1>5, HelloArrives
<1> QED BY <1>4, <1>6 DEF Received

LEMMA PeersOfRun ==
    ASSUME Bounded,
           NEW p \in [type : {"PEERS"},
                      peers : Pairs({[id |-> Name(n), addr |-> <<t, n % Power[HALF]>>] : t \in Texts})]
    PROVE  PayloadArrives(p, Received(p))
<1> DEFINE port == n % Power[HALF]
           S == {[id |-> Name(n), addr |-> <<t, port>>] : t \in Texts}
           s == p.peers
<1>1. n \in Nat
    BY NMaxAssumption DEF Bounded
<1>2. port \in Nat /\ port < Power[HALF] /\ Name(n) \in Seq(Bytes) /\ Len(Name(n)) = ID
    BY <1>1, FieldsFit, NameType
<1>3. p = [type |-> "PEERS", peers |-> s] /\ s \in Pairs(S)
    OBVIOUS
<1>4. p.type # "ASSIGN"
    BY <1>3
<1> HIDE DEF port, s
<1>5. ASSUME NEW item \in S PROVE Arrives("agent", item, item)
    <2>1. PICK t \in Texts : item = [id |-> Name(n), addr |-> <<t, port>>]
        OBVIOUS
    <2>2. t \in Seq(Character) /\ Len(Utf8[t]) < Power[WORD]
        BY TextsType
    <2>3. Arrives("agent", [id |-> Name(n), addr |-> <<t, port>>],
                           [id |-> Name(n), addr |-> <<t, port>>])
        BY <1>2, <2>2, AgentArrives
    <2> QED BY <2>1, <2>3
<1> HIDE DEF S
<1>6. ListArrives("agent", s, s)
    BY <1>3, <1>5, SameList
<1>7. PayloadArrives(p, p)
    BY <1>3, <1>6, PeersArrive
<1> QED BY <1>4, <1>7 DEF Received

LEMMA AssignOfRun ==
    ASSUME Bounded,
           NEW p \in [type : {"ASSIGN"}, task : {Name(n)}, algorithm : Texts,
                      params : Parameters]
    PROVE  PayloadArrives(p, Received(p))
<1> DEFINE S == {<<<<1>>, n>>, <<<<Wide>>, 0 - n>>}
           s == p.params
           a == p.algorithm
           t == Name(n)
           r == [i \in DOMAIN s |-> <<s[i][1], ReadBack(s[i][2])>>]
<1>1. n \in Nat /\ n \in Int /\ 0 - n \in Int
    BY NMaxAssumption DEF Bounded
<1>2. t \in Seq(Bytes) /\ Len(t) = ID
    BY <1>1, NameType
<1>3. p = [type |-> "ASSIGN", task |-> t, algorithm |-> a, params |-> s] /\ s \in Pairs(S) /\ a \in Texts
    BY DEF Parameters
<1>4. a \in Seq(Character) /\ Len(Utf8[a]) < Power[WORD]
    BY <1>3, TextsType
<1>5. Received(p) = [type |-> "ASSIGN", task |-> t, algorithm |-> a, params |-> r]
    BY <1>3 DEF Received
<1> HIDE DEF t, a
<1>6. s \in Seq(S) /\ Len(s) \in Nat /\ Len(s) < Power[HALF] /\ \A i \in 1..Len(s) : s[i] \in S
    <2> HIDE DEF S, s
    <2> QED BY <1>3, PairsType
<1> DEFINE back(item) == <<item[1], ReadBack(item[2])>>
           R == {back(item) : item \in S}
<1>7. ASSUME NEW item \in S PROVE Arrives("param", item, back(item))
    <2>1. <<1>> \in Seq(Character) /\ Len(Utf8[<<1>>]) < Power[WORD]
        BY TextsType DEF Texts
    <2>2. <<Wide>> \in Seq(Character) /\ Len(Utf8[<<Wide>>]) < Power[WORD]
        BY TextsType
    <2>3. Magnitude(n) < Power[WORD] /\ Magnitude(0 - n) < Power[WORD]
        BY NumbersFit DEF Bounded
    <2>4. CASE item = <<<<1>>, n>>
        BY <1>1, <2>1, <2>3, <2>4, ParamArrives
    <2>5. CASE item = <<<<Wide>>, 0 - n>>
        BY <1>1, <2>2, <2>3, <2>5, ParamArrives
    <2> QED BY <2>4, <2>5
<1> HIDE DEF S, s
<1>8. DOMAIN s = 1..Len(s)
    BY <1>6
<1>9. r \in Seq(R) /\ Len(r) = Len(s) /\ \A i \in 1..Len(s) : r[i] = back(s[i])
    <2>1. r \in [1..Len(s) -> R]
        BY <1>6, <1>8
    <2> QED BY <1>6, <1>8, <2>1
<1> HIDE DEF r, R
<1>10. AllArrive("param", s, r)
    <2> SUFFICES ASSUME NEW i \in 1..Len(r) PROVE Arrives("param", s[i], r[i])
        BY DEF AllArrive
    <2>1. s[i] \in S /\ r[i] = back(s[i])
        BY <1>6, <1>9
    <2> HIDE DEF back
    <2> QED BY <1>7, <2>1
<1>11. ListArrives("param", s, r)
    <2>1. Len(s) = Len(r) /\ Len(r) < Power[HALF]
        BY <1>6, <1>9
    <2> QED BY <1>9, <1>10, <2>1, ListRead
<1>12. PayloadArrives([type |-> "ASSIGN", task |-> t, algorithm |-> a, params |-> s],
                      [type |-> "ASSIGN", task |-> t, algorithm |-> a, params |-> r])
    BY <1>2, <1>4, <1>11, AssignArrives
<1> QED BY <1>3, <1>5, <1>12 DEF r

LEMMA ResultOfRun ==
    ASSUME Bounded,
           NEW p \in [type : {"RESULT"}, task : {Name(n)}, status : Texts,
                      factors : Pairs({n, Power[2] - 1, 0})]
    PROVE  PayloadArrives(p, Received(p))
<1> DEFINE S == {n, Power[2] - 1, 0}
           s == p.factors
           a == p.status
           t == Name(n)
<1>1. n \in Nat
    BY NMaxAssumption DEF Bounded
<1>2. t \in Seq(Bytes) /\ Len(t) = ID
    BY <1>1, NameType
<1>3. p = [type |-> "RESULT", task |-> t, status |-> a, factors |-> s] /\ s \in Pairs(S) /\ a \in Texts
    OBVIOUS
<1>4. a \in Seq(Character) /\ Len(Utf8[a]) < Power[WORD]
    BY <1>3, TextsType
<1>5. p.type # "ASSIGN"
    BY <1>3
<1> HIDE DEF t, a, s
<1>6. \A item \in S : Arrives("number", item, item)
    <2>1. \A item \in S : item \in Nat /\ Magnitude(item) < Power[WORD]
        BY <1>1, NumbersFit, SmallNumbers DEF Bounded
    <2> HIDE DEF S
    <2> QED BY <2>1, SameNumber
<1> HIDE DEF S
<1>7. ListArrives("number", s, s)
    BY <1>3, <1>6, SameList
<1>8. PayloadArrives(p, p)
    BY <1>2, <1>3, <1>4, <1>7, ResultArrives
<1> QED BY <1>5, <1>8 DEF Received

LEMMA VerifyOfRun ==
    ASSUME Bounded,
           NEW p \in [type : {"VERIFY"}, task : {Name(n)}, n : {n * n}, factors : Pairs({n, Power[2]})]
    PROVE  PayloadArrives(p, Received(p))
<1> DEFINE S == {n, Power[2]}
           s == p.factors
           v == n * n
           t == Name(n)
<1>1. n \in Nat
    BY NMaxAssumption DEF Bounded
<1>2. t \in Seq(Bytes) /\ Len(t) = ID
    BY <1>1, NameType
<1>3. p = [type |-> "VERIFY", task |-> t, n |-> v, factors |-> s] /\ s \in Pairs(S)
    OBVIOUS
<1>4. v \in Nat /\ Magnitude(v) < Power[WORD]
    BY <1>1, NumbersFit DEF Bounded
<1>5. p.type # "ASSIGN"
    BY <1>3
<1> HIDE DEF t, v, s
<1>6. \A item \in S : Arrives("number", item, item)
    <2>1. \A item \in S : item \in Nat /\ Magnitude(item) < Power[WORD]
        BY <1>1, NumbersFit, SmallNumbers DEF Bounded
    <2> HIDE DEF S
    <2> QED BY <2>1, SameNumber
<1> HIDE DEF S
<1>7. ListArrives("number", s, s)
    BY <1>3, <1>6, SameList
<1>8. PayloadArrives(p, p)
    BY <1>2, <1>3, <1>4, <1>7, VerifyArrives
<1> QED BY <1>5, <1>8 DEF Received

LEMMA PayloadOfRun == Bounded => \A p \in Payloads : PayloadArrives(p, Received(p))
BY HelloOfRun, PeersOfRun, AssignOfRun, ResultOfRun, VerifyOfRun DEF Payloads

\* A payload that arrives is parsed whole, with a byte behind it, and is
\* refused when it is cut.
LEMMA ArrivalSurvives ==
    ASSUME NEW p, NEW v, PayloadArrives(p, v), NEW extra \in Bytes
    PROVE  /\ Parse(p.type, Build(p)) = Done(v, Len(Build(p)))
           /\ Parse(p.type, Append(Build(p), extra)) = Done(v, Len(Build(p)))
           /\ \A cut \in 0..(Len(Build(p)) - 1) :
                  Parse(p.type, SubSeq(Build(p), 1, cut)) = Refused
<1> DEFINE e == Build(p)
           k == Len(e)
<1>1. e \in Seq(Bytes) /\ k \in Nat
    BY DEF PayloadArrives
<1>2. ASSUME NEW data \in Seq(Bytes), Agrees(data, 0, e)
      PROVE  Parse(p.type, data) = IF k <= Len(data) THEN Done(v, k) ELSE Refused
    <2>1. Parse(p.type, data) = Expect(data, 0, e, v)
        BY <1>2 DEF PayloadArrives
    <2>2. 0 + k = k
        BY <1>1
    <2> HIDE DEF e
    <2> QED BY <2>1, <2>2 DEF Expect
<1>3. k = Len(e)
    OBVIOUS
<1> HIDE DEF e, k
<1>4. Parse(p.type, e) = Done(v, k)
    <2>1. Agrees(e, 0, e)
        BY <1>1 DEF Agrees
    <2>2. k <= Len(e)
        BY <1>1, <1>3
    <2> QED BY <1>1, <1>2, <2>1, <2>2
<1>5. Parse(p.type, Append(e, extra)) = Done(v, k)
    <2> DEFINE data == Append(e, extra)
    <2>1. data \in Seq(Bytes) /\ Len(data) = k + 1 /\ \A i \in 1..k : data[i] = e[i]
        BY <1>1, <1>3, AppendProperties
    <2> HIDE DEF data
    <2>2. Agrees(data, 0, e)
        BY <1>1, <1>3, <2>1 DEF Agrees
    <2>3. k <= Len(data)
        BY <1>1, <2>1
    <2>4. Parse(p.type, data) = Done(v, k)
        BY <1>2, <2>1, <2>2, <2>3
    <2> QED BY <2>4 DEF data
<1>6. ASSUME NEW cut \in 0..(k - 1) PROVE Parse(p.type, SubSeq(e, 1, cut)) = Refused
    <2> DEFINE data == SubSeq(e, 1, cut)
    <2>1. cut \in Nat /\ cut < k /\ 0 + cut <= Len(e)
        BY <1>1, <1>3
    <2>2. data \in Seq(Bytes) /\ Len(data) = cut /\ \A i \in 1..cut : data[i] = e[i]
        <3>1. data = Slice(e, 0, cut)
            BY <2>1 DEF Slice
        <3> HIDE DEF data
        <3>2. Slice(e, 0, cut) \in Seq(Bytes) /\ Len(Slice(e, 0, cut)) = cut
              /\ \A i \in 1..cut : Slice(e, 0, cut)[i] = e[0 + i]
            BY <1>1, <2>1, SliceType
        <3> QED BY <3>1, <3>2
    <2> HIDE DEF data
    <2>3. Agrees(data, 0, e)
        BY <1>1, <2>1, <2>2 DEF Agrees
    <2>4. ~(k <= Len(data))
        BY <1>1, <2>1, <2>2
    <2>5. Parse(p.type, data) = Refused
        BY <1>2, <2>2, <2>3, <2>4
    <2> QED BY <2>5 DEF data
<1> QED BY <1>4, <1>5, <1>6 DEF e, k

\* protocol.py:222-358: whatever n makes of the fields of a payload, and
\* whatever the widths, it is parsed into what it was built from, also with a
\* byte behind it, and it is refused wherever it is cut.
THEOREM PayloadsAlwaysSurvive == Spec => []PayloadsSurvive
<1>1. Bounded => PayloadsSurvive
    <2> SUFFICES ASSUME Bounded, NEW p \in Payloads
                 PROVE  /\ Parse(p.type, Build(p)) = Done(Received(p), Len(Build(p)))
                        /\ Parse(p.type, Append(Build(p), n % BYTE)) = Done(Received(p), Len(Build(p)))
                        /\ \A cut \in 0..(Len(Build(p)) - 1) :
                               Parse(p.type, SubSeq(Build(p), 1, cut)) = Refused
        BY DEF PayloadsSurvive
    <2>1. PayloadArrives(p, Received(p))
        BY PayloadOfRun
    <2>2. n % BYTE \in Bytes
        <3>1. n \in Nat /\ BYTE \in Nat /\ BYTE > 0
            BY NMaxAssumption, ByteIsPositive DEF Bounded
        <3>2. \A q \in Nat : q > 0 => n % q \in 0..(q - 1)
            BY <3>1
        <3> QED BY <3>1, <3>2 DEF Bytes
    <2> DEFINE extra == n % BYTE
    <2> HIDE DEF extra
    <2>3. extra \in Bytes
        BY <2>2 DEF extra
    <2>4. Parse(p.type, Append(Build(p), extra)) = Done(Received(p), Len(Build(p)))
        BY <2>1, <2>3, ArrivalSurvives
    <2> QED BY <2>1, <2>3, <2>4, ArrivalSurvives DEF extra
<1> QED BY <1>1, AlwaysBounded, PTL

-----------------------------------------------------------------------------
(* Divisibility among the integers.                                        *)

Divides(p, x) == \E q \in Int : x = p * q

LEMMA RemainderLeaves ==
    ASSUME NEW p \in Positive, NEW x \in Int
    PROVE  /\ x % p \in 0..(p - 1) /\ Divides(p, x - (x % p))
           /\ x % p = 0 => Divides(p, x)
<1> DEFINE q == x \div p
           r == x % p
<1>1. p \in Int /\ p > 0
    BY DEF Positive
<1>2. q \in Int /\ r \in 0..(p - 1) /\ x = p * q + r
    BY <1>1
<1> HIDE DEF q, r
<1>3. x - r = p * q
    BY <1>1, <1>2
<1>4. r = 0 => x = p * q
    BY <1>1, <1>2
<1>5. Divides(p, x - r) /\ (r = 0 => Divides(p, x))
    BY <1>2, <1>3, <1>4 DEF Divides
<1> QED BY <1>2, <1>5 DEF r

LEMMA DividesSum ==
    ASSUME NEW p \in Int, NEW x \in Int, NEW y \in Int, Divides(p, x), Divides(p, y)
    PROVE  Divides(p, x + y) /\ Divides(p, x - y)
<1>1. PICK a \in Int : x = p * a
    BY DEF Divides
<1>2. PICK b \in Int : y = p * b
    BY DEF Divides
<1>3. x + y = p * (a + b) /\ x - y = p * (a - b)
    BY <1>1, <1>2
<1>4. a + b \in Int /\ a - b \in Int
    OBVIOUS
<1> QED BY <1>3, <1>4 DEF Divides

LEMMA DividesMultiple ==
    ASSUME NEW p \in Int, NEW x \in Int, NEW y \in Int, Divides(p, x)
    PROVE  Divides(p, x * y) /\ Divides(p, y * x)
<1>1. PICK a \in Int : x = p * a
    BY DEF Divides
<1>2. x * y = p * (a * y) /\ y * x = p * (a * y) /\ a * y \in Int
    BY <1>1
<1> QED BY <1>2 DEF Divides

\* Nothing but zero is divided by a number that is farther from zero.
LEMMA DividesFar ==
    ASSUME NEW p \in Positive, NEW x \in Int, -p < x, x < p, Divides(p, x)
    PROVE  x = 0
<1>1. PICK a \in Int : x = p * a
    BY DEF Divides
<1>2. p \in Int /\ p > 0
    BY DEF Positive
<1>3. CASE a >= 1
    <2>1. p * a >= p
        BY <1>2, <1>3
    <2> QED BY <1>1, <1>2, <2>1
<1>4. CASE a <= -1
    <2>1. p * a <= -p
        BY <1>2, <1>4
    <2> QED BY <1>1, <1>2, <2>1
<1>5. CASE a = 0
    BY <1>1, <1>2, <1>5
<1> QED BY <1>3, <1>4, <1>5

LEMMA DividesItsRemainder ==
    ASSUME NEW p \in Positive, NEW x \in Int, Divides(p, x)
    PROVE  x % p = 0
<1>1. p \in Int /\ p > 0
    BY DEF Positive
<1>2. x % p \in 0..(p - 1) /\ Divides(p, x - (x % p))
    BY RemainderLeaves
<1> DEFINE r == x % p
<1> HIDE DEF r
<1>3. r \in 0..(p - 1) /\ Divides(p, x - r)
    BY <1>2 DEF r
<1>4. Divides(p, x - (x - r))
    BY <1>1, <1>3, DividesSum
<1>5. x - (x - r) = r
    BY <1>3
<1>6. r = 0
    BY <1>1, <1>3, <1>4, <1>5, DividesFar
<1> QED BY <1>6 DEF r

\* What leaves the same remainders leaves them in a product.
LEMMA ProductsAgree ==
    ASSUME NEW p \in Int, NEW x \in Int, NEW u \in Int, NEW y \in Int, NEW v \in Int,
           Divides(p, x - u), Divides(p, y - v)
    PROVE  Divides(p, x * y - u * v)
<1> DEFINE d == x - u
           e == y - v
<1>1. d \in Int /\ e \in Int /\ Divides(p, d) /\ Divides(p, e)
    OBVIOUS
<1> HIDE DEF d, e
<1>2. d * y \in Int /\ u * e \in Int /\ Divides(p, d * y) /\ Divides(p, u * e)
    <2>1. d * y \in Int /\ u * e \in Int
        BY <1>1
    <2>2. Divides(p, d * y)
        BY <1>1, DividesMultiple
    <2>3. Divides(p, u * e)
        BY <1>1, DividesMultiple
    <2> QED BY <2>1, <2>2, <2>3
<1>3. Divides(p, d * y + u * e)
    BY <1>2, DividesSum
<1>4. d * y + u * e = x * y - u * v
    <2>1. d * y = x * y - u * y
        BY DEF d
    <2>2. u * e = u * y - u * v
        BY DEF e
    <2>3. x * y \in Int /\ u * y \in Int /\ u * v \in Int
        OBVIOUS
    <2> QED BY <2>1, <2>2, <2>3
<1> QED BY <1>3, <1>4

\* Euclid: a prime divides one of two numbers whose product it divides.  The
\* least number that brings b to a multiple of p divides each that does.
LEMMA PrimeDividesFactor ==
    ASSUME NEW p \in Primes, NEW a \in Nat, NEW b \in Int, Divides(p, a * b)
    PROVE  Divides(p, a) \/ Divides(p, b)
<1> SUFFICES ASSUME ~Divides(p, b) PROVE Divides(p, a)
    OBVIOUS
<1> DEFINE T == {k \in Positive : Divides(p, k * b)}
<1>1. p \in Positive /\ p \in Int /\ p > 1 /\ \A d \in 2..(p - 1) : p % d # 0
    BY DEF Primes, Prime, Positive
<1>2. p \in T
    BY <1>1 DEF Divides
<1>3. PICK m \in T : \A k \in T : m <= k
    <2>1. T \in SUBSET Nat /\ T # {}
        BY <1>2 DEF Positive
    <2> QED BY <2>1, LeastIsThere
<1>4. m \in Positive /\ m \in Int /\ m > 0 /\ Divides(p, m * b)
    BY <1>3 DEF Positive
<1>5. ASSUME NEW k \in T PROVE k % m = 0
    <2>1. k \in Int /\ Divides(p, k * b)
        BY <1>5 DEF Positive
    <2>2. k % m \in 0..(m - 1) /\ Divides(m, k - (k % m))
        BY <1>4, <2>1, RemainderLeaves
    <2> DEFINE r == k % m
    <2> HIDE DEF r
    <2>3. r \in 0..(m - 1) /\ Divides(m, k - r) /\ r \in Int
        BY <1>4, <2>2 DEF r
    <2>4. PICK q \in Int : k - r = m * q
        BY <2>3 DEF Divides
    <2>5. r * b = k * b - (m * b) * q
        <3>1. r = k - m * q
            BY <1>4, <2>1, <2>3, <2>4
        <3>2. (k - m * q) * b = k * b - (m * b) * q
            BY <1>4, <2>1, <2>4
        <3> QED BY <3>1, <3>2
    <2>6. Divides(p, (m * b) * q) /\ m * b \in Int /\ k * b \in Int /\ (m * b) * q \in Int
        <3>1. m * b \in Int /\ k * b \in Int /\ (m * b) * q \in Int
            BY <1>4, <2>1
        <3> QED BY <1>1, <1>4, <3>1, DividesMultiple
    <2>7. Divides(p, r * b)
        BY <1>1, <2>1, <2>5, <2>6, DividesSum
    <2>8. CASE r # 0
        <3>1. r \in T
            BY <2>3, <2>7, <2>8 DEF Positive
        <3>2. m <= r
            BY <1>3, <3>1
        <3> QED BY <1>4, <2>3, <3>2
    <2> QED BY <2>8 DEF r
<1>6. m <= p /\ p % m = 0
    BY <1>2, <1>3, <1>5
<1>7. m # 1
    <2>1. 1 * b = b
        OBVIOUS
    <2> QED BY <1>4, <2>1
<1>8. m = p
    BY <1>1, <1>4, <1>6, <1>7
<1>9. CASE a = 0
    <2>1. a = p * 0
        BY <1>1, <1>9
    <2> QED BY <2>1 DEF Divides
<1>10. CASE a # 0
    <2>1. a \in T /\ a \in Int
        BY <1>10 DEF Positive
    <2>2. a % p = 0
        BY <1>5, <1>8, <2>1
    <2> QED BY <1>1, <2>1, <2>2, RemainderLeaves
<1> QED BY <1>9, <1>10

\* The product of f[1] to f[k], and the powers of a.
Products(f, r) == r \in [Nat -> Nat] /\ r[0] = 1 /\ \A k \in Nat : r[k + 1] = r[k] * f[k + 1]
Powers(a, f)   == f \in [Nat -> Nat] /\ f[0] = 1 /\ \A k \in Nat : f[k + 1] = a * f[k]

LEMMA ProductsExist ==
    ASSUME NEW f \in [Nat -> Nat]
    PROVE  \E r : Products(f, r)
<1> DEFINE D == Nat
           m == [k \in D |-> k]
           next(k, g) == IF k = 0 THEN 1 ELSE g[k - 1] * f[k]
           F == [g \in [D -> Nat] |-> [k \in D |-> next(k, g)]]
<1>1. ASSUME NEW g \in [D -> Nat], NEW k \in D PROVE next(k, g) \in Nat
    <2>1. CASE k = 0
        BY <2>1
    <2>2. CASE k # 0
        <3>1. k - 1 \in Nat /\ g[k - 1] \in Nat /\ f[k] \in Nat
            BY <2>2
        <3>2. g[k - 1] * f[k] \in Nat
            BY <3>1
        <3> QED BY <2>2, <3>2
    <2> QED BY <2>1, <2>2
<1>2. \A g, h \in [D -> Nat] : \A k \in D :
          (\A y \in D : m[y] < m[k] => g[y] = h[y]) => F[g][k] = F[h][k]
    <2>1. ASSUME NEW g \in [D -> Nat], NEW h \in [D -> Nat], NEW k \in D,
                 \A y \in D : m[y] < m[k] => g[y] = h[y]
          PROVE  next(k, g) = next(k, h)
        <3>1. k # 0 => k - 1 \in D /\ k - 1 < k
            OBVIOUS
        <3>2. k # 0 => g[k - 1] = h[k - 1]
            BY <2>1, <3>1
        <3> QED BY <3>2
    <2>2. ASSUME NEW g \in [D -> Nat], NEW k \in D PROVE F[g][k] = next(k, g)
        <3> HIDE DEF next
        <3> QED OBVIOUS
    <2> HIDE DEF next, F
    <2> QED BY <2>1, <2>2
<1>3. F \in [[D -> Nat] -> [D -> Nat]]
    <2> HIDE DEF next
    <2> QED BY <1>1
<1>4. PICK g \in [D -> Nat] : g = F[g]
    <2>1. m \in [D -> Nat] /\ Nat # {}
        OBVIOUS
    <2> HIDE DEF F, D, m
    <2>2. Recursive(F, D, Nat, m)
        BY <1>2, <1>3, <2>1 DEF Recursive
    <2> QED BY <2>2, RecursionExists
<1>5. \A k \in Nat : g[k] = IF k = 0 THEN 1 ELSE g[k - 1] * f[k]
    BY <1>4
<1>6. ASSUME NEW k \in Nat PROVE g[k + 1] = g[k] * f[k + 1]
    <2>1. k + 1 \in Nat /\ k + 1 # 0 /\ (k + 1) - 1 = k
        OBVIOUS
    <2>2. g[k + 1] = g[(k + 1) - 1] * f[k + 1]
        BY <1>5, <2>1
    <2> QED BY <2>1, <2>2
<1>7. g[0] = 1
    BY <1>5
<1> QED BY <1>4, <1>6, <1>7 DEF Products

LEMMA PowersExist ==
    ASSUME NEW a \in Nat
    PROVE  \E f : Powers(a, f)
<1> DEFINE g == [i \in Nat |-> a]
<1>1. PICK f : Products(g, f)
    BY ProductsExist
<1>2. ASSUME NEW k \in Nat PROVE f[k + 1] = a * f[k]
    <2>1. k + 1 \in Nat /\ f[k] \in Nat /\ f[k + 1] = f[k] * a
        BY <1>1 DEF Products
    <2> QED BY <2>1
<1> QED BY <1>1, <1>2 DEF Products, Powers

LEMMA PowersAdd ==
    ASSUME NEW a \in Nat, NEW f, Powers(a, f), NEW i \in Nat, NEW j \in Nat
    PROVE  f[i + j] = f[i] * f[j]
<1> DEFINE T == {k \in Nat : f[i + k] = f[i] * f[k]}
<1>1. f \in [Nat -> Nat] /\ f[0] = 1 /\ \A k \in Nat : f[k + 1] = a * f[k]
    BY DEF Powers
<1>2. 0 \in T
    BY <1>1
<1>3. ASSUME NEW k \in Nat, k \in T PROVE k + 1 \in T
    <2>1. i + (k + 1) = (i + k) + 1 /\ i + k \in Nat
        OBVIOUS
    <2>2. f[i + (k + 1)] = a * f[i + k] /\ f[k + 1] = a * f[k]
        BY <1>1, <2>1
    <2> DEFINE x == f[i]
               y == f[k]
    <2>3. x \in Nat /\ y \in Nat /\ f[i + k] = x * y
        BY <1>1, <1>3
    <2> HIDE DEF x, y
    <2>4. a * (x * y) = x * (a * y)
        BY <2>3
    <2> QED BY <2>2, <2>3, <2>4 DEF x, y
<1> HIDE DEF T
<1>4. Nat \subseteq T
    BY <1>2, <1>3, NumberInduction
<1> QED BY <1>4 DEF T

\* The numbers from 1 to k have the same product in every order: where k comes,
\* put the last number, and go on with the others.
LEMMA SwappedProducts ==
    ASSUME NEW f \in [Nat -> Nat], NEW r, Products(f, r),
           NEW g \in [Nat -> Nat], NEW q, Products(g, q),
           NEW i \in Nat \ {0}, \A k \in Nat \ {i} : g[k] = f[k]
    PROVE  \A k \in Nat : (k < i => q[k] = r[k]) /\ (k >= i => q[k] * f[i] = r[k] * g[i])
<1> DEFINE v == g[i]
           T == {k \in Nat : (k < i => q[k] = r[k]) /\ (k >= i => q[k] * f[i] = r[k] * v)}
<1>1. r \in [Nat -> Nat] /\ r[0] = 1 /\ \A k \in Nat : r[k + 1] = r[k] * f[k + 1]
    BY DEF Products
<1>2. q \in [Nat -> Nat] /\ q[0] = 1 /\ \A k \in Nat : q[k + 1] = q[k] * g[k + 1]
    BY DEF Products
<1>3. 0 \in T
    BY <1>1, <1>2
<1>4. ASSUME NEW k \in Nat, k \in T PROVE k + 1 \in T
    <2> DEFINE x == q[k]
               y == r[k]
               w == f[k + 1]
               u == f[i]
    <2>1. x \in Nat /\ y \in Nat /\ w \in Nat /\ u \in Nat /\ v \in Nat /\ k + 1 \in Nat
        BY <1>1, <1>2
    <2>2. r[k + 1] = y * w /\ q[k + 1] = x * g[k + 1]
        BY <1>1, <1>2
    <2>3. (k < i => x = y) /\ (k >= i => x * u = y * v)
        BY <1>4
    <2>4. g[k + 1] = IF k + 1 = i THEN v ELSE w
        BY <2>1
    <2>5. k + 1 = i => w = u
        OBVIOUS
    <2> HIDE DEF x, y, w, u, v
    <2>6. CASE k + 1 < i
        BY <2>1, <2>2, <2>3, <2>4, <2>6
    <2>7. CASE k + 1 = i
        <3>1. x = y /\ w = u /\ q[k + 1] = y * v /\ r[k + 1] = y * u
            BY <2>1, <2>2, <2>3, <2>4, <2>5, <2>7
        <3>2. (y * v) * u = (y * u) * v
            BY <2>1
        <3>3. q[k + 1] * f[i] = r[k + 1] * v
            BY <3>1, <3>2 DEF u, v
        <3> QED BY <2>1, <2>7, <3>3
    <2>8. CASE k + 1 > i
        <3>1. x * u = y * v /\ q[k + 1] = x * w /\ r[k + 1] = y * w
            BY <2>1, <2>2, <2>3, <2>4, <2>8
        <3>2. (x * w) * u = (x * u) * w /\ (y * w) * v = (y * v) * w
            BY <2>1
        <3>3. q[k + 1] * f[i] = r[k + 1] * v
            BY <3>1, <3>2 DEF u, v
        <3> QED BY <2>1, <2>8, <3>3
    <2> QED BY <2>1, <2>6, <2>7, <2>8
<1> HIDE DEF T
<1>5. Nat \subseteq T
    BY <1>3, <1>4, NumberInduction
<1> QED BY <1>5 DEF T

OneToOne(f, k) ==
    /\ f \in [Nat -> Nat] /\ \A i \in 1..k : f[i] \in 1..k
    /\ \A i, j \in 1..k : f[i] = f[j] => i = j

LEMMA GreatestIsTaken ==
    ASSUME NEW k \in Nat \ {0}, NEW f, OneToOne(f, k)
    PROVE  \E i \in 1..k : f[i] = k
<1> SUFFICES ASSUME \A i \in 1..k : f[i] # k PROVE FALSE
    OBVIOUS
<1> DEFINE g == [i \in 1..k |-> f[i]]
<1>1. g \in [1..k -> 1..(k - 1)]
    BY DEF OneToOne
<1>2. IsFiniteSet(1..k) /\ IsFiniteSet(1..(k - 1)) /\ Cardinality(1..k) = k
      /\ Cardinality(1..(k - 1)) = k - 1
    BY FS_Interval
<1>3. \E x, y \in 1..k : x # y /\ g[x] = g[y]
    <2>1. Cardinality(1..(k - 1)) < Cardinality(1..k)
        BY <1>2
    <2> DEFINE S == 1..k
               U == 1..(k - 1)
    <2>2. IsFiniteSet(S) /\ IsFiniteSet(U) /\ Cardinality(U) < Cardinality(S) /\ g \in [S -> U]
        BY <1>1, <1>2, <2>1
    <2> HIDE DEF g, S, U
    <2>3. \E x, y \in S : x # y /\ g[x] = g[y]
        BY <2>2, FS_PigeonHole
    <2> QED BY <2>3 DEF S
<1> QED BY <1>3 DEF OneToOne

LEMMA OrderIsNoMatter ==
    ASSUME NEW c, Products([i \in Nat |-> i], c), NEW k \in Nat
    PROVE  \A f, r : OneToOne(f, k) /\ Products(f, r) => r[k] = c[k]
<1> DEFINE T == {j \in Nat : \A f, r : OneToOne(f, j) /\ Products(f, r) => r[j] = c[j]}
<1>1. c \in [Nat -> Nat] /\ c[0] = 1 /\ \A j \in Nat : c[j + 1] = c[j] * (j + 1)
    <2> DEFINE id == [i \in Nat |-> i]
    <2>1. c \in [Nat -> Nat] /\ c[0] = 1 /\ \A j \in Nat : c[j + 1] = c[j] * id[j + 1]
        BY DEF Products
    <2>2. \A j \in Nat : j + 1 \in Nat /\ id[j + 1] = j + 1
        OBVIOUS
    <2> HIDE DEF id
    <2> QED BY <2>1, <2>2
<1>2. 0 \in T
    BY <1>1 DEF Products
<1>3. ASSUME NEW j \in Nat, j \in T PROVE j + 1 \in T
    <2> SUFFICES ASSUME NEW f, NEW r, OneToOne(f, j + 1), Products(f, r)
                 PROVE  r[j + 1] = c[j + 1]
        OBVIOUS
    <2>1. f \in [Nat -> Nat] /\ j + 1 \in Nat \ {0}
        BY DEF OneToOne
    <2>2. PICK i \in 1..(j + 1) : f[i] = j + 1
        BY <2>1, GreatestIsTaken
    <2>3. i \in Nat \ {0} /\ f[j + 1] \in Nat
        BY <2>1
    <2> DEFINE v == f[j + 1]
               g == [f EXCEPT ![i] = v]
    <2>4. g \in [Nat -> Nat]
        BY <2>1, <2>3
    <2>5. PICK q : Products(g, q)
        BY <2>4, ProductsExist
    <2>6. OneToOne(g, j)
        <3>1. ASSUME NEW a \in 1..j PROVE g[a] \in 1..j /\ a \in 1..(j + 1) /\ a \in Nat
            <4>1. a \in 1..(j + 1) /\ a # j + 1 /\ j + 1 \in 1..(j + 1) /\ a \in Nat
                BY <2>1
            <4>2. CASE a = i
                <5>1. g[a] = v /\ v \in 1..(j + 1) /\ v # j + 1
                    BY <2>1, <2>2, <4>1, <4>2 DEF OneToOne
                <5> QED BY <4>1, <5>1
            <4>3. CASE a # i
                <5>1. g[a] = f[a] /\ f[a] \in 1..(j + 1) /\ f[a] # j + 1
                    BY <2>1, <2>2, <4>1, <4>3 DEF OneToOne
                <5> QED BY <4>1, <5>1
            <4> QED BY <4>2, <4>3
        <3>2. ASSUME NEW a \in 1..j, NEW b \in 1..j, g[a] = g[b] PROVE a = b
            <4>1. a \in 1..(j + 1) /\ b \in 1..(j + 1) /\ a # j + 1 /\ b # j + 1
                  /\ j + 1 \in 1..(j + 1) /\ a \in Nat /\ b \in Nat
                BY <2>1
            <4>2. g[a] = (IF a = i THEN v ELSE f[a]) /\ g[b] = (IF b = i THEN v ELSE f[b])
                BY <2>1, <4>1
            <4> QED BY <3>2, <4>1, <4>2 DEF OneToOne
        <3> HIDE DEF g
        <3> QED BY <2>4, <3>1, <3>2 DEF OneToOne
    <2>7. q[j] = c[j]
        BY <1>3, <2>5, <2>6
    <2>8. \A h \in Nat : (h < i => q[h] = r[h]) /\ (h >= i => q[h] * f[i] = r[h] * v)
        <3>1. g[i] = v /\ \A h \in Nat \ {i} : g[h] = f[h]
            BY <2>1, <2>3
        <3> HIDE DEF g, v
        <3>2. \A h \in Nat : (h < i => q[h] = r[h]) /\ (h >= i => q[h] * f[i] = r[h] * g[i])
            BY <2>1, <2>3, <2>4, <2>5, <3>1, SwappedProducts
        <3> QED BY <3>1, <3>2
    <2>9. r[j + 1] = r[j] * v /\ c[j + 1] = c[j] * (j + 1)
        BY <1>1 DEF Products
    <2>10. CASE j < i
        <3>1. i = j + 1 /\ v = j + 1 /\ q[j] = r[j]
            BY <2>2, <2>8, <2>10
        <3> QED BY <2>7, <2>9, <3>1
    <2>11. CASE ~(j < i)
        <3>1. q[j] * f[i] = r[j] * v
            BY <2>8, <2>11
        <3> QED BY <2>2, <2>7, <2>9, <3>1
    <2> QED BY <2>10, <2>11
<1> HIDE DEF T
<1>4. Nat \subseteq T
    BY <1>2, <1>3, NumberInduction
<1> QED BY <1>4 DEF T

-----------------------------------------------------------------------------
(* Powers modulo a prime.                                                  *)

LEMMA EqualRemainders ==
    ASSUME NEW p \in Positive, NEW x \in Int, NEW y \in Int, x % p = y % p
    PROVE  Divides(p, x - y)
<1> DEFINE r == x % p
<1>1. r \in Int /\ Divides(p, x - r) /\ Divides(p, y - r)
    <2>1. x % p \in 0..(p - 1) /\ Divides(p, x - (x % p))
        BY RemainderLeaves
    <2>2. Divides(p, y - (y % p))
        BY RemainderLeaves
    <2>3. p \in Int
        BY DEF Positive
    <2> QED BY <2>1, <2>2, <2>3
<1> HIDE DEF r
<1>2. p \in Int /\ x - r \in Int /\ y - r \in Int
    BY <1>1 DEF Positive
<1>3. Divides(p, (x - r) - (y - r))
    BY <1>1, <1>2, DividesSum
<1>4. (x - r) - (y - r) = x - y
    BY <1>1
<1> QED BY <1>3, <1>4

\* To multiply by a number that p does not divide only reorders what is below p.
LEMMA MultiplesReorder ==
    ASSUME NEW p \in Primes, NEW a \in 1..(p - 1)
    PROVE  OneToOne([i \in Nat |-> (a * i) % p], p - 1)
<1> DEFINE g == [i \in Nat |-> (a * i) % p]
<1>1. p \in Positive /\ p \in Int /\ p > 1 /\ a \in Nat /\ a > 0 /\ a < p
    BY DEF Primes, Prime, Positive
<1>2. ~Divides(p, a)
    BY <1>1, DividesFar
<1>3. ASSUME NEW i \in Nat PROVE g[i] \in 0..(p - 1)
    <2>1. a * i \in Int
        BY <1>1
    <2>2. (a * i) % p \in 0..(p - 1)
        BY <1>1, <2>1, RemainderLeaves
    <2> QED BY <2>2
<1>4. ASSUME NEW i \in 1..(p - 1) PROVE g[i] # 0
    <2> SUFFICES ASSUME g[i] = 0 PROVE FALSE
        OBVIOUS
    <2>1. i \in Nat /\ i \in Int /\ -p < i /\ i < p /\ i # 0
        BY <1>1
    <2>2. a * i \in Int /\ (a * i) % p = 0
        BY <1>1, <2>1
    <2>3. Divides(p, a * i)
        BY <1>1, <2>2, RemainderLeaves
    <2>4. Divides(p, i)
        BY <1>1, <1>2, <2>1, <2>3, PrimeDividesFactor
    <2> QED BY <1>1, <2>1, <2>4, DividesFar
<1>5. ASSUME NEW i \in 1..(p - 1), NEW j \in 1..(p - 1), g[i] = g[j] PROVE i = j
    <2>1. i \in Int /\ j \in Int /\ i \in Nat /\ j \in Nat
        OBVIOUS
    <2>2. a * i \in Int /\ a * j \in Int /\ (a * i) % p = (a * j) % p
        BY <1>1, <1>5, <2>1
    <2>3. Divides(p, a * i - a * j)
        BY <1>1, <2>2, EqualRemainders
    <2> DEFINE d == i - j
    <2>4. d \in Int /\ -p < d /\ d < p /\ a * i - a * j = a * d
        BY <1>1, <2>1
    <2> HIDE DEF d
    <2>5. Divides(p, d)
        BY <1>1, <1>2, <2>3, <2>4, PrimeDividesFactor
    <2>6. d = 0
        BY <1>1, <2>4, <2>5, DividesFar
    <2> QED BY <2>1, <2>6 DEF d
<1>6. g \in [Nat -> Nat]
    <2>1. \A i \in Nat : (a * i) % p \in Nat
        BY <1>1, <1>3
    <2> QED BY <2>1
<1>7. \A i \in 1..(p - 1) : g[i] \in 1..(p - 1)
    <2> SUFFICES ASSUME NEW i \in 1..(p - 1) PROVE g[i] \in 1..(p - 1)
        OBVIOUS
    <2>1. i \in Nat
        OBVIOUS
    <2>2. g[i] \in 0..(p - 1) /\ g[i] # 0
        BY <1>3, <1>4, <2>1
    <2> HIDE DEF g
    <2> QED BY <1>1, <2>2
<1> HIDE DEF g
<1>8. OneToOne(g, p - 1)
    BY <1>5, <1>6, <1>7 DEF OneToOne
<1> QED BY <1>8 DEF g

\* Fermat: the power p - 1 of a number below a prime p leaves remainder 1.
LEMMA PowerLeavesOne ==
    ASSUME NEW p \in Primes, NEW a \in 1..(p - 1), NEW f, Powers(a, f)
    PROVE  Divides(p, f[p - 1] - 1)
<1> DEFINE g  == [i \in Nat |-> (a * i) % p]
           id == [i \in Nat |-> i]
<1>1. p \in Positive /\ p \in Int /\ p > 1 /\ a \in Nat /\ p - 1 \in Nat
    BY DEF Primes, Prime, Positive
<1>2. OneToOne(g, p - 1)
    BY MultiplesReorder
<1>3. g \in [Nat -> Nat] /\ id \in [Nat -> Nat]
    BY <1>2 DEF OneToOne
<1>4. PICK r : Products(g, r)
    BY <1>3, ProductsExist
<1>5. PICK c : Products(id, c)
    BY <1>3, ProductsExist
<1>6. r[p - 1] = c[p - 1]
    <2> HIDE DEF g
    <2> QED BY <1>1, <1>2, <1>4, <1>5, OrderIsNoMatter
<1>7. f \in [Nat -> Nat] /\ f[0] = 1 /\ \A k \in Nat : f[k + 1] = a * f[k]
    BY DEF Powers
<1>8. r \in [Nat -> Nat] /\ r[0] = 1
      /\ \A k \in Nat : r[k + 1] = r[k] * ((a * (k + 1)) % p)
    <2>1. \A k \in Nat : k + 1 \in Nat /\ g[k + 1] = (a * (k + 1)) % p
        OBVIOUS
    <2> HIDE DEF g
    <2> QED BY <1>4, <2>1 DEF Products
<1>9. c \in [Nat -> Nat] /\ c[0] = 1 /\ \A k \in Nat : c[k + 1] = c[k] * (k + 1)
    <2>1. \A k \in Nat : k + 1 \in Nat /\ id[k + 1] = k + 1
        OBVIOUS
    <2> HIDE DEF id
    <2> QED BY <1>5, <2>1 DEF Products
<1> HIDE DEF g, id
<1> DEFINE T == {k \in Nat : Divides(p, f[k] * c[k] - r[k])}
<1>10. 0 \in T
    <2>1. f[0] * c[0] - r[0] = p * 0
        BY <1>1, <1>7, <1>8, <1>9
    <2> QED BY <2>1 DEF Divides
<1>11. ASSUME NEW k \in Nat, k \in T PROVE k + 1 \in T
    <2> DEFINE x == f[k] * c[k]
               u == r[k]
               y == a * (k + 1)
               v == y % p
    <2>1. f[k] \in Nat /\ c[k] \in Nat /\ u \in Int /\ y \in Int /\ k + 1 \in Nat
        <3>1. f \in [Nat -> Nat] /\ c \in [Nat -> Nat] /\ r \in [Nat -> Nat]
            BY <1>7, <1>8, <1>9
        <3>2. f[k] \in Nat /\ c[k] \in Nat /\ u \in Int
            BY <3>1
        <3>3. y \in Int
            BY <1>1
        <3> QED BY <3>2, <3>3
    <2>2. x \in Int
        BY <2>1
    <2>3. Divides(p, x - u)
        BY <1>11
    <2>4. v \in Int /\ Divides(p, y - v)
        <3> HIDE DEF y
        <3>1. v \in 0..(p - 1) /\ Divides(p, y - v)
            BY <1>1, <2>1, RemainderLeaves
        <3> QED BY <3>1
    <2>5. f[k + 1] * c[k + 1] = x * y /\ r[k + 1] = u * v
        <3>1. f[k + 1] = a * f[k] /\ c[k + 1] = c[k] * (k + 1) /\ r[k + 1] = u * v
            BY <1>7, <1>8, <1>9
        <3> DEFINE s == f[k]
                   t == c[k]
        <3>2. s \in Nat /\ t \in Nat
            BY <2>1
        <3> HIDE DEF s, t
        <3>3. (a * s) * (t * (k + 1)) = (s * t) * (a * (k + 1))
            BY <1>1, <3>2
        <3> QED BY <3>1, <3>3 DEF s, t
    <2> HIDE DEF x, u, y, v
    <2>6. Divides(p, x * y - u * v)
        BY <1>1, <2>1, <2>2, <2>3, <2>4, ProductsAgree
    <2> QED BY <2>1, <2>5, <2>6
<1>12. p - 1 \in T
    <2> HIDE DEF T
    <2>1. Nat \subseteq T
        BY <1>10, <1>11, NumberInduction
    <2> QED BY <1>1, <2>1
<1> DEFINE U == {k \in Nat : k < p => ~Divides(p, c[k])}
<1>13. 0 \in U
    BY <1>1, <1>9, DividesFar
<1>14. ASSUME NEW k \in Nat, k \in U PROVE k + 1 \in U
    <2> SUFFICES ASSUME k + 1 < p, Divides(p, c[k + 1]) PROVE FALSE
        OBVIOUS
    <2>1. k < p /\ ~Divides(p, c[k]) /\ k + 1 \in Int /\ c[k] \in Nat /\ -p < k + 1 /\ k + 1 # 0
        BY <1>1, <1>9, <1>14
    <2>2. c[k + 1] = c[k] * (k + 1)
        BY <1>9
    <2>3. Divides(p, k + 1)
        BY <2>1, <2>2, PrimeDividesFactor
    <2> QED BY <1>1, <2>1, <2>3, DividesFar
<1>15. ~Divides(p, c[p - 1])
    <2> HIDE DEF U
    <2>1. Nat \subseteq U
        BY <1>13, <1>14, NumberInduction
    <2>2. p - 1 \in U /\ p - 1 < p
        BY <1>1, <2>1
    <2> QED BY <2>2 DEF U
<1> DEFINE x == f[p - 1]
           y == c[p - 1]
<1>16. x \in Nat /\ y \in Nat /\ Divides(p, x * y - y) /\ ~Divides(p, y)
    BY <1>1, <1>6, <1>7, <1>9, <1>12, <1>15
<1> HIDE DEF x, y
<1>17. x * y - y = y * (x - 1) /\ x - 1 \in Int
    BY <1>16
<1>18. Divides(p, x - 1)
    BY <1>16, <1>17, PrimeDividesFactor
<1> QED BY <1>18 DEF x

\* pow(a, e, m) takes a step for an odd e, and squares for an even one.
LEMMA PowModStep ==
    ASSUME NEW m \in Positive, NEW a \in Nat
    PROVE  /\ PowMod(a, 0, m) = 1
           /\ \A e \in Nat :
                  /\ PowMod(a, e, m) \in Nat
                  /\ e % 2 = 1 => PowMod(a, e, m) = (a * PowMod(a, e - 1, m)) % m
                  /\ e # 0 /\ e % 2 = 0 =>
                         PowMod(a, e, m) = (PowMod(a, e \div 2, m) * PowMod(a, e \div 2, m)) % m
<1> DEFINE D == Nat
           id == [k \in D |-> k]
           power[k \in Nat] ==
               IF k = 0 THEN 1
               ELSE IF k % 2 = 1 THEN (a * power[k - 1]) % m
               ELSE LET half == power[k \div 2] IN (half * half) % m
           step(k, g) == IF k = 0 THEN 1
                         ELSE IF k % 2 = 1 THEN (a * g[k - 1]) % m
                         ELSE (g[k \div 2] * g[k \div 2]) % m
           F == [g \in [D -> Nat] |-> [k \in D |-> step(k, g)]]
<1>1. \A e : PowMod(a, e, m) = power[e]
    BY DEF PowMod
<1> HIDE DEF power
<1>2. \A k \in Nat : k # 0 => /\ k - 1 \in Nat /\ k - 1 < k
                              /\ k \div 2 \in Nat /\ k \div 2 < k
    OBVIOUS
<1>3. ASSUME NEW x \in Nat PROVE x % m \in Nat
    <2>1. x \in Int /\ m \in Int /\ m > 0
        BY DEF Positive
    <2> QED BY <2>1
<1>4. ASSUME NEW g \in [D -> Nat], NEW k \in D PROVE step(k, g) \in Nat
    <2>1. CASE k = 0
        BY <2>1
    <2>2. CASE k # 0
        <3>1. g[k - 1] \in Nat /\ g[k \div 2] \in Nat
            BY <1>2, <2>2
        <3> DEFINE x == g[k - 1]
                   y == g[k \div 2]
        <3> HIDE DEF x, y
        <3>2. a * x \in Nat /\ y * y \in Nat
            BY <3>1 DEF x, y
        <3>3. (a * x) % m \in Nat /\ (y * y) % m \in Nat
            BY <1>3, <3>2
        <3> QED BY <2>2, <3>3 DEF x, y
    <2> QED BY <2>1, <2>2
<1>5. ASSUME NEW g \in [D -> Nat], NEW h \in [D -> Nat], NEW k \in D,
             \A j \in D : id[j] < id[k] => g[j] = h[j]
      PROVE  step(k, g) = step(k, h)
    <2>1. k # 0 => g[k - 1] = h[k - 1] /\ g[k \div 2] = h[k \div 2]
        <3>1. \A j \in D : j < k => g[j] = h[j]
            BY <1>5
        <3> QED BY <1>2, <3>1
    <2> QED BY <2>1
<1>6. PICK g \in [D -> Nat] : g = F[g]
    <2> HIDE DEF step
    <2>1. F \in [[D -> Nat] -> [D -> Nat]]
        BY <1>4
    <2>2. \A g \in [D -> Nat] : \A k \in D : F[g][k] = step(k, g)
        OBVIOUS
    <2>3. \A g, h \in [D -> Nat] : \A k \in D :
              (\A j \in D : id[j] < id[k] => g[j] = h[j]) => F[g][k] = F[h][k]
        BY <1>5, <2>2
    <2>4. id \in [D -> Nat] /\ Nat # {}
        OBVIOUS
    <2> HIDE DEF F, D, id
    <2>5. Recursive(F, D, Nat, id)
        BY <2>1, <2>3, <2>4 DEF Recursive
    <2> QED BY <2>5, RecursionExists
<1>7. g = [k \in Nat |-> IF k = 0 THEN 1
                         ELSE IF k % 2 = 1 THEN (a * g[k - 1]) % m
                         ELSE (g[k \div 2] * g[k \div 2]) % m]
    BY <1>6
<1>8. power = [k \in Nat |-> IF k = 0 THEN 1
                             ELSE IF k % 2 = 1 THEN (a * power[k - 1]) % m
                             ELSE (power[k \div 2] * power[k \div 2]) % m]
    BY <1>7 DEF power
<1>9. \A k \in Nat : power[k] = IF k = 0 THEN 1
                                ELSE IF k % 2 = 1 THEN (a * power[k - 1]) % m
                                ELSE (power[k \div 2] * power[k \div 2]) % m
    BY <1>8
<1>10. power[0] = 1 /\ \A e \in Nat :
          /\ e % 2 = 1 => power[e] = (a * power[e - 1]) % m
          /\ e # 0 /\ e % 2 = 0 => power[e] = (power[e \div 2] * power[e \div 2]) % m
    BY <1>9
<1> DEFINE T == {e \in Nat : power[e] \in Nat}
<1>11. ASSUME NEW e \in Nat, \A j \in Nat : id[j] < id[e] => j \in T PROVE e \in T
    <2>1. CASE e = 0
        BY <1>10, <2>1
    <2>2. CASE e # 0
        <3>1. \A j \in Nat : j < e => power[j] \in Nat
            BY <1>11
        <3> DEFINE x == power[e - 1]
                   y == power[e \div 2]
        <3>2. x \in Nat /\ y \in Nat
            BY <1>2, <2>2, <3>1
        <3>3. power[e] = (a * x) % m \/ power[e] = (y * y) % m
            BY <1>10, <2>2
        <3> HIDE DEF x, y
        <3>4. a * x \in Nat /\ y * y \in Nat
            BY <3>2
        <3> QED BY <1>3, <3>3, <3>4
    <2> QED BY <2>1, <2>2
<1> HIDE DEF T
<1>12. id \in [Nat -> Nat]
    OBVIOUS
<1> HIDE DEF id, D, step, F
<1>13. Nat \subseteq T
    <2>1. \A e \in Nat : (\A j \in Nat : id[j] < id[e] => j \in T) => e \in T
        BY <1>11
    <2> QED BY <1>12, <2>1, MeasureInduction
<1>14. \A e \in Nat : power[e] \in Nat
    BY <1>13 DEF T
<1> QED BY <1>1, <1>10, <1>14

-----------------------------------------------------------------------------
(* The witnesses of Miller and Rabin.                                      *)

LEMMA PowModAgrees ==
    ASSUME NEW m \in Positive, NEW a \in Nat, NEW f, Powers(a, f), NEW e \in Nat
    PROVE  Divides(m, f[e] - PowMod(a, e, m))
<1> DEFINE id == [k \in Nat |-> k]
           pm(k) == PowMod(a, k, m)
           T == {k \in Nat : Divides(m, f[k] - pm(k))}
<1>1. m \in Int /\ \A k \in Nat : pm(k) \in Nat /\ pm(k) \in Int
    BY PowModStep DEF Positive
<1>2. f \in [Nat -> Nat] /\ f[0] = 1 /\ \A k \in Nat : f[k + 1] = a * f[k]
    BY DEF Powers
<1>3. ASSUME NEW x \in Int, NEW u \in Int, Divides(m, x - u) PROVE Divides(m, x - (u % m))
    <2> DEFINE v == u % m
    <2>1. v \in 0..(m - 1) /\ Divides(m, u - v)
        BY RemainderLeaves
    <2> HIDE DEF v
    <2>2. v \in Int /\ x - u \in Int /\ u - v \in Int
        BY <1>1, <2>1
    <2>3. Divides(m, (x - u) + (u - v))
        BY <1>1, <1>3, <2>1, <2>2, DividesSum
    <2>4. (x - u) + (u - v) = x - v
        BY <2>2
    <2> QED BY <2>3, <2>4 DEF v
<1>4. ASSUME NEW k \in Nat, \A j \in Nat : id[j] < id[k] => j \in T PROVE k \in T
    <2>1. \A j \in Nat : j < k => Divides(m, f[j] - pm(j))
        BY <1>4
    <2>2. CASE k = 0
        <3>1. f[k] - pm(k) = m * 0
            BY <1>1, <1>2, <2>2, PowModStep
        <3> QED BY <3>1 DEF Divides
    <2>3. CASE k % 2 = 1
        <3>1. PICK j \in Nat : k = j + 1 /\ j < k /\ k - 1 = j
            BY <2>3
        <3> DEFINE x == f[j]
                   u == pm(j)
        <3>2. x \in Int /\ u \in Int /\ Divides(m, x - u)
            BY <1>1, <1>2, <2>1, <3>1
        <3>3. f[k] = a * x /\ pm(k) = (a * u) % m
            <4>1. f[k] = a * x
                BY <1>2, <3>1
            <4>2. PowMod(a, k, m) = (a * PowMod(a, k - 1, m)) % m
                BY <2>3, PowModStep
            <4> QED BY <3>1, <4>1, <4>2
        <3> HIDE DEF x, u, pm
        <3>4. a * (x - u) = a * x - a * u /\ a * x \in Int /\ a * u \in Int /\ x - u \in Int
            BY <3>2
        <3>5. Divides(m, a * (x - u))
            <4> DEFINE w == x - u
            <4>1. w \in Int /\ Divides(m, w)
                BY <3>2
            <4> HIDE DEF w
            <4>2. Divides(m, a * w)
                BY <1>1, <4>1, DividesMultiple
            <4> QED BY <4>2 DEF w
        <3>6. Divides(m, a * x - a * u)
            BY <3>4, <3>5
        <3>7. Divides(m, a * x - ((a * u) % m))
            BY <1>3, <3>4, <3>6
        <3> QED BY <3>3, <3>7
    <2>4. CASE k # 0 /\ k % 2 = 0
        <3>1. PICK j \in Nat : k = j + j /\ j < k /\ k \div 2 = j
            BY <2>4
        <3> DEFINE x == f[j]
                   u == pm(j)
        <3>2. x \in Int /\ u \in Int /\ Divides(m, x - u)
            BY <1>1, <1>2, <2>1, <3>1
        <3>3. f[k] = x * x
            BY <3>1, PowersAdd
        <3>4. pm(k) = (u * u) % m
            BY <2>4, <3>1, PowModStep
        <3> HIDE DEF x, u, pm
        <3>5. Divides(m, x * x - u * u) /\ x * x \in Int /\ u * u \in Int
            BY <1>1, <3>2, ProductsAgree
        <3>6. Divides(m, x * x - ((u * u) % m))
            BY <1>3, <3>5
        <3> QED BY <3>3, <3>4, <3>6
    <2>5. k % 2 = 0 \/ k % 2 = 1
        OBVIOUS
    <2> QED BY <2>2, <2>3, <2>4, <2>5
<1>5. id \in [Nat -> Nat]
    OBVIOUS
<1> HIDE DEF T, id
<1>6. Nat \subseteq T
    <2>1. \A k \in Nat : (\A j \in Nat : id[j] < id[k] => j \in T) => k \in T
        BY <1>4
    <2> QED BY <1>5, <2>1, MeasureInduction
<1> QED BY <1>6 DEF T

LEMMA PowModRange ==
    ASSUME NEW m \in Positive, NEW a \in Nat, NEW e \in Positive
    PROVE  PowMod(a, e, m) \in 0..(m - 1)
<1>1. ASSUME NEW x \in Nat PROVE x % m \in 0..(m - 1)
    BY RemainderLeaves
<1>2. e \in Nat /\ e # 0 /\ e - 1 \in Nat /\ e \div 2 \in Nat /\ (e % 2 = 1 \/ e % 2 = 0)
    BY DEF Positive
<1> DEFINE x == PowMod(a, e - 1, m)
           y == PowMod(a, e \div 2, m)
<1>3. x \in Nat /\ y \in Nat
    BY <1>2, PowModStep
<1>4. PowMod(a, e, m) = (a * x) % m \/ PowMod(a, e, m) = (y * y) % m
    BY <1>2, PowModStep
<1> HIDE DEF x, y
<1>5. a * x \in Nat /\ y * y \in Nat
    BY <1>3
<1> QED BY <1>1, <1>4, <1>5

LEMMA OddPartStep ==
    \A k \in Positive : /\ OddPart[k] \in Positive
                        /\ OddPart[k] = IF k % 2 = 1 THEN k ELSE OddPart[k \div 2]
<1> DEFINE D == Positive
           id == [k \in D |-> k]
           step(k, g) == IF k % 2 = 1 THEN k ELSE g[k \div 2]
           F == [g \in [D -> D] |-> [k \in D |-> step(k, g)]]
<1>1. \A k \in D : k % 2 # 1 => k \div 2 \in D /\ k \div 2 < k
    BY DEF Positive
<1>2. ASSUME NEW g \in [D -> D], NEW k \in D PROVE step(k, g) \in D
    BY <1>1
<1>3. ASSUME NEW g \in [D -> D], NEW h \in [D -> D], NEW k \in D,
             \A j \in D : id[j] < id[k] => g[j] = h[j]
      PROVE  step(k, g) = step(k, h)
    BY <1>1, <1>3
<1>4. PICK g \in [D -> D] : g = F[g]
    <2> HIDE DEF step
    <2>1. F \in [[D -> D] -> [D -> D]]
        BY <1>2
    <2>2. \A g \in [D -> D] : \A k \in D : F[g][k] = step(k, g)
        OBVIOUS
    <2>3. \A g, h \in [D -> D] : \A k \in D :
              (\A j \in D : id[j] < id[k] => g[j] = h[j]) => F[g][k] = F[h][k]
        BY <1>3, <2>2
    <2>4. id \in [D -> Nat] /\ D # {}
        <3>1. 1 \in D /\ \A k \in D : k \in Nat
            BY DEF Positive
        <3> QED BY <3>1
    <2> HIDE DEF F, D, id
    <2>5. Recursive(F, D, D, id)
        BY <2>1, <2>3, <2>4 DEF Recursive
    <2> QED BY <2>5, RecursionExists
<1>5. g = [k \in Nat \ {0} |-> IF k % 2 = 1 THEN k ELSE g[k \div 2]]
    BY <1>4 DEF Positive
<1>6. OddPart = [k \in Nat \ {0} |-> IF k % 2 = 1 THEN k ELSE OddPart[k \div 2]]
    BY <1>5 DEF OddPart
<1>7. \A k \in Positive : OddPart[k] = IF k % 2 = 1 THEN k ELSE OddPart[k \div 2]
    BY <1>6 DEF Positive
<1> DEFINE T == {k \in Positive : OddPart[k] \in Positive}
<1>8. \A k \in D : (\A j \in D : id[j] < id[k] => j \in T) => k \in T
    <2> SUFFICES ASSUME NEW k \in D, \A j \in D : id[j] < id[k] => j \in T PROVE k \in T
        OBVIOUS
    <2>1. CASE k % 2 = 1
        BY <1>7, <2>1
    <2>2. CASE k % 2 # 1
        <3>1. k \div 2 \in D /\ k \div 2 < k
            BY <1>1, <2>2
        <3>2. id[k \div 2] < id[k]
            BY <3>1
        <3>3. OddPart[k \div 2] \in Positive
            BY <3>1, <3>2
        <3> QED BY <1>7, <2>2, <3>3
    <2> QED BY <2>1, <2>2
<1>9. id \in [D -> Nat]
    <2>1. \A k \in D : k \in Nat
        BY DEF Positive
    <2> QED BY <2>1
<1> HIDE DEF id, T, step, F
<1>10. Positive \subseteq T
    BY <1>8, <1>9, MeasureInduction
<1> QED BY <1>7, <1>10 DEF T

\* What is left to double until m - 1.
LeftOf(m) == [e \in Positive |-> IF e < m - 1 THEN (m - 1) - e ELSE 0]

LEMMA LeftShrinks ==
    ASSUME NEW m \in Positive
    PROVE  /\ LeftOf(m) \in [Positive -> Nat]
           /\ \A e \in Positive : /\ 2 * e \in Positive
                                  /\ e < m - 1 => LeftOf(m)[2 * e] < LeftOf(m)[e]
<1>1. m \in Nat /\ \A e \in Positive : e \in Nat /\ e > 0 /\ 2 * e \in Positive
    BY DEF Positive
<1>2. \A e \in Positive : LeftOf(m)[e] = IF e < m - 1 THEN (m - 1) - e ELSE 0
    BY DEF LeftOf
<1>3. LeftOf(m) \in [Positive -> Nat]
    <2>1. \A e \in Positive : (IF e < m - 1 THEN (m - 1) - e ELSE 0) \in Nat
        BY <1>1
    <2> QED BY <2>1 DEF LeftOf
<1>4. ASSUME NEW e \in Positive, e < m - 1 PROVE LeftOf(m)[2 * e] < LeftOf(m)[e]
    <2>1. LeftOf(m)[2 * e] = IF 2 * e < m - 1 THEN (m - 1) - 2 * e ELSE 0
        BY <1>1, <1>2
    <2>2. LeftOf(m)[e] = (m - 1) - e
        BY <1>2, <1>4
    <2> QED BY <1>1, <1>4, <2>1, <2>2
<1> QED BY <1>1, <1>3, <1>4

Meets(m, a, M) ==
    \A e \in Positive : M[e] <=> e < m - 1 /\ (PowMod(a, e, m) = m - 1 \/ M[2 * e])

LEMMA WitnessMeets ==
    ASSUME NEW m \in Positive, NEW a
    PROVE  \E M : /\ Meets(m, a, M)
                  /\ MillerRabinWitness(m, a) <=>
                         PowMod(a, OddPart[m - 1], m) = 1 \/ M[OddPart[m - 1]]
<1> DEFINE D == Positive
           left == LeftOf(m)
           minus(e) == PowMod(a, e, m) = m - 1
           meets[e \in Nat \ {0}] == e < m - 1 /\ (PowMod(a, e, m) = m - 1 \/ meets[2 * e])
           step(e, g) == e < m - 1 /\ (minus(e) \/ g[2 * e])
           F == [g \in [D -> BOOLEAN] |-> [e \in D |-> step(e, g)]]
<1>1. MillerRabinWitness(m, a) <=> PowMod(a, OddPart[m - 1], m) = 1 \/ meets[OddPart[m - 1]]
    BY DEF MillerRabinWitness
<1> HIDE DEF meets, left
<1>2. left \in [D -> Nat]
      /\ \A e \in D : 2 * e \in D /\ (e < m - 1 => left[2 * e] < left[e])
    BY LeftShrinks DEF left
<1>3. ASSUME NEW g \in [D -> BOOLEAN], NEW h \in [D -> BOOLEAN], NEW e \in D,
             \A j \in D : left[j] < left[e] => g[j] = h[j]
      PROVE  step(e, g) = step(e, h)
    <2>1. e < m - 1 => g[2 * e] = h[2 * e]
        BY <1>2, <1>3
    <2> HIDE DEF minus
    <2> QED BY <2>1
<1>4. PICK g \in [D -> BOOLEAN] : g = F[g]
    <2>1. \A g, e : step(e, g) \in BOOLEAN
        OBVIOUS
    <2> HIDE DEF step
    <2>2. F \in [[D -> BOOLEAN] -> [D -> BOOLEAN]]
        BY <2>1
    <2>3. \A g \in [D -> BOOLEAN] : \A e \in D : F[g][e] = step(e, g)
        OBVIOUS
    <2>4. \A g, h \in [D -> BOOLEAN] : \A e \in D :
              (\A j \in D : left[j] < left[e] => g[j] = h[j]) => F[g][e] = F[h][e]
        BY <1>3, <2>3
    <2> HIDE DEF F, D
    <2>5. Recursive(F, D, BOOLEAN, left)
        BY <1>2, <2>2, <2>4 DEF Recursive
    <2> QED BY <2>5, RecursionExists
<1>5. g = [e \in Nat \ {0} |-> e < m - 1 /\ (PowMod(a, e, m) = m - 1 \/ g[2 * e])]
    BY <1>4 DEF Positive
<1>6. meets = [e \in Nat \ {0} |-> e < m - 1 /\ (PowMod(a, e, m) = m - 1 \/ meets[2 * e])]
    BY <1>5 DEF meets
<1>7. Meets(m, a, meets)
    <2>1. \A e \in Nat \ {0} : meets[e] = (e < m - 1 /\ (PowMod(a, e, m) = m - 1 \/ meets[2 * e]))
        BY <1>6
    <2> QED BY <2>1 DEF Meets, Positive
<1> QED BY <1>1, <1>7

\* The square roots of 1 below a prime p are 1 and p - 1.
LEMMA RootsOfOne ==
    ASSUME NEW p \in Primes, NEW x \in 0..(p - 1), (x * x) % p = 1
    PROVE  x = 1 \/ x = p - 1
<1>1. p \in Positive /\ p \in Int /\ p > 1 /\ x \in Int /\ x + 1 \in Nat /\ x - 1 \in Int
    BY DEF Primes, Prime, Positive
<1> DEFINE s == x * x
<1>2. s \in Int /\ s % p = 1
    BY <1>1
<1>3. Divides(p, s - 1)
    <2> HIDE DEF s
    <2>1. Divides(p, s - (s % p))
        BY <1>1, <1>2, RemainderLeaves
    <2> QED BY <1>2, <2>1
<1>4. s - 1 = (x + 1) * (x - 1)
    BY <1>1
<1> HIDE DEF s
<1>5. CASE Divides(p, x - 1)
    <2>1. -p < x - 1 /\ x - 1 < p
        BY <1>1
    <2>2. x - 1 = 0
        BY <1>1, <1>5, <2>1, DividesFar
    <2> QED BY <1>1, <2>2
<1>6. CASE Divides(p, x + 1)
    <2>1. CASE x + 1 < p
        <3>1. -p < x + 1 /\ x + 1 \in Int
            BY <1>1
        <3>2. x + 1 = 0
            BY <1>1, <1>6, <2>1, <3>1, DividesFar
        <3> QED BY <1>1, <3>2
    <2>2. CASE ~(x + 1 < p)
        BY <1>1, <2>2
    <2> QED BY <2>1, <2>2
<1>7. Divides(p, x + 1) \/ Divides(p, x - 1)
    BY <1>1, <1>3, <1>4, PrimeDividesFactor
<1> QED BY <1>5, <1>6, <1>7

\* _miller_rabin_witness: no number speaks against a prime.  Its power p - 1
\* leaves 1; each root taken on the way down to the odd part is 1 or p - 1.
LEMMA PrimePasses ==
    ASSUME NEW p \in Primes, NEW a \in 1..(p - 1)
    PROVE  MillerRabinWitness(p, a)
<1>1. p \in Positive /\ p \in Int /\ p > 1 /\ a \in Nat /\ p - 1 \in Positive
    BY DEF Primes, Prime, Positive
<1>2. PICK M : /\ Meets(p, a, M)
               /\ MillerRabinWitness(p, a) <=>
                      PowMod(a, OddPart[p - 1], p) = 1 \/ M[OddPart[p - 1]]
    BY <1>1, WitnessMeets
<1> DEFINE Passed(e) == PowMod(a, e, p) = 1 \/ M[e]
<1>3. Passed(p - 1)
    <2>1. PICK f : Powers(a, f)
        BY <1>1, PowersExist
    <2> DEFINE x == f[p - 1]
               u == PowMod(a, p - 1, p)
    <2>2. x \in Int /\ Divides(p, x - 1)
        <3>1. p - 1 \in Nat
            BY <1>1
        <3>2. f \in [Nat -> Nat]
            BY <2>1 DEF Powers
        <3>3. x \in Int
            BY <3>1, <3>2
        <3>4. Divides(p, f[p - 1] - 1)
            BY <2>1, PowerLeavesOne
        <3> QED BY <3>3, <3>4
    <2>3. u \in 0..(p - 1) /\ Divides(p, x - u)
        <3>1. p - 1 \in Nat
            BY <1>1
        <3> QED BY <1>1, <2>1, <3>1, PowModRange, PowModAgrees
    <2> HIDE DEF x, u
    <2>4. Divides(p, (x - 1) - (x - u))
        <3>1. x - 1 \in Int /\ x - u \in Int
            BY <2>2, <2>3
        <3> QED BY <1>1, <2>2, <2>3, <3>1, DividesSum
    <2>5. (x - 1) - (x - u) = u - 1 /\ u - 1 \in Int /\ -p < u - 1 /\ u - 1 < p
        BY <1>1, <2>2, <2>3
    <2>6. u - 1 = 0
        BY <1>1, <2>4, <2>5, DividesFar
    <2>7. u = 1
        BY <2>3, <2>6
    <2> QED BY <2>7 DEF u
<1>4. ASSUME NEW e \in Positive, 2 * e <= p - 1, Passed(2 * e) PROVE Passed(e)
    <2>1. e \in Nat /\ e > 0 /\ e < p - 1 /\ 2 * e \in Nat /\ 2 * e # 0 /\ (2 * e) % 2 = 0
          /\ (2 * e) \div 2 = e
        BY <1>1, <1>4 DEF Positive
    <2>2. M[e] <=> PowMod(a, e, p) = p - 1 \/ M[2 * e]
        BY <1>2, <2>1 DEF Meets
    <2>3. CASE M[2 * e]
        BY <2>2, <2>3
    <2>4. CASE PowMod(a, 2 * e, p) = 1
        <3> DEFINE x == PowMod(a, e, p)
        <3>1. x \in 0..(p - 1)
            BY <1>1, PowModRange
        <3>2. PowMod(a, 2 * e, p) = (PowMod(a, (2 * e) \div 2, p) * PowMod(a, (2 * e) \div 2, p)) % p
            BY <1>1, <2>1, PowModStep
        <3>3. (x * x) % p = 1
            BY <2>1, <2>4, <3>2
        <3> HIDE DEF x
        <3>4. x = 1 \/ x = p - 1
            BY <3>1, <3>3, RootsOfOne
        <3> QED BY <2>2, <3>4 DEF x
    <2> QED BY <1>4, <2>3, <2>4
<1> DEFINE T == {k \in Positive : k <= p - 1 /\ Passed(k) => Passed(OddPart[k])}
           id == [k \in Positive |-> k]
<1>5. id \in [Positive -> Nat]
    BY DEF Positive
<1>6. ASSUME NEW k \in Positive, \A j \in Positive : id[j] < id[k] => j \in T PROVE k \in T
    <2> SUFFICES ASSUME k <= p - 1, Passed(k) PROVE Passed(OddPart[k])
        OBVIOUS
    <2>1. CASE k % 2 = 1
        BY <2>1, OddPartStep
    <2>2. CASE k % 2 # 1
        <3>1. PICK j \in Positive : k = 2 * j /\ j < k /\ k \div 2 = j /\ j <= p - 1
            BY <1>1, <2>2 DEF Positive
        <3>2. Passed(j)
            BY <1>4, <3>1
        <3>3. j \in T
            BY <1>6, <3>1
        <3>4. OddPart[k] = OddPart[j]
            BY <2>2, <3>1, OddPartStep
        <3> HIDE DEF Passed
        <3>5. Passed(OddPart[j])
            BY <3>1, <3>2, <3>3
        <3> QED BY <3>4, <3>5
    <2> QED BY <2>1, <2>2
<1> HIDE DEF id, T
<1>7. Positive \subseteq T
    <2>1. \A k \in Positive : (\A j \in Positive : id[j] < id[k] => j \in T) => k \in T
        BY <1>6
    <2> QED BY <1>5, <2>1, MeasureInduction
<1>8. Passed(OddPart[p - 1])
    <2>1. p - 1 \in T /\ p - 1 <= p - 1
        BY <1>1, <1>7
    <2> HIDE DEF Passed
    <2> QED BY <1>3, <2>1 DEF T
<1> QED BY <1>2, <1>8

\* _miller_rabin_witness: a divisor of a number speaks against it, since it
\* divides each of its own powers, and neither 1 nor the number before.
LEMMA DivisorFails ==
    ASSUME NEW m \in Nat, NEW d \in 2..(m - 1), m % d = 0
    PROVE  ~MillerRabinWitness(m, d)
<1>1. m \in Positive /\ m \in Int /\ m > 2 /\ d \in Positive /\ d \in Nat /\ d \in Int /\ d > 1
      /\ m - 1 \in Positive
    BY DEF Positive
<1>2. Divides(d, m) /\ Divides(d, d)
    <2>1. d = d * 1
        BY <1>1
    <2>2. Divides(d, d)
        BY <2>1 DEF Divides
    <2> QED BY <1>1, <2>2, RemainderLeaves
<1>3. ~Divides(d, 1)
    BY <1>1, DividesFar
<1>4. ASSUME NEW x \in Nat, Divides(d, x) PROVE Divides(d, x % m)
    <2> DEFINE r == x % m
    <2>1. r \in 0..(m - 1) /\ Divides(m, x - r)
        <3>1. x \in Int
            OBVIOUS
        <3>2. (x % m) \in 0..(m - 1) /\ Divides(m, x - (x % m))
            BY <1>1, <3>1, RemainderLeaves
        <3> QED BY <3>2
    <2> HIDE DEF r
    <2>2. PICK q \in Int : x - r = m * q
        BY <2>1 DEF Divides
    <2>3. Divides(d, m * q) /\ m * q \in Int
        <3>1. m * q \in Int
            BY <1>1
        <3> QED BY <1>1, <1>2, <3>1, DividesMultiple
    <2>4. Divides(d, x - m * q)
        BY <1>1, <1>4, <2>3, DividesSum
    <2>5. x - m * q = r
        BY <1>1, <2>1, <2>2, <2>3
    <2> QED BY <2>4, <2>5 DEF r
<1> DEFINE T == {k \in Positive : Divides(d, PowMod(d, k, m))}
           id == [k \in Positive |-> k]
<1>5. id \in [Positive -> Nat]
    BY DEF Positive
<1>6. ASSUME NEW k \in Positive, \A j \in Positive : id[j] < id[k] => j \in T PROVE k \in T
    <2>1. \A j \in Positive : j < k => Divides(d, PowMod(d, j, m))
        BY <1>6
    <2>2. CASE k % 2 = 1
        <3> DEFINE x == PowMod(d, k - 1, m)
        <3>1. k \in Nat /\ k - 1 \in Nat
            BY DEF Positive
        <3>2. x \in Nat
            BY <1>1, <3>1, PowModStep
        <3>3. PowMod(d, k, m) = (d * x) % m
            BY <1>1, <2>2, <3>1, PowModStep
        <3> HIDE DEF x
        <3>4. d * x \in Nat /\ x \in Int
            BY <1>1, <3>2
        <3>5. Divides(d, d * x)
            BY <1>1, <1>2, <3>4, DividesMultiple
        <3> QED BY <1>4, <3>3, <3>4, <3>5
    <2>3. CASE k % 2 # 1
        <3>1. PICK j \in Positive : k \div 2 = j /\ j < k
            BY <2>3 DEF Positive
        <3>2. k \in Nat /\ k # 0 /\ k % 2 = 0 /\ j \in Nat
            BY <2>3 DEF Positive
        <3> DEFINE x == PowMod(d, j, m)
        <3>3. x \in Nat /\ x \in Int /\ Divides(d, x)
            BY <1>1, <2>1, <3>1, <3>2, PowModStep
        <3>4. PowMod(d, k, m) = (x * x) % m
            BY <1>1, <3>1, <3>2, PowModStep
        <3> HIDE DEF x
        <3>5. x * x \in Nat
            BY <3>3
        <3>6. Divides(d, x * x)
            BY <1>1, <3>3, DividesMultiple
        <3> QED BY <1>4, <3>4, <3>5, <3>6
    <2> QED BY <2>2, <2>3
<1> HIDE DEF id, T
<1>7. Positive \subseteq T
    <2>1. \A k \in Positive : (\A j \in Positive : id[j] < id[k] => j \in T) => k \in T
        BY <1>6
    <2> QED BY <1>5, <2>1, MeasureInduction
<1>8. ASSUME NEW e \in Positive PROVE PowMod(d, e, m) # 1 /\ PowMod(d, e, m) # m - 1
    <2>1. Divides(d, PowMod(d, e, m))
        BY <1>7 DEF T
    <2>2. ASSUME Divides(d, m - 1) PROVE FALSE
        <3>1. m - 1 \in Int /\ m - (m - 1) = 1
            BY <1>1
        <3>2. Divides(d, m - (m - 1))
            BY <1>1, <1>2, <2>2, <3>1, DividesSum
        <3> QED BY <1>3, <3>1, <3>2
    <2> QED BY <1>3, <2>1, <2>2
<1>9. PICK M : /\ Meets(m, d, M)
               /\ MillerRabinWitness(m, d) <=>
                      PowMod(d, OddPart[m - 1], m) = 1 \/ M[OddPart[m - 1]]
    BY <1>1, WitnessMeets
<1> DEFINE U == {e \in Positive : ~M[e]}
<1>10. ASSUME NEW e \in Positive, \A j \in Positive : LeftOf(m)[j] < LeftOf(m)[e] => j \in U
       PROVE  e \in U
    <2>1. M[e] <=> e < m - 1 /\ M[2 * e]
        BY <1>8, <1>9 DEF Meets
    <2>2. e < m - 1 => 2 * e \in U
        BY <1>1, <1>10, LeftShrinks
    <2> QED BY <2>1, <2>2
<1> HIDE DEF U
<1>11. Positive \subseteq U
    <2>1. \A e \in Positive :
              (\A j \in Positive : LeftOf(m)[j] < LeftOf(m)[e] => j \in U) => e \in U
        BY <1>10
    <2>2. LeftOf(m) \in [Positive -> Nat]
        BY <1>1, LeftShrinks
    <2> QED BY <2>1, <2>2, MeasureInduction
<1>12. OddPart[m - 1] \in Positive
    BY <1>1, OddPartStep
<1> QED BY <1>8, <1>9, <1>11, <1>12 DEF U

\* factorization.py:183-209: with all witnesses taken, the test is exact.
LEMMA ProbablyPrimeIsPrime ==
    ASSUME NEW m \in Nat
    PROVE  IsProbablyPrime(m) <=> Prime(m)
<1>1. CASE m < 4
    <2>1. CASE m < 2
        BY <2>1 DEF IsProbablyPrime, Prime
    <2>2. CASE m = 2
        BY <2>2 DEF IsProbablyPrime, Prime
    <2>3. CASE m = 3
        <3>1. \A d \in 2..(m - 1) : d = 2 /\ m % d # 0
            BY <2>3
        <3> QED BY <2>3, <3>1 DEF IsProbablyPrime, Prime
    <2> QED BY <1>1, <2>1, <2>2, <2>3
<1>2. CASE m >= 4 /\ m % 2 = 0
    <2>1. 2 \in 2..(m - 1)
        BY <1>2
    <2>2. ~Prime(m)
        BY <1>2, <2>1 DEF Prime
    <2> QED BY <1>2, <2>2 DEF IsProbablyPrime
<1>3. CASE m >= 4 /\ m % 2 # 0
    <2>1. m % 2 = 1
        BY <1>3
    <2>2. IsProbablyPrime(m) <=> \A a \in 2..(m - 2) : MillerRabinWitness(m, a)
        BY <1>3, <2>1 DEF IsProbablyPrime
    <2>3. ASSUME Prime(m), NEW a \in 2..(m - 2) PROVE MillerRabinWitness(m, a)
        <3>1. m \in Primes /\ a \in 1..(m - 1)
            BY <2>3 DEF Primes
        <3> QED BY <3>1, PrimePasses
    <2>4. ASSUME ~Prime(m) PROVE \E a \in 2..(m - 2) : ~MillerRabinWitness(m, a)
        <3>1. PICK d \in 2..(m - 1) : m % d = 0
            <4>1. m > 1
                BY <1>3
            <4> QED BY <2>4, <4>1 DEF Prime
        <3>2. d # m - 1
            <4> SUFFICES ASSUME d = m - 1 PROVE FALSE
                OBVIOUS
            <4>1. d \in Positive /\ d \in Int /\ m \in Int /\ d > 1
                BY <1>3, <3>1 DEF Positive
            <4>2. Divides(d, m)
                BY <3>1, <4>1, RemainderLeaves
            <4>3. d = d * 1 /\ m - d = 1
                BY <4>1
            <4>4. Divides(d, d)
                BY <4>3 DEF Divides
            <4>5. Divides(d, m - d)
                BY <4>1, <4>2, <4>4, DividesSum
            <4> QED BY <4>1, <4>3, <4>5, DividesFar
        <3>3. d \in 2..(m - 2)
            BY <3>2
        <3>4. ~MillerRabinWitness(m, d)
            BY <3>1, DivisorFails
        <3> QED BY <3>3, <3>4
    <2> QED BY <2>2, <2>3, <2>4
<1> QED BY <1>1, <1>2, <1>3

\* _solver.py:125-166: whatever the number and whatever witnesses are drawn for
\* it, none is found against a prime.
THEOREM NoPrimeIsRejected ==
    \A m \in Nat : Prime(m) => \A r \in PrimalityTest(m) : r[1] = TRUE
<1> SUFFICES ASSUME NEW m \in Nat, Prime(m), NEW r \in PrimalityTest(m) PROVE r[1] = TRUE
    OBVIOUS
<1> DEFINE none   == {<<FALSE, 0>>}
           small  == {<<TRUE, 1>>}
           even   == {<<FALSE, 1>>}
           fixed  == {FixedVerdict(m)}
           random == RandomVerdicts(m)
<1>1. m \in Primes /\ m > 1
    BY DEF Primes, Prime
<1>2. PrimalityTest(m) = IF m < 2 THEN none ELSE IF m < 4 THEN small ELSE IF m % 2 = 0 THEN even
                         ELSE IF m < DETERMINISTIC_LIMIT THEN fixed ELSE random
    BY DEF PrimalityTest
<1> HIDE DEF none, small, even, fixed, random
<1>3. CASE m < 4
    <2>1. PrimalityTest(m) = small
        BY <1>1, <1>3, <1>2
    <2>2. r = <<TRUE, 1>>
        BY <2>1 DEF small
    <2> QED BY <2>2
<1>4. m >= 4 => m % 2 # 0
    <2>1. m >= 4 => 2 \in 2..(m - 1)
        OBVIOUS
    <2> QED BY <2>1 DEF Prime
<1>5. CASE m >= 4 /\ m < DETERMINISTIC_LIMIT
    <2> DEFINE used == {i \in DOMAIN DETERMINISTIC_WITNESSES : DETERMINISTIC_WITNESSES[i] < m}
               failing == {i \in used : ~MillerRabinWitness(m, DETERMINISTIC_WITNESSES[i])}
    <2>1. \A i \in DOMAIN DETERMINISTIC_WITNESSES : DETERMINISTIC_WITNESSES[i] \in Nat \ {0}
        BY DEF DETERMINISTIC_WITNESSES
    <2>2. failing = {}
        <3> SUFFICES ASSUME NEW i \in used PROVE MillerRabinWitness(m, DETERMINISTIC_WITNESSES[i])
            OBVIOUS
        <3>1. DETERMINISTIC_WITNESSES[i] \in 1..(m - 1)
            BY <2>1
        <3> QED BY <1>1, <3>1, PrimePasses
    <2>3. PrimalityTest(m) = fixed
        BY <1>4, <1>5, <1>2
    <2>4. r = FixedVerdict(m)
        BY <2>3 DEF fixed
    <2>5. FixedVerdict(m) = IF failing = {} THEN <<TRUE, Cardinality(used)>>
                            ELSE <<FALSE, Min(failing)>>
        BY DEF FixedVerdict
    <2> HIDE DEF used, failing
    <2> QED BY <2>2, <2>4, <2>5
<1>6. CASE m >= 4 /\ m >= DETERMINISTIC_LIMIT
    <2> DEFINE passing == {a \in 2..(m - 2) : MillerRabinWitness(m, a)}
    <2>1. PrimalityTest(m) = random
        BY <1>4, <1>6, <1>2, SolverAssumption
    <2>2. r \in RandomVerdicts(m)
        BY <2>1 DEF random
    <2>3. passing = 2..(m - 2)
        <3> SUFFICES ASSUME NEW a \in 2..(m - 2) PROVE MillerRabinWitness(m, a)
            OBVIOUS
        <3>1. a \in 1..(m - 1)
            OBVIOUS
        <3> QED BY <1>1, <3>1, PrimePasses
    <2>4. /\ r \in ({TRUE} \X {WITNESSES}) \cup ({FALSE} \X (1..WITNESSES))
          /\ IF r[1] THEN Cardinality(passing) >= WITNESSES
             ELSE passing # 2..(m - 2) /\ r[2] <= Cardinality(passing) + 1
        BY <2>2 DEF RandomVerdicts
    <2>5. r[1] = TRUE \/ r[1] = FALSE
        BY <2>4
    <2> HIDE DEF passing
    <2> QED BY <2>3, <2>4, <2>5
<1>7. m < 4 \/ (m >= 4 /\ m < DETERMINISTIC_LIMIT) \/ (m >= 4 /\ m >= DETERMINISTIC_LIMIT)
    BY SolverAssumption
<1> QED BY <1>3, <1>5, <1>6, <1>7

-----------------------------------------------------------------------------
(* The searches.                                                           *)

LEMMA MinIsLeast ==
    ASSUME NEW S \in SUBSET Nat, S # {}
    PROVE  Min(S) \in S /\ \A x \in S : Min(S) <= x
<1>1. \E x \in S : \A y \in S : x <= y
    BY LeastIsThere
<1> QED BY <1>1 DEF Min

LEMMA MaxIsGreatest ==
    ASSUME NEW S \in SUBSET Nat, NEW x \in S, \A y \in S : y <= x
    PROVE  Max(S) = x
<1>1. \A y \in S : x >= y
    OBVIOUS
<1>2. Max(S) \in S /\ \A y \in S : Max(S) >= y
    BY <1>1 DEF Max
<1>3. Max(S) \in Nat /\ x \in Nat /\ Max(S) >= x /\ Max(S) <= x
    BY <1>2
<1> QED BY <1>3

LEMMA EvenPrime ==
    ASSUME NEW p \in Nat, Prime(p), p % 2 = 0
    PROVE  p = 2
<1> SUFFICES ASSUME p # 2 PROVE FALSE
    OBVIOUS
<1>1. 2 \in 2..(p - 1)
    BY DEF Prime
<1> QED BY <1>1 DEF Prime

\* goldbach_decomposition: of two primes that make an even number above 4 the
\* smaller is odd and not above the half; so it is in the range searched.
LEMMA GoldbachRangeSuffices ==
    ASSUME NEW m \in Nat, m > 4, m % 2 = 0, NEW p \in 2..m, Prime(p), Prime(m - p)
    PROVE  \E q \in 3..(m \div 2) : q % 2 = 1 /\ Prime(q) /\ Prime(m - q)
<1> DEFINE r == m - p
<1>1. p \in Nat /\ r \in Nat /\ p > 1 /\ r > 1 /\ m = p + r /\ Prime(p) /\ Prime(r)
    BY DEF Prime
<1>2. p % 2 = 1
    <2> SUFFICES ASSUME p % 2 # 1 PROVE FALSE
        OBVIOUS
    <2>1. p % 2 = 0
        BY <1>1
    <2>2. p = 2
        BY <1>1, <2>1, EvenPrime
    <2> HIDE DEF r
    <2>3. r % 2 = 0
        BY <1>1, <2>2
    <2>4. r = 2
        BY <1>1, <2>3, EvenPrime
    <2> QED BY <1>1, <2>2, <2>4
<1> HIDE DEF r
<1>3. r % 2 = 1
    BY <1>1, <1>2
<1>4. CASE p <= m \div 2
    <2>1. p \in 3..(m \div 2) /\ m - p = r
        BY <1>1, <1>2, <1>4
    <2> QED BY <1>1, <1>2, <2>1
<1>5. CASE ~(p <= m \div 2)
    <2>1. r \in 3..(m \div 2) /\ m - r = p
        BY <1>1, <1>3, <1>5
    <2> QED BY <1>1, <1>3, <2>1
<1> QED BY <1>4, <1>5

LEMMA GoldbachFinds ==
    ASSUME n \in Nat
    PROVE  GoldbachIsExact
<1> DEFINE Found(p) == Prime(p) /\ Prime(n - p)
           tried == {p \in 3..(n \div 2) : p % 2 = 1 /\ Found(p)}
           split == GoldbachDecomposition(n)
           some  == n % 2 = 0 /\ \E p \in 2..n : Found(p)
<1>1. split = IF n < 4 \/ n % 2 # 0 THEN Raises
              ELSE IF n = 4 THEN <<2, 2>>
              ELSE IF tried = {} THEN Raises
              ELSE <<Min(tried), n - Min(tried)>>
    <2> DEFINE candidates == {p \in 3..(n \div 2) :
                                 p % 2 = 1 /\ IsProbablyPrime(p) /\ IsProbablyPrime(n - p)}
    <2>1. candidates = tried
        <3>1. ASSUME NEW p \in 3..(n \div 2)
              PROVE  IsProbablyPrime(p) /\ IsProbablyPrime(n - p) <=> Found(p)
            <4>1. p \in Nat /\ n - p \in Nat
                OBVIOUS
            <4> QED BY <4>1, ProbablyPrimeIsPrime
        <3> HIDE DEF Found
        <3> QED BY <3>1
    <2>2. split = IF n < 4 \/ n % 2 # 0 THEN Raises
                  ELSE IF n = 4 THEN <<2, 2>>
                  ELSE IF candidates = {} THEN Raises
                  ELSE <<Min(candidates), n - Min(candidates)>>
        BY DEF GoldbachDecomposition
    <2> HIDE DEF candidates, tried, split
    <2> QED BY <2>1, <2>2
<1>2. tried \in SUBSET Nat
    OBVIOUS
<1>3. \A x, y : <<x, y>> # <<>>
    OBVIOUS
<1>4. ASSUME some
      PROVE  split # Raises /\ Prime(split[1]) /\ Prime(split[2]) /\ split[1] + split[2] = n
    <2>1. PICK p \in 2..n : Found(p)
        BY <1>4
    <2>2. n >= 4 /\ n % 2 = 0
        BY <1>4, <2>1 DEF Prime
    <2>3. CASE n = 4
        <3>1. Prime(2)
            BY DEF Prime
        <3>2. split = <<2, 2>>
            <4> HIDE DEF split, tried
            <4> QED BY <1>1, <2>3
        <3> HIDE DEF split
        <3> QED BY <1>3, <2>3, <3>1, <3>2 DEF Raises
    <2>4. CASE n # 4
        <3>1. \E q \in 3..(n \div 2) : q % 2 = 1 /\ Prime(q) /\ Prime(n - q)
            BY <2>1, <2>2, <2>4, GoldbachRangeSuffices
        <3>2. tried # {}
            BY <3>1
        <3> DEFINE q == Min(tried)
        <3>3. q \in tried
            <4> HIDE DEF tried
            <4> QED BY <1>2, <3>2, MinIsLeast
        <3>4. split = <<q, n - q>>
            <4>1. ~(n < 4) /\ ~(n % 2 # 0)
                BY <2>2
            <4> HIDE DEF split, tried
            <4> QED BY <1>1, <2>4, <3>2, <4>1
        <3> HIDE DEF q, split
        <3>5. q \in Nat /\ Prime(q) /\ Prime(n - q)
            BY <3>3
        <3>6. q + (n - q) = n
            BY <3>5
        <3>7. split[1] = q /\ split[2] = n - q /\ split # <<>>
            BY <1>3, <3>4
        <3> QED BY <3>5, <3>6, <3>7 DEF Raises
    <2> QED BY <2>3, <2>4
<1>5. ASSUME ~some PROVE split = Raises
    <2>1. CASE n < 4 \/ n % 2 # 0
        <3> HIDE DEF split, tried, some
        <3> QED BY <1>1, <2>1
    <2>2. CASE ~(n < 4 \/ n % 2 # 0)
        <3>1. n # 4
            <4> SUFFICES ASSUME n = 4 PROVE FALSE
                OBVIOUS
            <4>1. Prime(2) /\ n - 2 = 2 /\ 2 \in 2..n /\ n % 2 = 0
                BY DEF Prime
            <4> QED BY <1>5, <4>1
        <3>2. tried = {}
            <4> SUFFICES ASSUME NEW p \in tried PROVE FALSE
                OBVIOUS
            <4>1. p \in 2..n /\ Found(p) /\ n % 2 = 0
                BY <2>2
            <4> QED BY <1>5, <4>1
        <3> HIDE DEF split, tried, some
        <3> QED BY <1>1, <2>2, <3>1, <3>2
    <2> QED BY <2>1, <2>2
<1>6. some <=> n % 2 = 0 /\ \E p \in 2..n : Prime(p) /\ Prime(n - p)
    OBVIOUS
<1> HIDE DEF some, split, tried, Found
<1> QED BY <1>4, <1>5, <1>6 DEF GoldbachIsExact, split

\* A recursive function whose value at k + 1 is made from its value at k.
LEMMA IteratesExist ==
    ASSUME NEW V, NEW v \in V, NEW S \in [V -> V]
    PROVE  \E g \in [Nat -> V] : \A k \in Nat : g[k] = IF k = 0 THEN v ELSE S[g[k - 1]]
<1> DEFINE D == Nat
           id == [k \in D |-> k]
           step(k, g) == IF k = 0 THEN v ELSE S[g[k - 1]]
           F == [g \in [D -> V] |-> [k \in D |-> step(k, g)]]
<1>1. \A k \in Nat : k # 0 => k - 1 \in Nat /\ k - 1 < k
    OBVIOUS
<1>2. ASSUME NEW g \in [D -> V], NEW k \in D PROVE step(k, g) \in V
    BY <1>1
<1>3. ASSUME NEW g \in [D -> V], NEW h \in [D -> V], NEW k \in D,
             \A j \in D : id[j] < id[k] => g[j] = h[j]
      PROVE  step(k, g) = step(k, h)
    <2>1. k # 0 => g[k - 1] = h[k - 1]
        <3>1. \A j \in D : j < k => g[j] = h[j]
            BY <1>3
        <3> QED BY <1>1, <3>1
    <2> QED BY <2>1
<1>4. PICK g \in [D -> V] : g = F[g]
    <2> HIDE DEF step
    <2>1. F \in [[D -> V] -> [D -> V]]
        BY <1>2
    <2>2. \A g \in [D -> V] : \A k \in D : F[g][k] = step(k, g)
        OBVIOUS
    <2>3. \A g, h \in [D -> V] : \A k \in D :
              (\A j \in D : id[j] < id[k] => g[j] = h[j]) => F[g][k] = F[h][k]
        BY <1>3, <2>2
    <2>4. id \in [D -> Nat] /\ V # {}
        OBVIOUS
    <2> HIDE DEF F, D, id
    <2>5. Recursive(F, D, V, id)
        BY <2>1, <2>3, <2>4 DEF Recursive
    <2> QED BY <2>5, RecursionExists
<1> QED BY <1>4

LEMMA MaxOfTwo ==
    ASSUME NEW a \in Nat, NEW b \in Nat
    PROVE  Max({a, b}) \in Nat /\ Max({a, b}) = IF a >= b THEN a ELSE b
<1> DEFINE x == IF a >= b THEN a ELSE b
           ab == {a, b}
<1>1. ab \in SUBSET Nat /\ x \in ab /\ \A y \in ab : y <= x
    OBVIOUS
<1> HIDE DEF ab
<1>2. Max(ab) = x
    <2> HIDE DEF x
    <2> QED BY <1>1, MaxIsGreatest
<1> QED BY <1>2 DEF ab

\* What the loop of collatz_sequence holds after k turns, when the orbit has
\* not been at 1 before.
LEMMA LoopFollowsOrbit ==
    ASSUME NEW orbit \in [Nat -> Nat],
           \A k \in Nat : orbit[k + 1] = CollatzStep(orbit[k]),
           NEW loop,
           loop[0] = [n |-> orbit[0], length |-> 0, top |-> orbit[0]],
           \A k \in Nat : loop[k].n # 1 =>
               loop[k + 1] = [n |-> CollatzStep(loop[k].n), length |-> loop[k].length + 1,
                              top |-> Max({loop[k].top, CollatzStep(loop[k].n)})],
           NEW end \in Nat, \A j \in Nat : j < end => orbit[j] # 1
    PROVE  loop[end] = [n |-> orbit[end], length |-> end, top |-> Max({orbit[i] : i \in 0..end})]
<1> DEFINE Seen(k) == {orbit[i] : i \in 0..k}
           Holds(k) == \E t \in Nat :
                           /\ loop[k] = [n |-> orbit[k], length |-> k, top |-> t]
                           /\ t \in Seen(k) /\ \A y \in Seen(k) : y <= t
           T == {k \in Nat : k <= end => Holds(k)}
<1>1. 0 \in T
    <2>1. Seen(0) = {orbit[0]} /\ orbit[0] \in Nat
        OBVIOUS
    <2> HIDE DEF Seen
    <2>2. Holds(0)
        BY <2>1
    <2> HIDE DEF Holds
    <2> QED BY <2>2
<1>2. ASSUME NEW k \in Nat, k \in T PROVE k + 1 \in T
    <2> SUFFICES ASSUME k + 1 <= end PROVE Holds(k + 1)
        <3> HIDE DEF Holds
        <3> QED OBVIOUS
    <2>1. k <= end /\ k < end
        OBVIOUS
    <2>0. Holds(k)
        <3> HIDE DEF Holds
        <3> QED BY <1>2, <2>1
    <2>2. PICK t \in Nat : /\ loop[k] = [n |-> orbit[k], length |-> k, top |-> t]
                           /\ t \in Seen(k) /\ \A y \in Seen(k) : y <= t
        BY <2>0
    <2> DEFINE x == orbit[k + 1]
               u == Max({t, x})
    <2>3. x \in Nat /\ x = CollatzStep(orbit[k])
        OBVIOUS
    <2>4. loop[k].n = orbit[k] /\ loop[k].length = k /\ loop[k].top = t
        BY <2>2
    <2>5. loop[k + 1] = [n |-> x, length |-> k + 1, top |-> u]
        BY <2>1, <2>3, <2>4
    <2>6. Seen(k + 1) = Seen(k) \cup {x}
        <3>1. 0..(k + 1) = (0..k) \cup {k + 1}
            OBVIOUS
        <3> QED BY <3>1
    <2>7. Seen(k) \in SUBSET Nat
        OBVIOUS
    <2> HIDE DEF x, Seen
    <2>8. u \in Nat /\ u = IF t >= x THEN t ELSE x
        BY <2>3, MaxOfTwo
    <2> HIDE DEF u
    <2>9. u \in Seen(k + 1) /\ \A y \in Seen(k + 1) : y <= u
        BY <2>2, <2>3, <2>6, <2>7, <2>8
    <2> QED BY <2>5, <2>8, <2>9 DEF x
<1>3. end \in T
    <2> HIDE DEF T
    <2> QED BY <1>1, <1>2, NumberInduction
<1>4. Holds(end)
    <2> HIDE DEF Holds
    <2> QED BY <1>3
<1>5. PICK t \in Nat : /\ loop[end] = [n |-> orbit[end], length |-> end, top |-> t]
                       /\ t \in Seen(end) /\ \A y \in Seen(end) : y <= t
    BY <1>4
<1>6. Seen(end) \in SUBSET Nat
    OBVIOUS
<1>7. Max(Seen(end)) = t
    <2> HIDE DEF Seen
    <2> QED BY <1>5, <1>6, MaxIsGreatest
<1> QED BY <1>5, <1>7

\* Once it is at 1 the loop is over.
LEMMA LoopStays ==
    ASSUME NEW loop, NEW end \in Nat, loop[end].n = 1,
           \A k \in Nat : loop[k].n = 1 => loop[k + 1] = loop[k],
           NEW cap \in Nat, end <= cap
    PROVE  loop[cap] = loop[end]
<1> DEFINE T == {k \in Nat : loop[end + k] = loop[end]}
<1>1. 0 \in T
    OBVIOUS
<1>2. ASSUME NEW k \in Nat, k \in T PROVE k + 1 \in T
    <2>1. end + (k + 1) = (end + k) + 1 /\ end + k \in Nat
        OBVIOUS
    <2>2. loop[end + k].n = 1
        BY <1>2
    <2>3. loop[(end + k) + 1] = loop[end + k]
        BY <2>1, <2>2
    <2> QED BY <1>2, <2>1, <2>3
<1>3. cap - end \in T
    <2> HIDE DEF T
    <2> QED BY <1>1, <1>2, NumberInduction
<1>4. end + (cap - end) = cap
    OBVIOUS
<1> QED BY <1>3, <1>4

LEMMA CollatzFinds ==
    ASSUME n \in Nat
    PROVE  CollatzIsExact
<1> DEFINE orbit[k \in Nat] == IF k = 0 THEN n ELSE CollatzStep(orbit[k - 1])
           loop[k \in Nat] ==
               IF k = 0 THEN [n |-> n, length |-> 0, top |-> n]
               ELSE LET last == loop[k - 1]
                        next == CollatzStep(last.n)
                    IN  IF last.n = 1 THEN last
                        ELSE [n |-> next, length |-> last.length + 1, top |-> Max({last.top, next})]
           end(cap) == Min({k \in 0..cap : k = cap \/ orbit[k] = 1})
<1> SUFFICES ASSUME NEW cap \in Nat, n >= 1
             PROVE  CollatzSequence(n, cap) =
                        <<end(cap), Max({orbit[k] : k \in 0..end(cap)}), orbit[end(cap)] = 1>>
    <2>1. {0, n % 20, 25} \subseteq Nat
        OBVIOUS
    <2> HIDE DEF loop
    <2> QED BY <2>1 DEF CollatzIsExact
<1>2. CollatzSequence(n, cap) = <<loop[cap].length, loop[cap].top, loop[cap].n = 1>>
    <2>1. ~(n < 1)
        OBVIOUS
    <2> QED BY <2>1 DEF CollatzSequence
<1> HIDE DEF orbit, loop
<1>3. \A k \in Nat : CollatzStep(k) \in Nat
    BY DEF CollatzStep
<1>4. orbit \in [Nat -> Nat] /\ orbit[0] = n /\ \A k \in Nat : orbit[k + 1] = CollatzStep(orbit[k])
    <2> DEFINE V == Nat
               S == [x \in V |-> CollatzStep(x)]
               first == n
    <2>1. S \in [V -> V] /\ first \in V
        BY <1>3
    <2>2. PICK g \in [V -> V] : \A k \in V : g[k] = IF k = 0 THEN n ELSE S[g[k - 1]]
        <3>1. \E g \in [Nat -> V] : \A k \in Nat : g[k] = IF k = 0 THEN first ELSE S[g[k - 1]]
            <4> HIDE DEF S, V, first
            <4> QED BY <2>1, IteratesExist
        <3> QED BY <3>1
    <2>3. \A k \in Nat : k # 0 => S[g[k - 1]] = CollatzStep(g[k - 1])
        OBVIOUS
    <2> HIDE DEF S
    <2>4. g = [k \in Nat |-> IF k = 0 THEN n ELSE CollatzStep(g[k - 1])]
        BY <2>2, <2>3
    <2>5. orbit = [k \in Nat |-> IF k = 0 THEN n ELSE CollatzStep(orbit[k - 1])]
        BY <2>4 DEF orbit
    <2>6. ASSUME NEW k \in Nat PROVE orbit[k + 1] = CollatzStep(orbit[k])
        <3>1. k + 1 \in Nat /\ k + 1 # 0 /\ (k + 1) - 1 = k
            OBVIOUS
        <3> QED BY <2>5, <3>1
    <2>7. orbit[0] = n
        BY <2>5
    <2> DEFINE T == {k \in Nat : orbit[k] \in Nat}
    <2>8. Nat \subseteq T
        <3>1. 0 \in T
            BY <2>7
        <3>2. \A k \in Nat : k \in T => k + 1 \in T
            BY <1>3, <2>6
        <3> HIDE DEF T
        <3> QED BY <3>1, <3>2, NumberInduction
    <2>9. orbit = [k \in Nat |-> orbit[k]]
        BY <2>5
    <2> QED BY <2>6, <2>7, <2>8, <2>9
<1>5. /\ loop[0] = [n |-> n, length |-> 0, top |-> n]
      /\ \A k \in Nat : loop[k + 1] =
             IF loop[k].n = 1 THEN loop[k]
             ELSE [n |-> CollatzStep(loop[k].n), length |-> loop[k].length + 1,
                   top |-> Max({loop[k].top, CollatzStep(loop[k].n)})]
    <2> DEFINE V == [n : Nat, length : Nat, top : Nat]
               turn(r) == IF r.n = 1 THEN r
                          ELSE [n |-> CollatzStep(r.n), length |-> r.length + 1,
                                top |-> Max({r.top, CollatzStep(r.n)})]
               S == [r \in V |-> turn(r)]
               first == [n |-> n, length |-> 0, top |-> n]
    <2>1. S \in [V -> V] /\ first \in V
        <3>1. ASSUME NEW r \in V PROVE turn(r) \in V
            <4>1. r.n \in Nat /\ r.top \in Nat /\ r.length + 1 \in Nat /\ CollatzStep(r.n) \in Nat
                BY <1>3
            <4>2. Max({r.top, CollatzStep(r.n)}) \in Nat
                BY <4>1, MaxOfTwo
            <4> QED BY <4>1, <4>2
        <3> HIDE DEF turn
        <3> QED BY <3>1
    <2>2. PICK g \in [Nat -> V] : \A k \in Nat : g[k] = IF k = 0 THEN first ELSE S[g[k - 1]]
        <3> HIDE DEF S, V, first
        <3> QED BY <2>1, IteratesExist
    <2>3. \A k \in Nat : k # 0 => S[g[k - 1]] = turn(g[k - 1])
        <3> HIDE DEF V, turn
        <3> QED OBVIOUS
    <2> HIDE DEF S, V
    <2>4. g = [k \in Nat |-> IF k = 0 THEN first ELSE turn(g[k - 1])]
        <3> HIDE DEF turn, first
        <3> QED BY <2>2, <2>3
    <2>5. loop = [k \in Nat |-> IF k = 0 THEN first ELSE turn(loop[k - 1])]
        BY <2>4 DEF loop
    <2> HIDE DEF turn, first
    <2>6. ASSUME NEW k \in Nat PROVE loop[k + 1] = turn(loop[k])
        <3>1. k + 1 \in Nat /\ k + 1 # 0 /\ (k + 1) - 1 = k
            OBVIOUS
        <3> QED BY <2>5, <3>1
    <2>7. loop[0] = first
        BY <2>5
    <2> QED BY <2>6, <2>7 DEF turn, first
<1> DEFINE e == end(cap)
           E == {k \in 0..cap : k = cap \/ orbit[k] = 1}
<1>6. e \in E /\ \A k \in E : e <= k
    <2>1. E \in SUBSET Nat /\ cap \in E
        OBVIOUS
    <2>2. e = Min(E)
        OBVIOUS
    <2> HIDE DEF E, e
    <2> QED BY <2>1, <2>2, MinIsLeast
<1> HIDE DEF e
<1>7. e \in Nat /\ e <= cap /\ (e = cap \/ orbit[e] = 1) /\ \A j \in Nat : j < e => orbit[j] # 1
    <2>1. e \in Nat /\ e <= cap /\ (e = cap \/ orbit[e] = 1)
        BY <1>6
    <2>2. ASSUME NEW j \in Nat, j < e, orbit[j] = 1 PROVE FALSE
        <3>1. j \in E
            BY <2>1, <2>2
        <3> HIDE DEF E
        <3> QED BY <1>6, <2>1, <2>2, <3>1
    <2> QED BY <2>1, <2>2
<1>8. loop[e] = [n |-> orbit[e], length |-> e, top |-> Max({orbit[i] : i \in 0..e})]
    <2>1. \A k \in Nat : loop[k].n # 1 =>
               loop[k + 1] = [n |-> CollatzStep(loop[k].n), length |-> loop[k].length + 1,
                              top |-> Max({loop[k].top, CollatzStep(loop[k].n)})]
        BY <1>5
    <2>2. loop[0] = [n |-> orbit[0], length |-> 0, top |-> orbit[0]]
        BY <1>4, <1>5
    <2> QED BY <1>4, <1>7, <2>1, <2>2, LoopFollowsOrbit
<1>9. loop[e].n = orbit[e] /\ loop[e].length = e /\ loop[e].top = Max({orbit[i] : i \in 0..e})
    BY <1>8
<1>10. loop[cap] = loop[e]
    <2>1. CASE e = cap
        BY <2>1
    <2>2. CASE orbit[e] = 1
        <3>1. loop[e].n = 1
            BY <1>9, <2>2
        <3>2. \A k \in Nat : loop[k].n = 1 => loop[k + 1] = loop[k]
            BY <1>5
        <3> QED BY <1>7, <3>1, <3>2, LoopStays
    <2> QED BY <1>7, <2>1, <2>2
<1> QED BY <1>2, <1>9, <1>10 DEF e

\* _solver.py:18-72: for every n, goldbach_decomposition returns two primes
\* that make n wherever there are two, and raises only where there are none;
\* collatz_sequence stops at the first 1 or at its cap, whichever comes first,
\* with the steps taken and the highest number met.
THEOREM SearchesAlwaysExact == Spec => []SearchesAreExact
<1>1. Bounded => SearchesAreExact
    <2>1. Bounded => n \in Nat
        BY NMaxAssumption DEF Bounded
    <2> QED BY <2>1, GoldbachFinds, CollatzFinds DEF SearchesAreExact
<1> QED BY <1>1, AlwaysBounded, PTL
=============================================================================
