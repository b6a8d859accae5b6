----------------------------- MODULE MCRoutines -----------------------------
(***************************************************************************)
(* Walks n through 0..NMax and compares each routine of Factoring, Solver, *)
(* Wire and Crypto with its reference definition at every n.               *)
(***************************************************************************)
EXTENDS Factoring, Solver, Wire, Crypto

CONSTANT NMax     \* bound: the largest number tried

\* The numbers that go into a payload fit behind the field for their length.
ASSUME NMaxAssumption ==
    /\ NMax \in Nat
    /\ Magnitude(NMax * NMax) < Power[WORD] /\ Magnitude(-NMax) < Power[WORD]

VARIABLE n

Init == n = 0
Next == n < NMax /\ n' = n + 1
Spec == Init /\ [][Next]_n

\* No divisor of f but f itself is in reach of the wheel.
Rough(f) == \A d \in Divisors(f) : d = f \/ d >= WHEEL_LIMIT

\* factorization.py:133-180: full_factorization returns the ascending prime
\* factorization of n, and of a multiple of n that makes the wheel go round,
\* and every factor of it passes the test an agent applies to a VERIFY.  Only
\* a factor that is out of the wheel's reach may be composite.
FullIsPrimeFactorization ==
    \A m \in {n, 41 * n} : m >= 2 =>
        /\ FullFactorization(m) # {}
        /\ \A s \in FullFactorization(m) :
               /\ Product[s] = m /\ Ascending(s) /\ VerifyFactors(m, ToSet(s))
               /\ \A f \in ToSet(s) : Rough(f) /\ (m < WHEEL_LIMIT * WHEEL_LIMIT => Prime(f))

\* The trial-division subtasks together report exactly the divisors up to
\* the square root: no candidate falls between two chunks, none is outside.
ChunksCoverRoot ==
    UNION {TrialDivision(n, c.start, c.end) : c \in ToSet(TrialChunks(n))}
        = {d \in Divisors(n) : d * d <= n}

\* agent.py:680-713: whatever set of divisors has been reported, and in
\* particular when it is incomplete or holds composites, the assembled answer
\* multiplies to n; and it is a prime factorization as soon as the set holds,
\* with every composite, the prime divisors of that composite: the exact
\* condition under which dividing in ascending order is enough.
BuildFactorsN ==
    \A S \in SUBSET Divisors(n) : n >= 2 =>
        /\ BuildComplete(n, S) # {}
        /\ \A s \in BuildComplete(n, S) :
               /\ Product[s] = n /\ Ascending(s)
               /\ (/\ \A f \in S : \A p \in Divisors(f) : Prime(p) => p \in S
                   /\ n < WHEEL_LIMIT * WHEEL_LIMIT)
                      => \A f \in ToSet(s) : Prime(f)

\* Two routines trust mathematics further than their loops go.  The twelve
\* fixed witnesses of primality_test are enough: it tells primes from
\* composites, strong pseudoprimes to single bases (2047) included; and the
\* witnesses drawn beyond its limit never speak against a prime, while at
\* most one in four lets a composite pass ("64 random witnesses gives a false
\* positive probability of < 2^-128").  And find_perfect_numbers lists each
\* perfect number of the range once and in order, ends included, whether it
\* searches the range or not.
CriteriaAreExact ==
    /\ \A m \in (14 * n)..(14 * n + 13) :
           LET verdicts == {r[1] : r \in PrimalityTest(m)}
           IN  IF m < DETERMINISTIC_LIMIT \/ m % 2 = 0 THEN verdicts = {Prime(m)}
               ELSE IF Prime(m) THEN verdicts = {TRUE}
               ELSE /\ FALSE \in verdicts
                    /\ 4 * Cardinality({a \in 2..(m - 2) : MillerRabinWitness(m, a)}) <= m - 3
    /\ \A width \in {0, 8, 30} :
           LET lo == 4 * n
               hi == lo + width
               perfect(m) == m > 1 /\ m = SumSet({d \in 1..(m - 1) : m % d = 0})
               found == FindPerfectNumbers(lo, hi)
           IN  /\ ToSet(found) = {m \in lo..hi : perfect(m)}
               /\ \A i \in 1..(Len(found) - 1) : found[i] < found[i + 1]

\* goldbach_decomposition raises only where there is no pair of primes: the
\* range ends late enough for n = 2p, and 4 = 2 + 2 is not forgotten.
GoldbachIsExact ==
    LET split == GoldbachDecomposition(n)
    IN  IF n % 2 = 0 /\ \E p \in 2..n : Prime(p) /\ Prime(n - p)
        THEN split # Raises /\ Prime(split[1]) /\ Prime(split[2]) /\ split[1] + split[2] = n
        ELSE split = Raises

\* collatz_sequence stops at the first 1, or at the cap when that comes first.
CollatzIsExact ==
    \A cap \in {0, n % 20, 25} :
        LET orbit[k \in Nat] == IF k = 0 THEN n ELSE CollatzStep(orbit[k - 1])
            end == Min({k \in 0..cap : k = cap \/ orbit[k] = 1})
        IN  n >= 1 => CollatzSequence(n, cap) =
                          <<end, Max({orbit[k] : k \in 0..end}), orbit[end] = 1>>

\* The searches behind the categories goldbach and collatz find what there is
\* to find, and say so when there is nothing.
SearchesAreExact == GoldbachIsExact /\ CollatzIsExact

-----------------------------------------------------------------------------
(* Wire: payloads and datagrams whose numbers n decides.                   *)

Texts == {<<>>, <<1>>, <<Wide, 0>>}
Name(k) == Digits(k, ID)
Pairs(S) == {<<>>} \cup {<<a>> : a \in S} \cup {<<a, b>> : a, b \in S}

\* The items of a dict: no name comes twice.
Parameters == {s \in Pairs({<<<<1>>, n>>, <<<<Wide>>, 0 - n>>}) : IsInjective(s)}

\* A payload of each kind, with empty lists, empty and wide texts, the
\* numbers around n and, in an ASSIGN, a negative one.
Payloads ==
    [type : {"HELLO"}, capabilities : Pairs(Texts),
     key : {<<n % Power[COORD], (7 * n) % Power[COORD]>>}, port : {n % Power[HALF]}]
  \cup
    [type : {"PEERS"}, peers : Pairs({[id |-> Name(n), addr |-> <<t, n % Power[HALF]>>] : t \in Texts})]
  \cup
    [type : {"ASSIGN"}, task : {Name(n)}, algorithm : Texts,
     params : Parameters]
  \cup
    [type : {"RESULT"}, task : {Name(n)}, status : Texts, factors : Pairs({n, Power[2] - 1, 0})]
  \cup
    [type : {"VERIFY"}, task : {Name(n)}, n : {n * n}, factors : Pairs({n, Power[2]})]

\* What becomes of a number: a negative one is off by the power of BYTE that
\* its two's complement was taken in.
ReadBack(v) ==
    IF v >= 0 THEN v
    ELSE v + Power[CHOOSE k \in 1..(1 - v) :
                       -2 * v < Power[k] /\ \A j \in 1..(k - 1) : -2 * v >= Power[j]]

Received(p) ==
    IF p.type = "ASSIGN"
    THEN [p EXCEPT !.params = [i \in DOMAIN @ |-> <<@[i][1], ReadBack(@[i][2])>>]]
    ELSE p

\* protocol.py:222-358: each payload is parsed into what it was built from,
\* also when bytes follow it, and refused when any of its bytes are missing
\* at the end, wherever the cut falls.  A negative number is the exception:
\* it arrives as the unsigned reading of its two's complement.
PayloadsSurvive ==
    \A p \in Payloads :
        LET data == Build(p)
        IN  /\ Parse(p.type, data) = Done(Received(p), Len(data))
            /\ Parse(p.type, Append(data, n % BYTE)) = Done(Received(p), Len(data))
            /\ \A cut \in 0..(Len(data) - 1) :
                   Parse(p.type, SubSeq(data, 1, cut)) = Refused

Datagram ==
    Serialize([version |-> PROTOCOL_VERSION, type |-> n % BYTE, sender |-> Name(3 * n),
               timestamp |-> n % Power[QUAD], nonce |-> (5 * n) % Power[QUAD],
               payload |-> Digits(n, n % (MAX_PAYLOAD_SIZE + 1)),
               signature |-> <<(3 * n) % Power[COORD], (11 * n) % Power[COORD]>>])

\* Datagrams that may come in: a legal one, with a byte changed on the way,
\* cut short, or with bytes behind it.
Arriving ==
    {[Datagram EXCEPT ![i] = b] : i \in DOMAIN Datagram, b \in 0..(BYTE - 1)}
        \cup {SubSeq(Datagram, 1, cut) : cut \in 0..(Len(Datagram) - 1)}
        \cup {Append(Datagram, b) : b \in 0..(BYTE - 1)}

\* protocol.py:71-124: the receiver checks a signature over bytes it packs
\* anew from the fields it parsed.  They are the very bytes that came in,
\* for every datagram it accepts; so no change to a signed byte passes
\* unseen, and a legal datagram keeps its signature.
SignedBytesSurvive ==
    /\ Deserialize(Datagram).at = Len(Datagram)
    /\ \A data \in Arriving :
           LET m == Deserialize(data)
           IN  m.at >= 0 => Serialize(m.value) = SubSeq(data, 1, m.at)

-----------------------------------------------------------------------------
(* Crypto: n is a hash, and decides the key and the points.                *)

\* G added to itself k times, one by one.
Multiple[k \in Nat] == IF k = 0 THEN INFINITY ELSE PointAdd(Multiple[k - 1], G)

\* crypto.py:22-174: double-and-add is repeated addition, and the points of
\* the curve add like numbers modulo N, opposite and equal points included.
\* Whatever nonce sign() draws, what it returns is accepted and has a low s;
\* and verify() accepts just the pairs that some nonce stands behind: with r
\* the x of k*G modulo N, and s*k = z + r*d.
SignaturesAreExact ==
    LET d == 1 + (n % (N - 1))
        i == n % N
        key == PublicKey(d)
        stands(sig) ==
            \E k \in PrivateKeys :
                /\ sig[1] = Multiple[k][1] % N
                /\ (sig[2] * k) % N = (n + sig[1] * d) % N
    IN  /\ PointMul(i, G) = Multiple[i] /\ PointMul(N, key) = INFINITY
        /\ \A j \in 0..(N - 1) : PointAdd(Multiple[i], Multiple[j]) = Multiple[(i + j) % N]
        /\ Signatures(d, n) # {}
        /\ \A sig \in Signatures(d, n) : Verify(key, n, sig) /\ sig[2] <= N \div 2
        /\ \A sig \in ((0..N) \X {0, 1 + ((7 * n) % (N - 1)), N}) :
               Verify(key, n, sig) <=> /\ sig[1] \in PrivateKeys /\ sig[2] \in PrivateKeys
                                       /\ stands(sig)
=============================================================================
