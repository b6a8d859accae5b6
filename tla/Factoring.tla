------------------------------ MODULE Factoring ------------------------------
(***************************************************************************)
(* The arithmetic the mesh is built from, as pure operators: the routines  *)
(* of gradatim/factorization.py and the decomposition and aggregation      *)
(* helpers of gradatim/agent.py.                                           *)
(*                                                                         *)
(* A list of divisors whose order no caller uses is a set here (the        *)
(* results of trial_division and pollard_rho); an answer, which repeats    *)
(* factors and is sorted, is a sequence.                                   *)
(***************************************************************************)
EXTENDS Numbers, FiniteSets, SequencesExt

CONSTANTS
    CHUNK_MIN,   \* smallest trial-division chunk: 1000 in the code
    RHO_MIN,     \* fewest Pollard attempts per task: 3 in the code
    RHO_MAX,     \* most Pollard attempts per task: 10 in the code
    WHEEL_LIMIT  \* candidates of the wheel stay below it: 100000 in the code

ASSUME FactoringAssumption ==
    /\ CHUNK_MIN \in Nat \ {0}
    /\ RHO_MIN \in Nat /\ RHO_MAX \in Nat
    /\ WHEEL_LIMIT \in Nat

-----------------------------------------------------------------------------
Smaller(a, b) == IF a < b THEN a ELSE b
Larger(a, b)  == IF a < b THEN b ELSE a

\* math.isqrt: how many positive numbers have a square of at most n.
ISqrt(n) == Cardinality({r \in 1..n : r * r <= n})

\* The divisors of n in [start, end), start raised to 2 and end cut just
\* above the square root.
TrialDivision(n, start, end) ==
    IF n < 2 THEN {}
    ELSE {c \in Larger(start, 2)..(Smaller(end, ISqrt(n) + 2) - 1) : n % c = 0}

\* What one call of pollard_rho may report, as the list its caller makes of
\* it: small factors first, else some proper divisor, or nothing when the
\* twenty attempts fail.  A number with no proper divisor yields nothing.
PollardRho(n) ==
    IF n <= 1 THEN {{}}
    ELSE IF n % 2 = 0 THEN {{2}}
    ELSE IF n % 3 = 0 THEN {{3}}
    ELSE {{}} \cup {{d} : d \in Divisors(n) \ {n}}

VerifyFactors(n, factors) == \A f \in factors : f >= 2 /\ n % f = 0

-----------------------------------------------------------------------------
(* factors.sort(), and the loops that divide a number: each takes the      *)
(* factors found so far and what is left to factor.                        *)

\* x put in its place in the ascending list t.
Insert(x, t) ==
    LET into[s \in Seq(Nat)] ==
            IF s = <<>> THEN <<x>>
            ELSE IF x <= Head(s) THEN <<x>> \o s
            ELSE <<Head(s)>> \o into[Tail(s)]
    IN  into[t]

Sorted[s \in Seq(Nat)] == IF s = <<>> THEN <<>> ELSE Insert(Head(s), Sorted[Tail(s)])

Whole(n) == [factors |-> <<>>, rest |-> n]

\* Divide by c as often as it goes.
DivideOut(left, c) ==
    LET copies[m \in Nat \ {0}] ==
            IF m % c = 0
            THEN [factors |-> <<c>> \o copies[m \div c].factors, rest |-> copies[m \div c].rest]
            ELSE Whole(m)
    IN  [factors |-> left.factors \o copies[left.rest].factors, rest |-> copies[left.rest].rest]

\* Divide by the numbers of S in ascending order.
DivideByAll(left, S) ==
    LET through[T \in SUBSET S] ==
            IF T = {} THEN left
            ELSE LET last == CHOOSE c \in T : \A e \in T : e <= c
                 IN  DivideOut(through[T \ {last}], last)
    IN  through[S]

-----------------------------------------------------------------------------
(* full_factorization: 2, 3 and 5, then the candidates of the wheel, then  *)
(* Pollard's rho.                                                          *)

WheelIncrements == <<4, 2, 4, 2, 4, 6, 2, 6>>

WheelStops(wheel) ==
    wheel.candidate * wheel.candidate > wheel.left.rest \/ wheel.candidate >= WHEEL_LIMIT

\* What the wheel leaves, from 7 up to the root of what is left or the limit.
Wheel(left) ==
    LET turn[k \in Nat] ==
            IF k = 0 THEN [candidate |-> 7, left |-> left]
            ELSE IF WheelStops(turn[k - 1]) THEN turn[k - 1]
            ELSE [candidate |-> turn[k - 1].candidate + WheelIncrements[((k - 1) % 8) + 1],
                  left |-> DivideOut(turn[k - 1].left, turn[k - 1].candidate)]
    IN  turn[CHOOSE k \in 0..WHEEL_LIMIT : WheelStops(turn[k])].left

\* A list of A, then a list of B.
Joined(A, B) == UNION {{a \o b : b \in B} : a \in A}

\* The lists there are for m when it is split into a divisor and its cofactor,
\* which comes off the stack first; lists holds those of smaller numbers.
SplitInTwo(m, lists) ==
    UNION {Joined(lists[m \div d], lists[d]) : d \in Divisors(m) \ {m}}

\* The lists the stack of Pollard's rho can be worked off to.  A prime is
\* appended; so is a number that passes for one, or that no attempt splits.
PollardSplits[m \in Nat \ {0}] ==
    IF m = 1 THEN {<<>>} ELSE {<<m>>} \cup SplitInTwo(m, PollardSplits)

\* Mutant of FullFactorization: 5 is not divided out before the wheel.
FullFactorizationSkippingFive(n) ==
    IF n < 2 THEN {<<>>}
    ELSE LET left == Wheel(DivideByAll(Whole(n), {2, 3}))
         IN  {Sorted[left.factors \o a] : a \in PollardSplits[left.rest]}

\* What full_factorization(n) may return.
FullFactorization(n) ==
    IF n < 2 THEN {<<>>}
    ELSE LET left == Wheel(DivideByAll(Whole(n), {2, 3, 5}))
         IN  {Sorted[left.factors \o a] : a \in PollardSplits[left.rest]}

-----------------------------------------------------------------------------
(* agent.py: decomposition and the construction of an answer.              *)

ChunkSize(n) == Larger(CHUNK_MIN, ISqrt(n) \div 10)

\* Mutant of TrialChunks: the last chunk stops below the square root.
TrialChunksShort(n) ==
    LET count == (ISqrt(n) + ChunkSize(n) - 2) \div ChunkSize(n)
        from(k) == 2 + (k - 1) * ChunkSize(n)
    IN  [k \in 1..Larger(count, 0) |->
            [algorithm |-> "trial_division", start |-> from(k),
             end |-> Smaller(from(k) + ChunkSize(n), ISqrt(n))]]

TrialChunks(n) ==
    LET count == (ISqrt(n) + ChunkSize(n) - 2) \div ChunkSize(n)
        from(k) == 2 + (k - 1) * ChunkSize(n)
    IN  [k \in 1..Larger(count, 0) |->
            [algorithm |-> "trial_division", start |-> from(k),
             end |-> Smaller(from(k) + ChunkSize(n), ISqrt(n) + 1)]]

RhoAttempts(peerCount) == Larger(RHO_MIN, Smaller(RHO_MAX, peerCount + 1))

Decompose(n, peerCount) ==
    TrialChunks(n) \o [k \in 1..RhoAttempts(peerCount) |->
                          [algorithm |-> "pollard_rho", start |-> 0, end |-> 0]]

\* What executing a subtask may report.  A routine that raises reports [].
RunAlgorithm(n, subtask) ==
    {{}} \cup IF subtask.algorithm = "trial_division"
              THEN {TrialDivision(n, subtask.start, subtask.end)}
              ELSE PollardRho(n)

\* Mutant of BuildComplete: what is left is not factored.
BuildWithoutRest(n, discovered) == {Sorted[DivideByAll(Whole(n), discovered).factors]}

\* Divide n by the discovered factors in ascending order, factor the rest
\* locally, and sort.
BuildComplete(n, discovered) ==
    LET left == DivideByAll(Whole(n), discovered)
    IN  {Sorted[left.factors \o a] : a \in FullFactorization(left.rest)}
=============================================================================
