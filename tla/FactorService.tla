---------------------------- MODULE FactorService ----------------------------
(***************************************************************************)
(* What initiate_factorization promises, without workers or messages: the  *)
(* call is answered once, with numbers greater than one that multiply to   *)
(* N, in ascending order.                                                  *)
(***************************************************************************)
EXTENDS Numbers

CONSTANT N

VARIABLES
    answered,  \* the answer has been chosen
    answer     \* the factors

vars == <<answered, answer>>

\* The lists that begin with a divisor of n and go on with one for its cofactor.
LedByDivisor(n, lists) == UNION {{<<d>> \o t : t \in lists[n \div d]} : d \in Divisors(n)}

\* The ascending lists of numbers greater than one whose product is n.
Factorizations[n \in Nat \ {0}] ==
    IF n = 1 THEN {<<>>} ELSE {s \in LedByDivisor(n, Factorizations) : Ascending(s)}

Init == answered = FALSE /\ answer = <<>>

Answer == ~answered /\ answered' = TRUE /\ answer' \in Factorizations[N]

Next == Answer

Spec == Init /\ [][Next]_vars /\ WF_vars(Next)
=============================================================================
