------------------------------- MODULE Numbers -------------------------------
(***************************************************************************)
(* The notions of arithmetic that the specifications of this directory are *)
(* stated in.  The program computes none of them this way.                 *)
(***************************************************************************)
EXTENDS Integers, Sequences

\* The divisors of n greater than one.
Divisors(n) == {f \in 2..n : n % f = 0}

Prime(p) == p > 1 /\ \A d \in 2..(p - 1) : p % d # 0

Product[s \in Seq(Nat)] == IF s = <<>> THEN 1 ELSE Head(s) * Product[Tail(s)]

Ascending(s) == \A i, j \in DOMAIN s : i <= j => s[i] <= s[j]
=============================================================================
