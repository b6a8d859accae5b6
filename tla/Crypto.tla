------------------------------- MODULE Crypto -------------------------------
(***************************************************************************)
(* ECDSA as gradatim/crypto.py writes it, over any curve                   *)
(* y^2 = x^3 + B of prime order N.  The hash of a message is a number z,   *)
(* which need not be below N; the random nonce of sign() is any k.         *)
(***************************************************************************)
EXTENDS Integers, Sequences, Folds

CONSTANTS
    P,          \* the field's prime
    B,          \* the curve's constant: 7 in the code
    N,          \* the order of G
    Gx, Gy      \* the base point

ASSUME CryptoAssumption ==
    /\ P \in Nat /\ N \in Nat /\ N > 2 /\ Gx \in 0..(P - 1) /\ Gy \in 0..(P - 1)
    /\ (Gy * Gy) % P = (Gx * Gx * Gx + B) % P

G        == <<Gx, Gy>>
INFINITY == <<>>

-----------------------------------------------------------------------------
\* The gcd of a and b, and their Bezout coefficients.
ExtendedGcd[a \in Nat, b \in Nat] ==
    IF a = 0 THEN <<b, 0, 1>>
    ELSE LET r == ExtendedGcd[b % a, a]
         IN  <<r[1], r[3] - (b \div a) * r[2], r[2]>>

\* Only a negative number is reduced first; the others need not be below m.
ModInv(a, m) == ExtendedGcd[IF a < 0 THEN a % m ELSE a, m][2] % m

PointAdd(p, q) ==
    IF p = INFINITY THEN q
    ELSE IF q = INFINITY THEN p
    ELSE IF p[1] = q[1] /\ (p[2] # q[2] \/ p[2] = 0) THEN INFINITY
    ELSE LET slope == IF p = q
                      THEN (3 * p[1] * p[1] * ModInv(2 * p[2], P)) % P
                      ELSE ((q[2] - p[2]) * ModInv(q[1] - p[1], P)) % P
             x == (slope * slope - p[1] - q[1]) % P
         IN  <<x, (slope * (p[1] - x) - p[2]) % P>>

\* Double and add, from the lowest bit of k.
DoubleAndAdd[k \in Nat, addend \in Seq(Nat), result \in Seq(Nat)] ==
    IF k = 0 THEN result
    ELSE DoubleAndAdd[k \div 2, PointAdd(addend, addend),
                      IF k % 2 = 1 THEN PointAdd(result, addend) ELSE result]
PointMul(k, p) == DoubleAndAdd[k, p, INFINITY]

PrivateKeys  == 1..(N - 1)
PublicKey(d) == PointMul(d, G)

\* Mutant of LowS: the bound is one too high.
LowSOffByOne(s) == IF s > N \div 2 + 1 THEN N - s ELSE s

LowS(s) == IF s > N \div 2 THEN N - s ELSE s

\* The signatures that sign() may return: a nonce that makes r or s zero is
\* thrown away for another one.
Signatures(d, z) ==
    LET r(k) == PointMul(k, G)[1] % N
        s(k) == (ModInv(k, N) * (z + r(k) * d)) % N
    IN  {<<r(k), LowS(s(k))>> : k \in {j \in PrivateKeys : r(j) # 0 /\ s(j) # 0}}

Verify(key, z, sig) ==
    /\ sig[1] \in PrivateKeys /\ sig[2] \in PrivateKeys
    /\ LET w == ModInv(sig[2], N)
           p == PointAdd(PointMul((z * w) % N, G), PointMul((sig[1] * w) % N, key))
       IN  p # INFINITY /\ p[1] % N = sig[1]
=============================================================================
