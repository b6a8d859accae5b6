--------------------------- MODULE FactoringProofs ---------------------------
(***************************************************************************)
(* What the routines of factorization.py and the answer-building of        *)
(* agent.py compute, for every number: a list whose product is the number. *)
(***************************************************************************)
EXTENDS Factoring, FiniteSetTheorems, SequenceTheorems, WellFoundedInduction, TLAPS

-----------------------------------------------------------------------------
(* Recursion: a definition f[x \in D] == e(x, f) has the equation it was   *)
(* written with when e(x, f) depends on f below x only.                    *)

Below == {ss \in Nat \X Nat : ss[1] < ss[2]}

LEMMA LeastIsThere ==
    ASSUME NEW T \in SUBSET Nat, T # {}
    PROVE  \E x \in T : \A y \in T : x <= y
<1>1. IsWellFoundedOn(Below, Nat)
    BY NatLessThanWellFounded DEF OpToRel, Below
<1>2. PICK x \in T : \A y \in T : <<y, x>> \notin Below
    BY <1>1, WFMin
<1>3. ASSUME NEW y \in T PROVE x <= y
    <2>1. x \in Nat /\ y \in Nat
        OBVIOUS
    <2>2. ~(y < x)
        BY <1>2, <2>1 DEF Below
    <2> QED BY <2>1, <2>2
<1> QED BY <1>3

\* A set that holds x whenever it holds all of D of smaller measure is all of D.
LEMMA MeasureInduction ==
    ASSUME NEW D, NEW m \in [D -> Nat], NEW T,
           \A x \in D : (\A y \in D : m[y] < m[x] => y \in T) => x \in T
    PROVE  D \subseteq T
<1> SUFFICES ASSUME NEW z \in D, z \notin T PROVE FALSE
    OBVIOUS
<1> DEFINE bad == {m[y] : y \in D \ T}
<1>1. bad \in SUBSET Nat /\ bad # {}
    OBVIOUS
<1>2. PICK k \in bad : \A j \in bad : k <= j
    BY <1>1, LeastIsThere
<1>3. PICK x \in D \ T : m[x] = k
    BY <1>2
<1>4. ASSUME NEW y \in D, m[y] < m[x] PROVE y \in T
    <2>1. CASE y \notin T
        <3>1. m[y] \in bad /\ m[y] \in Nat /\ m[x] \in Nat
            BY <2>1
        <3>2. m[x] <= m[y]
            BY <1>2, <1>3, <3>1
        <3> QED BY <1>4, <3>1, <3>2
    <2> QED BY <2>1
<1> QED BY <1>3, <1>4

\* The value of F[g] at x depends on g below x only.
Recursive(F, D, V, m) ==
    /\ V # {} /\ m \in [D -> Nat]
    /\ F \in [[D -> V] -> [D -> V]]
    /\ \A g, h \in [D -> V] : \A x \in D :
           (\A y \in D : m[y] < m[x] => g[y] = h[y]) => F[g][x] = F[h][x]

\* g is a fixed point of F up to measure k.
FixedBelow(k, g, F, D, V, m) ==
    g \in [D -> V] /\ \A x \in D : m[x] < k => g[x] = F[g][x]

LEMMA FixedPointsAgree ==
    ASSUME NEW F, NEW D, NEW V, NEW m, Recursive(F, D, V, m), NEW j \in Nat, NEW k \in Nat,
           NEW g, FixedBelow(j, g, F, D, V, m), NEW h, FixedBelow(k, h, F, D, V, m)
    PROVE  \A x \in D : m[x] < j /\ m[x] < k => g[x] = h[x]
<1> DEFINE T == {x \in D : m[x] < j /\ m[x] < k => g[x] = h[x]}
<1>1. m \in [D -> Nat]
    BY DEF Recursive
<1>2. ASSUME NEW x \in D, \A y \in D : m[y] < m[x] => y \in T PROVE x \in T
    <2> SUFFICES ASSUME m[x] < j, m[x] < k PROVE g[x] = h[x]
        OBVIOUS
    <2>1. \A y \in D : m[y] < m[x] => g[y] = h[y]
        <3> SUFFICES ASSUME NEW y \in D, m[y] < m[x] PROVE g[y] = h[y]
            OBVIOUS
        <3>1. m[y] \in Nat /\ m[x] \in Nat
            BY <1>1
        <3>2. m[y] < j /\ m[y] < k
            BY <3>1
        <3> QED BY <1>2, <3>2
    <2> QED BY <2>1 DEF Recursive, FixedBelow
<1> HIDE DEF T
<1>3. D \subseteq T
    BY <1>1, <1>2, MeasureInduction
<1> QED BY <1>3 DEF T

LEMMA FixedPointBelow ==
    ASSUME NEW F, NEW D, NEW V, NEW m, Recursive(F, D, V, m), NEW k \in Nat
    PROVE  \E g : FixedBelow(k, g, F, D, V, m)
<1> DEFINE T == {i \in Nat : ~\E g : FixedBelow(i, g, F, D, V, m)}
<1> SUFFICES ASSUME k \in T PROVE FALSE
    OBVIOUS
<1>1. PICK i \in T : \A j \in T : i <= j
    BY LeastIsThere
<1>2. CASE i = 0
    <2>1. PICK v : v \in V
        BY DEF Recursive
    <2>2. FixedBelow(0, [x \in D |-> v], F, D, V, m)
        BY <2>1 DEF FixedBelow, Recursive
    <2> QED BY <1>1, <1>2, <2>2
<1>3. CASE i # 0
    <2>1. i \in Nat /\ i - 1 \in Nat
        BY <1>3
    <2>2. i - 1 \notin T
        BY <1>1, <2>1
    <2>3. PICK g : FixedBelow(i - 1, g, F, D, V, m)
        BY <2>1, <2>2
    <2>4. g \in [D -> V] /\ F[g] \in [D -> V] /\ m \in [D -> Nat]
        BY <2>3 DEF FixedBelow, Recursive
    <2>5. ASSUME NEW x \in D, m[x] < i PROVE F[g][x] = F[F[g]][x]
        <3>1. ASSUME NEW y \in D, m[y] < m[x] PROVE g[y] = F[g][y]
            <4>1. m[y] \in Nat /\ m[x] \in Nat
                BY <2>4
            <4>2. m[y] < i - 1
                BY <2>1, <2>5, <3>1, <4>1
            <4> QED BY <2>3, <4>2 DEF FixedBelow
        <3> QED BY <2>4, <3>1 DEF Recursive
    <2>6. FixedBelow(i, F[g], F, D, V, m)
        BY <2>4, <2>5 DEF FixedBelow
    <2> QED BY <1>1, <2>6
<1> QED BY <1>2, <1>3

LEMMA RecursionExists ==
    ASSUME NEW F, NEW D, NEW V, NEW m, Recursive(F, D, V, m)
    PROVE  \E g \in [D -> V] : g = F[g]
<1> DEFINE sol(k) == CHOOSE g : FixedBelow(k, g, F, D, V, m)
           G == [x \in D |-> sol(m[x] + 1)[x]]
<1>1. ASSUME NEW k \in Nat PROVE FixedBelow(k, sol(k), F, D, V, m)
    BY FixedPointBelow
<1> HIDE DEF sol
<1>2. ASSUME NEW x \in D
      PROVE  m[x] \in Nat /\ FixedBelow(m[x] + 1, sol(m[x] + 1), F, D, V, m)
    <2>1. m[x] \in Nat
        BY DEF Recursive
    <2> QED BY <1>1, <2>1
<1>3. G \in [D -> V]
    BY <1>2 DEF FixedBelow
<1>4. ASSUME NEW x \in D PROVE G[x] = F[G][x]
    <2> DEFINE g == sol(m[x] + 1)
    <2>1. FixedBelow(m[x] + 1, g, F, D, V, m) /\ m[x] \in Nat
        BY <1>2
    <2>2. ASSUME NEW y \in D, m[y] < m[x] PROVE G[y] = g[y]
        <3>1. m[y] \in Nat /\ FixedBelow(m[y] + 1, sol(m[y] + 1), F, D, V, m)
            BY <1>2
        <3>2. m[y] + 1 \in Nat /\ m[x] + 1 \in Nat /\ m[y] < m[y] + 1 /\ m[y] < m[x] + 1
            BY <2>1, <2>2, <3>1
        <3> HIDE DEF g
        <3>3. sol(m[y] + 1)[y] = g[y]
            BY <2>1, <3>1, <3>2, FixedPointsAgree
        <3> QED BY <3>3
    <2>3. G[x] = g[x]
        OBVIOUS
    <2> HIDE DEF G, g
    <2>4. F[G][x] = F[g][x]
        BY <1>3, <2>1, <2>2 DEF Recursive, FixedBelow
    <2>5. g[x] = F[g][x]
        BY <2>1 DEF FixedBelow
    <2> QED BY <2>3, <2>4, <2>5
<1>5. F[G] \in [D -> V]
    BY <1>3 DEF Recursive
<1> QED BY <1>3, <1>4, <1>5

-----------------------------------------------------------------------------
(* Lists.                                                                  *)

LEMMA ConsProperties ==
    ASSUME NEW S, NEW x \in S, NEW s \in Seq(S)
    PROVE  /\ <<x>> \o s \in Seq(S) /\ <<x>> \o s # <<>>
           /\ Head(<<x>> \o s) = x /\ Tail(<<x>> \o s) = s
           /\ Len(<<x>> \o s) = Len(s) + 1
           /\ \A i \in 1..(Len(s) + 1) : (<<x>> \o s)[i] = IF i = 1 THEN x ELSE s[i - 1]
<1>1. /\ <<x>> \o s \in Seq(S) /\ <<x>> \o s # <<>>
      /\ Head(<<x>> \o s) = x
      /\ Len(<<x>> \o s) = Len(s) + 1
      /\ \A i \in 1..(Len(s) + 1) : (<<x>> \o s)[i] = IF i = 1 THEN x ELSE s[i - 1]
    OBVIOUS
<1>2. Tail(<<x>> \o s) = s
    <2> DEFINE t == Tail(<<x>> \o s)
    <2>1. t \in Seq(S) /\ Len(t) = Len(s) /\ \A i \in 1..Len(s) : t[i] = s[i]
        BY <1>1
    <2> HIDE DEF t
    <2>2. t = s
        BY <2>1, SeqEqual
    <2> QED BY <2>2 DEF t
<1> QED BY <1>1, <1>2

LEMMA ConsOfHeadTail ==
    ASSUME NEW S, NEW s \in Seq(S), s # <<>>
    PROVE  /\ Head(s) \in S /\ Tail(s) \in Seq(S) /\ Len(Tail(s)) = Len(s) - 1
           /\ s = <<Head(s)>> \o Tail(s)
<1>1. Head(s) \in S /\ Tail(s) \in Seq(S) /\ Len(Tail(s)) = Len(s) - 1
    OBVIOUS
<1> DEFINE t == <<Head(s)>> \o Tail(s)
<1>2. t \in Seq(S) /\ Len(t) = Len(s)
    BY <1>1
<1>3. \A i \in 1..Len(s) : t[i] = s[i]
    BY <1>1
<1> HIDE DEF t
<1>4. s = t
    BY <1>2, <1>3, SeqEqual
<1> QED BY <1>1, <1>4 DEF t

LEMMA LengthMeasure ==
    ASSUME NEW S
    PROVE  /\ [s \in Seq(S) |-> Len(s)] \in [Seq(S) -> Nat]
           /\ \A s \in Seq(S) : s # <<>> =>
                  /\ Head(s) \in S /\ Tail(s) \in Seq(S)
                  /\ [t \in Seq(S) |-> Len(t)][Tail(s)] < [t \in Seq(S) |-> Len(t)][s]
OBVIOUS

\* What holds of the empty list, and of a list when it holds of its tail,
\* holds of every list.
LEMMA ListInduction ==
    ASSUME NEW S, NEW T, <<>> \in T,
           \A s \in Seq(S) : s # <<>> /\ Tail(s) \in T => s \in T
    PROVE  Seq(S) \subseteq T
<1> DEFINE m == [s \in Seq(S) |-> Len(s)]
<1>1. /\ m \in [Seq(S) -> Nat]
      /\ \A s \in Seq(S) : s # <<>> => Tail(s) \in Seq(S) /\ m[Tail(s)] < m[s]
    BY LengthMeasure
<1> HIDE DEF m
<1> DEFINE D == Seq(S)
<1>2. \A s \in D : (\A t \in D : m[t] < m[s] => t \in T) => s \in T
    <2> SUFFICES ASSUME NEW s \in D, \A t \in D : m[t] < m[s] => t \in T PROVE s \in T
        OBVIOUS
    <2>1. s # <<>> => Tail(s) \in T
        BY <1>1
    <2> QED BY <2>1
<1>3. m \in [D -> Nat]
    BY <1>1
<1> HIDE DEF D
<1>4. D \subseteq T
    BY <1>2, <1>3, MeasureInduction
<1> QED BY <1>4 DEF D

\* The numbers an answer is made of.
Factors == Nat \ {0, 1}

LEMMA ProductStep ==
    \A s \in Seq(Nat) : Product[s] = IF s = <<>> THEN 1 ELSE Head(s) * Product[Tail(s)]
<1> DEFINE D == Seq(Nat)
           m == [s \in Seq(Nat) |-> Len(s)]
           F == [g \in [D -> Nat] |-> [s \in D |-> IF s = <<>> THEN 1 ELSE Head(s) * g[Tail(s)]]]
<1>1. /\ m \in [D -> Nat]
      /\ \A s \in D : s # <<>> => Head(s) \in Nat /\ Tail(s) \in D /\ m[Tail(s)] < m[s]
    BY LengthMeasure
<1> HIDE DEF m
<1>2. ASSUME NEW g \in [D -> Nat], NEW s \in D, s # <<>>
      PROVE  Head(s) * g[Tail(s)] \in Nat
    <2>1. Head(s) \in Nat /\ g[Tail(s)] \in Nat
        BY <1>1, <1>2
    <2> QED BY <2>1
<1>3. F \in [[D -> Nat] -> [D -> Nat]]
    BY <1>2
<1>4. Recursive(F, D, Nat, m)
    BY <1>1, <1>3 DEF Recursive
<1>5. PICK g \in [D -> Nat] : g = F[g]
    BY <1>4, RecursionExists
<1>6. g = [s \in Seq(Nat) |-> IF s = <<>> THEN 1 ELSE Head(s) * g[Tail(s)]]
    BY <1>5
<1>7. Product = [s \in Seq(Nat) |-> IF s = <<>> THEN 1 ELSE Head(s) * Product[Tail(s)]]
    BY <1>6 DEF Product
<1> QED BY <1>7


LEMMA EmptyProduct == <<>> \in Seq(Nat) /\ Product[<<>>] = 1
<1>1. <<>> \in Seq(Nat)
    OBVIOUS
<1> QED BY <1>1, ProductStep

\* Every product of numbers is a number, of positive ones a positive one.
LEMMA ProductType ==
    ASSUME NEW s \in Seq(Nat)
    PROVE  Product[s] \in Nat
<1> DEFINE T == {t \in Seq(Nat) : Product[t] \in Nat}
<1>1. <<>> \in T
    BY EmptyProduct
<1>2. ASSUME NEW t \in Seq(Nat), t # <<>>, Tail(t) \in T PROVE t \in T
    <2>1. Head(t) \in Nat /\ Product[Tail(t)] \in Nat
        BY <1>2
    <2>2. Head(t) * Product[Tail(t)] \in Nat
        BY <2>1
    <2> QED BY <1>2, <2>2, ProductStep
<1> HIDE DEF T
<1>3. Seq(Nat) \subseteq T
    BY <1>1, <1>2, ListInduction
<1> QED BY <1>3 DEF T

LEMMA ProductOfCons ==
    ASSUME NEW x \in Nat, NEW s \in Seq(Nat)
    PROVE  Product[<<x>> \o s] = x * Product[s]
<1> DEFINE t == <<x>> \o s
<1>1. t \in Seq(Nat) /\ t # <<>> /\ Head(t) = x /\ Tail(t) = s
    BY ConsProperties
<1> HIDE DEF t
<1>2. Product[t] = x * Product[s]
    BY <1>1, ProductStep
<1> QED BY <1>2 DEF t

LEMMA ProductOfConcat ==
    ASSUME NEW a \in Seq(Nat), NEW b \in Seq(Nat)
    PROVE  Product[a \o b] = Product[a] * Product[b]
<1> DEFINE T == {s \in Seq(Nat) : Product[s \o b] = Product[s] * Product[b]}
<1>1. <<>> \in T
    <2>1. <<>> \o b = b /\ Product[b] \in Nat
        BY ProductType, ConcatEmptySeq
    <2> QED BY <2>1, EmptyProduct
<1>2. ASSUME NEW s \in Seq(Nat), s # <<>>, Tail(s) \in T PROVE s \in T
    <2> DEFINE h == Head(s)
               t == Tail(s)
    <2>1. h \in Nat /\ t \in Seq(Nat) /\ s = <<h>> \o t
        BY <1>2, ConsOfHeadTail
    <2>2. Product[t \o b] = Product[t] * Product[b]
        BY <1>2
    <2> HIDE DEF h, t, T
    <2>3. s \o b = <<h>> \o (t \o b)
        <3>1. <<h>> \in Seq(Nat)
            BY <2>1
        <3> QED BY <2>1, <3>1, ConcatAssociative
    <2>4. Product[s \o b] = h * Product[t \o b] /\ Product[s] = h * Product[t]
        BY <2>1, <2>3, ProductOfCons, ConcatProperties
    <2>5. Product[t] \in Nat /\ Product[b] \in Nat
        BY <2>1, ProductType
    <2>6. h * (Product[t] * Product[b]) = (h * Product[t]) * Product[b]
        BY <2>1, <2>5
    <2> QED BY <2>2, <2>4, <2>6 DEF T
<1> HIDE DEF T
<1>3. Seq(Nat) \subseteq T
    BY <1>1, <1>2, ListInduction
<1> QED BY <1>3 DEF T

LEMMA ProductOfOne ==
    ASSUME NEW x \in Nat
    PROVE  Product[<<x>>] = x
<1>1. <<x>> \o <<>> = <<x>>
    BY ConcatEmptySeq, EmptyProduct
<1>2. Product[<<x>> \o <<>>] = x * Product[<<>>]
    BY EmptyProduct, ProductOfCons
<1> QED BY <1>1, <1>2, EmptyProduct

LEMMA InsertStep ==
    ASSUME NEW x \in Nat
    PROVE  \A t \in Seq(Nat) :
               Insert(x, t) = IF t = <<>> THEN <<x>>
                              ELSE IF x <= Head(t) THEN <<x>> \o t
                              ELSE <<Head(t)>> \o Insert(x, Tail(t))
<1> DEFINE D == Seq(Nat)
           m == [s \in Seq(Nat) |-> Len(s)]
           into[s \in Seq(Nat)] ==
               IF s = <<>> THEN <<x>>
               ELSE IF x <= Head(s) THEN <<x>> \o s
               ELSE <<Head(s)>> \o into[Tail(s)]
           step(s, g) == IF s = <<>> THEN <<x>>
                         ELSE IF x <= Head(s) THEN <<x>> \o s
                         ELSE <<Head(s)>> \o g[Tail(s)]
           F == [g \in [D -> D] |-> [s \in D |-> step(s, g)]]
<1>1. /\ m \in [D -> Nat]
      /\ \A s \in D : s # <<>> => Head(s) \in Nat /\ Tail(s) \in D /\ m[Tail(s)] < m[s]
    BY LengthMeasure
<1>2. \A t \in Seq(Nat) : Insert(x, t) = into[t]
    BY DEF Insert
<1> HIDE DEF m, into
<1>3. ASSUME NEW g \in [D -> D], NEW s \in D PROVE step(s, g) \in D
    <2>1. CASE s = <<>>
        BY <2>1
    <2>2. CASE s # <<>>
        <3>1. Head(s) \in Nat /\ g[Tail(s)] \in D
            BY <1>1, <2>2
        <3> QED BY <2>2, <3>1, ConsProperties
    <2> QED BY <2>1, <2>2
<1>4. ASSUME NEW g \in [D -> D], NEW h \in [D -> D], NEW s \in D,
             \A t \in D : m[t] < m[s] => g[t] = h[t]
      PROVE  step(s, g) = step(s, h)
    BY <1>1, <1>4
<1>5. PICK g \in [D -> D] : g = F[g]
    <2> HIDE DEF step
    <2>1. <<>> \in D /\ F \in [[D -> D] -> [D -> D]]
        BY <1>3
    <2>2. \A g \in [D -> D] : \A s \in D : F[g][s] = step(s, g)
        OBVIOUS
    <2>3. \A g, h \in [D -> D] : \A s \in D :
              (\A t \in D : m[t] < m[s] => g[t] = h[t]) => F[g][s] = F[h][s]
        BY <1>4, <2>2
    <2>4. m \in [D -> Nat]
        BY <1>1
    <2> HIDE DEF F, D
    <2>5. Recursive(F, D, D, m)
        BY <2>1, <2>3, <2>4 DEF Recursive
    <2> QED BY <2>5, RecursionExists
<1>6. g = [s \in Seq(Nat) |-> IF s = <<>> THEN <<x>>
                              ELSE IF x <= Head(s) THEN <<x>> \o s
                              ELSE <<Head(s)>> \o g[Tail(s)]]
    BY <1>5
<1>7. into = [s \in Seq(Nat) |-> IF s = <<>> THEN <<x>>
                                 ELSE IF x <= Head(s) THEN <<x>> \o s
                                 ELSE <<Head(s)>> \o into[Tail(s)]]
    BY <1>6 DEF into
<1> QED BY <1>1, <1>2, <1>7

LEMMA SeqNarrow ==
    ASSUME NEW S, NEW T, NEW s \in Seq(S), \A i \in 1..Len(s) : s[i] \in T
    PROVE  s \in Seq(T)
OBVIOUS

LEMMA InsertType ==
    ASSUME NEW S \in SUBSET Nat, NEW x \in S, NEW t \in Seq(S)
    PROVE  Insert(x, t) \in Seq(S)
<1> DEFINE T == {s \in Seq(S) : Insert(x, s) \in Seq(S)}
<1>1. \A s \in Seq(S) : s \in Seq(Nat)
    BY SeqMonotonic
<1>2. <<>> \in T
    <2>1. Insert(x, <<>>) = <<x>>
        BY InsertStep, EmptyProduct
    <2>2. <<x>> \in Seq(S) /\ <<>> \in Seq(S)
        OBVIOUS
    <2> QED BY <2>1, <2>2
<1>3. ASSUME NEW s \in Seq(S), s # <<>>, Tail(s) \in T PROVE s \in T
    <2>1. Head(s) \in S /\ Insert(x, Tail(s)) \in Seq(S)
        BY <1>3, ConsOfHeadTail
    <2>2. <<x>> \o s \in Seq(S) /\ <<Head(s)>> \o Insert(x, Tail(s)) \in Seq(S)
        BY <2>1, ConsProperties
    <2>3. Insert(x, s) = IF x <= Head(s) THEN <<x>> \o s ELSE <<Head(s)>> \o Insert(x, Tail(s))
        BY <1>1, <1>3, InsertStep
    <2> QED BY <2>2, <2>3
<1> HIDE DEF T
<1>4. Seq(S) \subseteq T
    BY <1>2, <1>3, ListInduction
<1> QED BY <1>4 DEF T

LEMMA InsertProduct ==
    ASSUME NEW x \in Nat, NEW t \in Seq(Nat)
    PROVE  Product[Insert(x, t)] = x * Product[t]
<1> DEFINE T == {s \in Seq(Nat) : Product[Insert(x, s)] = x * Product[s]}
<1>1. <<>> \in T
    <2>1. Insert(x, <<>>) = <<x>> /\ Product[<<x>>] = x
        BY InsertStep, EmptyProduct, ProductOfOne
    <2> QED BY <2>1, EmptyProduct
<1>2. ASSUME NEW s \in Seq(Nat), s # <<>>, Tail(s) \in T PROVE s \in T
    <2> DEFINE h == Head(s)
               r == Tail(s)
    <2>1. h \in Nat /\ r \in Seq(Nat) /\ s = <<h>> \o r
        BY <1>2, ConsOfHeadTail
    <2>2. Product[Insert(x, r)] = x * Product[r]
        BY <1>2
    <2>3. Insert(x, s) = IF x <= h THEN <<x>> \o s ELSE <<h>> \o Insert(x, r)
        BY <1>2, InsertStep
    <2> HIDE DEF h, r, T
    <2>4. Product[s] = h * Product[r] /\ Product[r] \in Nat
        BY <2>1, ProductOfCons, ProductType
    <2>5. CASE x <= h
        BY <2>3, <2>5, ProductOfCons DEF T
    <2>6. CASE ~(x <= h)
        <3>1. Insert(x, r) \in Seq(Nat)
            BY <2>1, InsertType
        <3>2. Product[Insert(x, s)] = h * (x * Product[r])
            BY <2>1, <2>2, <2>3, <2>6, <3>1, ProductOfCons
        <3>3. h * (x * Product[r]) = x * (h * Product[r])
            BY <2>1, <2>4
        <3> QED BY <2>4, <3>2, <3>3 DEF T
    <2> QED BY <2>5, <2>6
<1> HIDE DEF T
<1>3. Seq(Nat) \subseteq T
    BY <1>1, <1>2, ListInduction
<1> QED BY <1>3 DEF T

AtLeast(x) == {k \in Nat : x <= k}

LEMMA AscendingCons ==
    ASSUME NEW x \in Nat, NEW s \in Seq(Nat)
    PROVE  Ascending(<<x>> \o s) <=> Ascending(s) /\ s \in Seq(AtLeast(x))
<1> DEFINE t == <<x>> \o s
<1>1. /\ t \in Seq(Nat) /\ Len(t) = Len(s) + 1
      /\ t[1] = x /\ \A i \in 1..Len(s) : t[i + 1] = s[i]
    BY ConsProperties
<1>2. DOMAIN t = 1..(Len(s) + 1) /\ DOMAIN s = 1..Len(s) /\ Len(s) \in Nat
    BY <1>1
<1> HIDE DEF t
<1>3. ASSUME Ascending(t) PROVE Ascending(s) /\ s \in Seq(AtLeast(x))
    <2>1. ASSUME NEW i \in 1..Len(s), NEW j \in 1..Len(s), i <= j PROVE s[i] <= s[j]
        <3>1. i + 1 \in DOMAIN t /\ j + 1 \in DOMAIN t /\ i + 1 <= j + 1
            BY <1>2, <2>1
        <3>2. t[i + 1] <= t[j + 1]
            BY <1>3, <3>1 DEF Ascending
        <3> QED BY <1>1, <3>2
    <2>2. ASSUME NEW i \in 1..Len(s) PROVE s[i] \in AtLeast(x)
        <3>1. 1 \in DOMAIN t /\ i + 1 \in DOMAIN t /\ 1 <= i + 1
            BY <1>2
        <3>2. t[1] <= t[i + 1]
            BY <1>3, <3>1 DEF Ascending
        <3> QED BY <1>1, <3>2 DEF AtLeast
    <2> QED BY <1>2, <2>1, <2>2, SeqNarrow DEF Ascending
<1>4. ASSUME Ascending(s), s \in Seq(AtLeast(x)) PROVE Ascending(t)
    <2> SUFFICES ASSUME NEW i \in DOMAIN t, NEW j \in DOMAIN t, i <= j PROVE t[i] <= t[j]
        BY DEF Ascending
    <2>1. \A k \in 1..Len(s) : x <= s[k]
        BY <1>4 DEF AtLeast
    <2>2. CASE i = 1
        <3>1. CASE j = 1
            BY <1>1, <2>2, <3>1
        <3>2. CASE j # 1
            <4>1. j - 1 \in 1..Len(s) /\ t[j] = s[j - 1]
                BY <1>1, <1>2, <3>2
            <4> QED BY <1>1, <2>1, <2>2, <4>1
        <3> QED BY <3>1, <3>2
    <2>3. CASE i # 1
        <3>1. i - 1 \in 1..Len(s) /\ j - 1 \in 1..Len(s) /\ i - 1 <= j - 1
            BY <1>2, <2>3
        <3>2. t[(i - 1) + 1] = s[i - 1] /\ t[(j - 1) + 1] = s[j - 1]
            BY <1>1, <3>1
        <3>3. (i - 1) + 1 = i /\ (j - 1) + 1 = j
            BY <1>2
        <3>4. s[i - 1] <= s[j - 1]
            BY <1>2, <1>4, <3>1 DEF Ascending
        <3> QED BY <3>2, <3>3, <3>4
    <2> QED BY <2>2, <2>3
<1> QED BY <1>3, <1>4 DEF t

LEMMA InsertAscending ==
    ASSUME NEW x \in Nat, NEW t \in Seq(Nat), Ascending(t)
    PROVE  Ascending(Insert(x, t))
<1> DEFINE T == {s \in Seq(Nat) : Ascending(s) => Ascending(Insert(x, s))}
<1>1. <<>> \in T
    <2>1. Insert(x, <<>>) = <<x>>
        BY InsertStep, EmptyProduct
    <2>2. Ascending(<<x>>)
        BY DEF Ascending
    <2> QED BY <2>1, <2>2
<1>2. ASSUME NEW s \in Seq(Nat), s # <<>>, Tail(s) \in T PROVE s \in T
    <2> DEFINE h == Head(s)
               r == Tail(s)
    <2>1. h \in Nat /\ r \in Seq(Nat) /\ s = <<h>> \o r
        BY <1>2, ConsOfHeadTail
    <2>2. Insert(x, s) = IF x <= h THEN <<x>> \o s ELSE <<h>> \o Insert(x, r)
        BY <1>2, InsertStep
    <2>3. Ascending(r) => Ascending(Insert(x, r))
        BY <1>2
    <2> HIDE DEF h, r
    <2> SUFFICES ASSUME Ascending(s) PROVE Ascending(Insert(x, s))
        OBVIOUS
    <2>4. Ascending(r) /\ r \in Seq(AtLeast(h))
        BY <2>1, AscendingCons
    <2>5. CASE x <= h
        <3>1. h \in AtLeast(x) /\ AtLeast(h) \subseteq AtLeast(x)
            BY <2>1, <2>5 DEF AtLeast
        <3>2. r \in Seq(AtLeast(x))
            BY <2>4, <3>1
        <3>3. s \in Seq(AtLeast(x))
            BY <2>1, <3>1, <3>2, ConsProperties
        <3>4. Ascending(<<x>> \o s)
            BY <3>3, AscendingCons
        <3> QED BY <2>2, <2>5, <3>4
    <2>6. CASE ~(x <= h)
        <3>1. x \in AtLeast(h) /\ AtLeast(h) \in SUBSET Nat
            BY <2>1, <2>6 DEF AtLeast
        <3>2. Insert(x, r) \in Seq(AtLeast(h))
            BY <2>4, <3>1, InsertType
        <3>3. Insert(x, r) \in Seq(Nat)
            BY <2>1, InsertType
        <3> DEFINE a == Insert(x, r)
        <3>4. Insert(x, s) = <<h>> \o a /\ Ascending(a)
            BY <2>2, <2>3, <2>4, <2>6
        <3>5. a \in Seq(Nat) /\ a \in Seq(AtLeast(h))
            BY <3>2, <3>3
        <3> HIDE DEF a
        <3>6. Ascending(<<h>> \o a)
            BY <2>1, <3>4, <3>5, AscendingCons
        <3> QED BY <3>4, <3>6
    <2> QED BY <2>5, <2>6
<1> HIDE DEF T
<1>3. Seq(Nat) \subseteq T
    BY <1>1, <1>2, ListInduction
<1> QED BY <1>3 DEF T

LEMMA SortedStep ==
    \A s \in Seq(Nat) : Sorted[s] = IF s = <<>> THEN <<>> ELSE Insert(Head(s), Sorted[Tail(s)])
<1> DEFINE D == Seq(Nat)
           m == [s \in Seq(Nat) |-> Len(s)]
           step(s, g) == IF s = <<>> THEN <<>> ELSE Insert(Head(s), g[Tail(s)])
           F == [g \in [D -> D] |-> [s \in D |-> step(s, g)]]
<1>1. /\ m \in [D -> Nat]
      /\ \A s \in D : s # <<>> => Head(s) \in Nat /\ Tail(s) \in D /\ m[Tail(s)] < m[s]
    BY LengthMeasure
<1> HIDE DEF m
<1>2. ASSUME NEW g \in [D -> D], NEW s \in D PROVE step(s, g) \in D
    <2>1. CASE s = <<>>
        BY <2>1
    <2>2. CASE s # <<>>
        <3>1. Head(s) \in Nat /\ g[Tail(s)] \in D
            BY <1>1, <2>2
        <3> QED BY <2>2, <3>1, InsertType
    <2> QED BY <2>1, <2>2
<1>3. ASSUME NEW g \in [D -> D], NEW h \in [D -> D], NEW s \in D,
             \A t \in D : m[t] < m[s] => g[t] = h[t]
      PROVE  step(s, g) = step(s, h)
    BY <1>1, <1>3
<1>4. PICK g \in [D -> D] : g = F[g]
    <2> HIDE DEF step
    <2>1. <<>> \in D /\ F \in [[D -> D] -> [D -> D]]
        BY <1>2
    <2>2. \A g, h \in [D -> D] : \A s \in D :
              (\A t \in D : m[t] < m[s] => g[t] = h[t]) => F[g][s] = F[h][s]
        BY <1>3
    <2>3. m \in [D -> Nat]
        BY <1>1
    <2> HIDE DEF F, D
    <2>4. Recursive(F, D, D, m)
        BY <2>1, <2>2, <2>3 DEF Recursive
    <2> QED BY <2>4, RecursionExists
<1>5. g = [s \in Seq(Nat) |-> IF s = <<>> THEN <<>> ELSE Insert(Head(s), g[Tail(s)])]
    BY <1>4
<1>6. Sorted = [s \in Seq(Nat) |-> IF s = <<>> THEN <<>> ELSE Insert(Head(s), Sorted[Tail(s)])]
    BY <1>5 DEF Sorted
<1> QED BY <1>6

\* Sorting keeps the numbers and their product, and puts them in order.
LEMMA SortedProperties ==
    ASSUME NEW S \in SUBSET Nat, NEW s \in Seq(S)
    PROVE  /\ Sorted[s] \in Seq(S) /\ Ascending(Sorted[s])
           /\ Product[Sorted[s]] = Product[s]
<1> DEFINE T == {t \in Seq(S) : /\ Sorted[t] \in Seq(S) /\ Ascending(Sorted[t])
                                /\ Product[Sorted[t]] = Product[t]}
<1>1. \A t \in Seq(S) : t \in Seq(Nat)
    BY SeqMonotonic
<1>2. <<>> \in T
    <2>1. Sorted[<<>>] = <<>>
        BY SortedStep, EmptyProduct
    <2>2. Ascending(<<>>)
        BY DEF Ascending
    <2>3. <<>> \in Seq(S)
        OBVIOUS
    <2> QED BY <2>1, <2>2, <2>3
<1>3. ASSUME NEW t \in Seq(S), t # <<>>, Tail(t) \in T PROVE t \in T
    <2> DEFINE h == Head(t)
               r == Tail(t)
    <2>1. h \in S /\ r \in Seq(S) /\ t = <<h>> \o r
        BY <1>3, ConsOfHeadTail
    <2>2. Sorted[r] \in Seq(S) /\ Ascending(Sorted[r]) /\ Product[Sorted[r]] = Product[r]
        BY <1>3
    <2>3. Sorted[t] = Insert(h, Sorted[r])
        BY <1>1, <1>3, SortedStep
    <2> HIDE DEF h, r
    <2>4. h \in Nat /\ r \in Seq(Nat) /\ Sorted[r] \in Seq(Nat)
        BY <1>1, <2>1, <2>2
    <2>5. Sorted[t] \in Seq(S)
        BY <2>1, <2>2, <2>3, InsertType
    <2>6. Ascending(Sorted[t])
        BY <2>2, <2>3, <2>4, InsertAscending
    <2>7. Product[Sorted[t]] = Product[t]
        BY <2>1, <2>2, <2>3, <2>4, InsertProduct, ProductOfCons
    <2> QED BY <2>5, <2>6, <2>7
<1> HIDE DEF T
<1>4. Seq(S) \subseteq T
    BY <1>2, <1>3, ListInduction
<1> QED BY <1>4 DEF T

-----------------------------------------------------------------------------
(* Division.                                                               *)

Positive == Nat \ {0}

LEMMA DivisionShrinks ==
    ASSUME NEW m \in Positive, NEW c \in Factors, m % c = 0
    PROVE  m \div c \in Positive /\ m \div c < m /\ c * (m \div c) = m
<1>1. m = c * (m \div c) /\ m \div c \in Nat
    BY DEF Positive, Factors
<1> DEFINE q == m \div c
<1> HIDE DEF q
<1>2. q \in Nat /\ m = c * q /\ c \in Nat /\ c >= 2 /\ m \in Nat /\ m # 0
    BY <1>1 DEF q, Positive, Factors
<1>3. q # 0
    BY <1>2
<1>4. c * q >= 2 * q
    BY <1>2
<1>5. q < m
    BY <1>2, <1>3, <1>4
<1> QED BY <1>2, <1>3, <1>5 DEF q, Positive

LEMMA DivideOutResult ==
    ASSUME NEW left, left.rest \in Positive, NEW c \in Factors
    PROVE  \E k \in Seq({c}) : \E r \in Positive :
               /\ DivideOut(left, c) = [factors |-> left.factors \o k, rest |-> r]
               /\ Product[k] * r = left.rest
               /\ r % c # 0
               /\ left.rest % c # 0 => k = <<>>
<1> DEFINE D == Nat \ {0}
           V == [factors : Seq({c}), rest : Nat \ {0}]
           m == [x \in D |-> x]
           copies[x \in Nat \ {0}] ==
               IF x % c = 0
               THEN [factors |-> <<c>> \o copies[x \div c].factors, rest |-> copies[x \div c].rest]
               ELSE Whole(x)
           step(x, g) ==
               IF x % c = 0
               THEN [factors |-> <<c>> \o g[x \div c].factors, rest |-> g[x \div c].rest]
               ELSE Whole(x)
           F == [g \in [D -> V] |-> [x \in D |-> step(x, g)]]
<1>1. DivideOut(left, c) =
          [factors |-> left.factors \o copies[left.rest].factors, rest |-> copies[left.rest].rest]
    BY DEF DivideOut
<1> HIDE DEF copies
<1>2. \A x \in D : x % c = 0 => x \div c \in D /\ x \div c < x /\ c * (x \div c) = x
    BY DivisionShrinks DEF Positive
<1>3. ASSUME NEW g \in [D -> V], NEW x \in D PROVE step(x, g) \in V
    <2>1. CASE x % c = 0
        <3>1. g[x \div c] \in V
            BY <1>2, <2>1
        <3>2. <<c>> \o g[x \div c].factors \in Seq({c})
            BY <3>1, ConsProperties
        <3> QED BY <2>1, <3>1, <3>2
    <2>2. CASE x % c # 0
        BY <2>2 DEF Whole
    <2> QED BY <2>1, <2>2
<1>4. ASSUME NEW g \in [D -> V], NEW h \in [D -> V], NEW x \in D,
             \A y \in D : m[y] < m[x] => g[y] = h[y]
      PROVE  step(x, g) = step(x, h)
    BY <1>2, <1>4
<1>5. PICK g \in [D -> V] : g = F[g]
    <2> HIDE DEF step
    <2>1. F \in [[D -> V] -> [D -> V]]
        BY <1>3
    <2>2. \A g, h \in [D -> V] : \A x \in D :
              (\A y \in D : m[y] < m[x] => g[y] = h[y]) => F[g][x] = F[h][x]
        BY <1>4
    <2>3. m \in [D -> Nat]
        OBVIOUS
    <2>4. V # {}
        <3>1. [factors |-> <<>>, rest |-> 1] \in V
            OBVIOUS
        <3> QED BY <3>1
    <2> HIDE DEF F, D, V, m
    <2>5. Recursive(F, D, V, m)
        BY <2>1, <2>2, <2>3, <2>4 DEF Recursive
    <2> QED BY <2>5, RecursionExists
<1>6. g = [x \in Nat \ {0} |->
               IF x % c = 0
               THEN [factors |-> <<c>> \o g[x \div c].factors, rest |-> g[x \div c].rest]
               ELSE Whole(x)]
    BY <1>5
<1>7. copies = [x \in Nat \ {0} |->
               IF x % c = 0
               THEN [factors |-> <<c>> \o copies[x \div c].factors, rest |-> copies[x \div c].rest]
               ELSE Whole(x)]
    BY <1>6 DEF copies
<1> DEFINE T == {x \in D : /\ copies[x] \in V
                           /\ Product[copies[x].factors] * copies[x].rest = x
                           /\ copies[x].rest % c # 0
                           /\ x % c # 0 => copies[x].factors = <<>>}
<1>8. ASSUME NEW x \in D, \A y \in D : m[y] < m[x] => y \in T PROVE x \in T
    <2>1. copies[x] = step(x, copies)
        BY <1>7
    <2>2. CASE x % c = 0
        <3> DEFINE y == x \div c
                   k == copies[y].factors
                   r == copies[y].rest
        <3>1. y \in D /\ c * y = x /\ y \in T
            BY <1>2, <1>8, <2>2
        <3>2. k \in Seq({c}) /\ r \in D /\ Product[k] * r = y /\ r % c # 0
            BY <3>1
        <3>3. copies[x] = [factors |-> <<c>> \o k, rest |-> r]
            BY <2>1, <2>2
        <3> HIDE DEF y, k, r, T
        <3>4. <<c>> \o k \in Seq({c})
            BY <3>2, ConsProperties
        <3>5. k \in Seq(Nat) /\ c \in Nat
            <4>1. {c} \subseteq Nat
                BY DEF Factors
            <4> QED BY <3>2, <4>1, SeqMonotonic
        <3>6. Product[<<c>> \o k] = c * Product[k] /\ Product[k] \in Nat
            BY <3>5, ProductOfCons, ProductType
        <3>7. (c * Product[k]) * r = c * (Product[k] * r)
            BY <3>2, <3>5, <3>6
        <3>8. Product[<<c>> \o k] * r = x
            BY <3>1, <3>2, <3>6, <3>7
        <3>9. copies[x] \in V /\ copies[x].factors = <<c>> \o k /\ copies[x].rest = r
            BY <3>2, <3>3, <3>4
        <3> HIDE DEF V
        <3> QED BY <2>2, <3>2, <3>8, <3>9 DEF T
    <2>3. CASE x % c # 0
        <3>1. copies[x] = [factors |-> <<>>, rest |-> x]
            BY <2>1, <2>3 DEF Whole
        <3>2. Product[<<>>] * x = x
            BY EmptyProduct
        <3>3. copies[x] \in V /\ copies[x].factors = <<>> /\ copies[x].rest = x
            BY <3>1
        <3> HIDE DEF V
        <3> QED BY <2>3, <3>2, <3>3
    <2> QED BY <2>2, <2>3
<1>9. D \subseteq T
    <2>1. m \in [D -> Nat]
        OBVIOUS
    <2> HIDE DEF D, T, m
    <2> QED BY <1>8, <2>1, MeasureInduction
<1>10. left.rest \in T
    BY <1>9 DEF Positive
<1> QED BY <1>1, <1>10 DEF Positive

LEMMA MultipleDivides ==
    ASSUME NEW e \in Positive, NEW t \in Nat
    PROVE  (e * t) % e = 0
<1> DEFINE a == e * t
           q == a \div e
           r == a % e
<1>1. a \in Nat /\ e \in Nat /\ e # 0
    BY DEF Positive
<1>2. a = e * q + r /\ q \in Int /\ r \in 0..(e - 1)
    <2> HIDE DEF a
    <2> QED BY <1>1
<1>3. r = e * (t - q)
    <2> HIDE DEF q, r
    <2> QED BY <1>1, <1>2
<1> HIDE DEF q, r, a
<1>4. t - q \in Int /\ e \in Nat /\ e > 0
    BY <1>1, <1>2
<1>5. CASE t - q >= 1
    <2>1. e * (t - q) >= e
        BY <1>4, <1>5
    <2> QED BY <1>2, <1>3, <1>4, <2>1
<1>6. CASE t - q <= -1
    <2>1. e * (t - q) <= -e
        BY <1>4, <1>6
    <2> QED BY <1>2, <1>3, <1>4, <2>1
<1>7. CASE t - q = 0
    BY <1>2, <1>3, <1>4, <1>7 DEF a, r
<1> QED BY <1>4, <1>5, <1>6, <1>7

LEMMA Cancellation ==
    ASSUME NEW h \in Nat, h > 0, NEW p \in Nat, NEW q \in Nat, h * p = h * q
    PROVE  p = q
<1>1. ASSUME NEW a \in Nat, NEW b \in Nat, a < b PROVE h * a < h * b
    <2> DEFINE d == b - a
    <2>1. d \in Nat /\ d >= 1 /\ b = a + d
        BY <1>1
    <2> HIDE DEF d
    <2>2. h * b = h * a + h * d
        BY <2>1
    <2>3. h * a \in Nat /\ h * d \in Nat /\ h * d >= h
        BY <2>1
    <2> DEFINE x == h * a
               y == h * d
    <2>4. x \in Nat /\ y \in Nat /\ y > 0 /\ h * b = x + y
        BY <2>2, <2>3
    <2> HIDE DEF x, y
    <2>5. x < h * b
        BY <2>4
    <2> QED BY <2>5 DEF x
<1>2. ~(p < q) /\ ~(q < p)
    <2>1. h * p \in Nat /\ h * q \in Nat
        OBVIOUS
    <2> QED BY <1>1, <2>1
<1> QED BY <1>2

\* What does not divide a number divides none of its divisors.
LEMMA DivisionPasses ==
    ASSUME NEW e \in Positive, NEW a \in Nat, NEW b \in Nat, a % e = 0
    PROVE  (b * a) % e = 0
<1>1. a = e * (a \div e) /\ a \div e \in Nat
    BY DEF Positive
<1> DEFINE q == a \div e
<1> HIDE DEF q
<1>2. b * a = e * (b * q) /\ b * q \in Nat
    BY <1>1 DEF Positive, q
<1> QED BY <1>2, MultipleDivides

LEMMA DivisorsAreDivisors ==
    ASSUME NEW m \in Positive, NEW f \in Int, f > 1, m % f = 0
    PROVE  f \in Divisors(m)
<1>1. m \in Positive /\ f \in Factors
    BY DEF Factors
<1>2. f * (m \div f) = m /\ m \div f \in Positive
    BY <1>1, DivisionShrinks
<1> DEFINE q == m \div f
<1> HIDE DEF q
<1>3. f * q = m /\ q \in Nat /\ q >= 1 /\ f \in Nat
    BY <1>1, <1>2 DEF q, Positive, Factors
<1>4. f * q >= f
    BY <1>3
<1> QED BY <1>3, <1>4 DEF Divisors, Positive

LEMMA DivisorsOfDivisor ==
    ASSUME NEW m \in Positive, NEW d \in Positive, m % d = 0
    PROVE  Divisors(d) \subseteq Divisors(m)
<1> SUFFICES ASSUME NEW f \in Divisors(d) PROVE f \in Divisors(m)
    OBVIOUS
<1>1. f \in Positive /\ f > 1 /\ d % f = 0 /\ d \in Nat /\ f \in Int
    BY DEF Divisors, Positive
<1>2. m = (m \div d) * d /\ m \div d \in Nat
    BY DEF Positive
<1>3. m % f = 0
    BY <1>1, <1>2, DivisionPasses
<1> QED BY <1>1, <1>3, DivisorsAreDivisors

Primes == {p \in Nat : Prime(p)}

LEMMA PrimesAreFactors == Primes \subseteq Factors /\ Primes \subseteq Nat
BY DEF Primes, Prime, Factors

LEMMA DividesItself ==
    ASSUME NEW m \in Positive
    PROVE  m % m = 0
<1>1. m * 1 = m
    BY DEF Positive
<1> QED BY <1>1, MultipleDivides

\* The least divisor of a number is prime.
LEMMA PrimeDivisor ==
    ASSUME NEW m \in Factors
    PROVE  \E p \in Divisors(m) : p \in Primes
<1>1. m \in Positive /\ m \in Divisors(m)
    BY DividesItself DEF Factors, Positive, Divisors
<1>2. PICK p \in Divisors(m) : \A d \in Divisors(m) : p <= d
    <2>1. Divisors(m) \in SUBSET Nat
        BY DEF Divisors
    <2> QED BY <1>1, <2>1, LeastIsThere
<1>3. p \in Positive /\ p \in Nat /\ p > 1 /\ m % p = 0
    BY DEF Divisors, Positive
<1>4. ASSUME NEW d \in 2..(p - 1), p % d = 0 PROVE FALSE
    <2>1. d \in Divisors(p)
        BY <1>3, <1>4 DEF Divisors
    <2>2. d \in Divisors(m)
        BY <1>1, <1>3, <2>1, DivisorsOfDivisor
    <2> QED BY <1>2, <1>3, <1>4, <2>2
<1> QED BY <1>3, <1>4 DEF Primes, Prime

LEMMA ProductGrows ==
    ASSUME NEW a \in Nat, NEW b \in Nat, NEW k \in Nat, a >= k, b >= k
    PROVE  a * b >= k * k
<1>1. a * b >= k * b
    <2> DEFINE d == a - k
    <2>1. d \in Nat /\ a = k + d
        OBVIOUS
    <2> HIDE DEF d
    <2>2. a * b = k * b + d * b /\ d * b \in Nat /\ k * b \in Nat
        BY <2>1
    <2> QED BY <2>2
<1>2. k * b >= k * k
    <2> DEFINE d == b - k
    <2>1. d \in Nat /\ b = k + d
        OBVIOUS
    <2> HIDE DEF d
    <2>2. k * b = k * k + k * d /\ k * d \in Nat /\ k * k \in Nat
        BY <2>1
    <2> QED BY <2>2
<1>3. a * b \in Nat /\ k * b \in Nat /\ k * k \in Nat
    OBVIOUS
<1> QED BY <1>1, <1>2, <1>3

\* The states of a loop that factors n: the numbers divided out belong to S,
\* and together with what is left they make n.
Account(n, S) ==
    {left \in [factors : Seq(S), rest : Positive] : Product[left.factors] * left.rest = n}

\* To divide is to move a factor from what is left to the factors found.
LEMMA DivideOutKeeps ==
    ASSUME NEW n, NEW S \in SUBSET Nat, NEW left \in Account(n, S), NEW c \in S, c \in Factors
    PROVE  /\ DivideOut(left, c) \in Account(n, S)
           /\ DivideOut(left, c).rest % c # 0
           /\ \E q \in Nat : left.rest = q * DivideOut(left, c).rest
<1>1. /\ left.factors \in Seq(S) /\ left.rest \in Positive
      /\ Product[left.factors] * left.rest = n
    BY DEF Account
<1>2. PICK k \in Seq({c}), r \in Positive :
          /\ DivideOut(left, c) = [factors |-> left.factors \o k, rest |-> r]
          /\ Product[k] * r = left.rest
          /\ r % c # 0
    BY <1>1, DivideOutResult
<1>3. k \in Seq(S) /\ k \in Seq(Nat) /\ left.factors \in Seq(Nat)
    <2>1. {c} \subseteq S /\ S \subseteq Nat
        OBVIOUS
    <2>2. k \in Seq(S)
        BY <2>1, SeqMonotonic
    <2> QED BY <1>1, <2>1, <2>2, SeqMonotonic
<1>4. left.factors \o k \in Seq(S)
    BY <1>1, <1>3, ConcatProperties
<1>5. Product[left.factors \o k] = Product[left.factors] * Product[k]
    BY <1>3, ProductOfConcat
<1>6. Product[k] \in Nat /\ Product[left.factors] \in Nat /\ r \in Nat
    BY <1>3, ProductType DEF Positive
<1>7. (Product[left.factors] * Product[k]) * r = Product[left.factors] * (Product[k] * r)
    BY <1>6
<1>8. DivideOut(left, c) \in Account(n, S)
    <2> DEFINE f == left.factors \o k
    <2>1. f \in Seq(S) /\ Product[f] * r = n
        BY <1>1, <1>2, <1>4, <1>5, <1>7
    <2> HIDE DEF f
    <2>2. [factors |-> f, rest |-> r] \in Account(n, S)
        BY <2>1 DEF Account
    <2> QED BY <1>2, <2>2 DEF f
<1>9. DivideOut(left, c).rest = r
    BY <1>2
<1> QED BY <1>2, <1>6, <1>8, <1>9

LEMMA DivideOutIdle ==
    ASSUME NEW n, NEW S \in SUBSET Nat, NEW left \in Account(n, S), NEW c \in Factors,
           left.rest % c # 0
    PROVE  DivideOut(left, c) = left
<1>1. /\ left.factors \in Seq(S) /\ left.rest \in Positive
      /\ left = [factors |-> left.factors, rest |-> left.rest]
    BY DEF Account
<1>2. PICK k \in Seq({c}), r \in Positive :
          /\ DivideOut(left, c) = [factors |-> left.factors \o k, rest |-> r]
          /\ Product[k] * r = left.rest
          /\ left.rest % c # 0 => k = <<>>
    BY <1>1, DivideOutResult
<1>3. r = left.rest
    BY <1>2, EmptyProduct DEF Positive
<1>4. left.factors \o <<>> = left.factors
    BY <1>1, ConcatEmptySeq
<1> QED BY <1>1, <1>2, <1>3, <1>4

\* Only what divides is divided out.
LEMMA DivideOutPrimes ==
    ASSUME NEW n, NEW left \in Account(n, Primes), NEW c \in Factors,
           left.rest % c = 0 => c \in Primes
    PROVE  DivideOut(left, c) \in Account(n, Primes)
<1>1. Primes \in SUBSET Nat
    BY PrimesAreFactors
<1>2. CASE left.rest % c = 0
    BY <1>1, <1>2, DivideOutKeeps
<1>3. CASE left.rest % c # 0
    BY <1>1, <1>3, DivideOutIdle
<1> QED BY <1>2, <1>3

\* With a number S holds its prime divisors.
Closed(S) == \A f \in S : \A p \in Divisors(f) : Prime(p) => p \in S

LEMMA GreatestIsThere ==
    ASSUME NEW S \in SUBSET Nat, IsFiniteSet(S), NEW U \in SUBSET S, U # {}
    PROVE  \E c \in U : \A e \in U : e <= c
<1> DEFINE D == SUBSET S
           m == [T \in D |-> Cardinality(T)]
           G == {T \in D : T # {} => \E c \in T : \A e \in T : e <= c}
<1>1. ASSUME NEW T \in D
      PROVE  IsFiniteSet(T) /\ Cardinality(T) \in Nat /\ m[T] = Cardinality(T)
    BY FS_Subset, FS_CardinalityType
<1>2. ASSUME NEW T \in D, \A Q \in D : m[Q] < m[T] => Q \in G PROVE T \in G
    <2> SUFFICES ASSUME NEW x \in T PROVE \E c \in T : \A e \in T : e <= c
        OBVIOUS
    <2> DEFINE Q == T \ {x}
    <2>1. Q \in D /\ Cardinality(Q) = Cardinality(T) - 1
        BY <1>1, FS_RemoveElement
    <2>2. Q \in G
        <3>1. m[Q] < m[T]
            <4>1. m[Q] = Cardinality(Q) /\ m[T] = Cardinality(T) /\ Cardinality(T) \in Nat
                BY <1>1, <2>1
            <4> HIDE DEF m, Q
            <4> QED BY <2>1, <4>1
        <3> QED BY <1>2, <2>1, <3>1
    <2>3. CASE Q = {}
        BY <2>3
    <2>4. CASE Q # {}
        <3>1. PICK c \in Q : \A e \in Q : e <= c
            BY <2>2, <2>4
        <3>2. c \in Nat /\ x \in Nat /\ \A e \in T : e = x \/ e \in Q
            OBVIOUS
        <3>3. CASE x <= c
            BY <3>1, <3>2, <3>3
        <3>4. CASE ~(x <= c)
            <4>1. \A e \in T : e \in Nat
                OBVIOUS
            <4> QED BY <3>1, <3>2, <3>4, <4>1
        <3> QED BY <3>3, <3>4
    <2> QED BY <2>3, <2>4
<1>3. m \in [D -> Nat]
    BY <1>1
<1> HIDE DEF D, m, G
<1>4. D \subseteq G
    BY <1>2, <1>3, MeasureInduction
<1> QED BY <1>4 DEF D, G

LEMMA DivideByAllKeeps ==
    ASSUME NEW n, NEW P \in SUBSET Nat, NEW left \in Account(n, P),
           NEW S \in SUBSET (P \cap Factors), IsFiniteSet(S)
    PROVE  /\ DivideByAll(left, S) \in Account(n, P)
           /\ \A c \in S : DivideByAll(left, S).rest % c # 0
           /\ \E q \in Nat : left.rest = q * DivideByAll(left, S).rest
           /\ left \in Account(n, Primes) /\ Closed(S)
                  => DivideByAll(left, S) \in Account(n, Primes)
<1> DEFINE D == SUBSET S
           V == Account(n, P)
           m == [T \in D |-> Cardinality(T)]
           last(T) == CHOOSE c \in T : \A e \in T : e <= c
           through[T \in SUBSET S] ==
               IF T = {} THEN left
               ELSE DivideOut(through[T \ {CHOOSE c \in T : \A e \in T : e <= c}],
                              CHOOSE c \in T : \A e \in T : e <= c)
           step(T, g) == IF T = {} THEN left ELSE DivideOut(g[T \ {last(T)}], last(T))
           F == [g \in [D -> V] |-> [T \in D |-> step(T, g)]]
<1>1. DivideByAll(left, S) = through[S]
    BY DEF DivideByAll
<1> HIDE DEF through
<1>2. m \in [D -> Nat]
    BY FS_Subset, FS_CardinalityType
<1>3. ASSUME NEW T \in D, T # {}
      PROVE  /\ last(T) \in T /\ T \ {last(T)} \in D /\ m[T \ {last(T)}] < m[T]
             /\ \A e \in T : e <= last(T)
    <2>1. S \in SUBSET Nat
        BY DEF Factors
    <2>2. \E c \in T : \A e \in T : e <= c
        BY <1>3, <2>1, GreatestIsThere
    <2>3. last(T) \in T /\ \A e \in T : e <= last(T)
        BY <2>2
    <2> DEFINE c == last(T)
    <2> HIDE DEF c, last
    <2>4. c \in T /\ \A e \in T : e <= c
        BY <2>3 DEF c
    <2>5. IsFiniteSet(T)
        BY FS_Subset
    <2>6. Cardinality(T \ {c}) = Cardinality(T) - 1 /\ Cardinality(T) \in Nat
        BY <2>4, <2>5, FS_RemoveElement, FS_CardinalityType
    <2>7. T \ {c} \in D
        OBVIOUS
    <2>8. m[T \ {c}] = Cardinality(T \ {c}) /\ m[T] = Cardinality(T)
        BY <2>7
    <2>9. m[T \ {c}] < m[T]
        <3> HIDE DEF m
        <3> QED BY <2>6, <2>8
    <2> QED BY <2>4, <2>7, <2>9 DEF c
<1> HIDE DEF m, last
<1>4. ASSUME NEW g \in [D -> V], NEW T \in D PROVE step(T, g) \in V
    <2>1. CASE T = {}
        BY <2>1
    <2>2. CASE T # {}
        <3>1. last(T) \in P /\ last(T) \in Factors
            BY <1>3, <2>2
        <3>2. g[T \ {last(T)}] \in V
            BY <1>3, <2>2
        <3>3. DivideOut(g[T \ {last(T)}], last(T)) \in V
            BY <3>1, <3>2, DivideOutKeeps
        <3> QED BY <2>2, <3>3
    <2> QED BY <2>1, <2>2
<1>5. ASSUME NEW g \in [D -> V], NEW h \in [D -> V], NEW T \in D,
             \A Q \in D : m[Q] < m[T] => g[Q] = h[Q]
      PROVE  step(T, g) = step(T, h)
    BY <1>3, <1>5
<1>6. PICK g \in [D -> V] : g = F[g]
    <2> HIDE DEF step
    <2>1. F \in [[D -> V] -> [D -> V]]
        BY <1>4
    <2>2. \A g, h \in [D -> V] : \A T \in D :
              (\A Q \in D : m[Q] < m[T] => g[Q] = h[Q]) => F[g][T] = F[h][T]
        BY <1>5
    <2>3. V # {}
        OBVIOUS
    <2> HIDE DEF F, D, V
    <2>4. Recursive(F, D, V, m)
        BY <1>2, <2>1, <2>2, <2>3 DEF Recursive
    <2> QED BY <2>4, RecursionExists
<1>7. g = [T \in SUBSET S |->
               IF T = {} THEN left
               ELSE DivideOut(g[T \ {CHOOSE c \in T : \A e \in T : e <= c}],
                              CHOOSE c \in T : \A e \in T : e <= c)]
    BY <1>6 DEF last
<1>8. through = [T \in SUBSET S |->
               IF T = {} THEN left
               ELSE DivideOut(through[T \ {CHOOSE c \in T : \A e \in T : e <= c}],
                              CHOOSE c \in T : \A e \in T : e <= c)]
    BY <1>7 DEF through
<1>9. \A T \in D : through[T] = step(T, through)
    BY <1>8 DEF last
<1> DEFINE G == {T \in D : /\ through[T] \in V
                           /\ \A c \in T : through[T].rest % c # 0
                           /\ \E q \in Nat : left.rest = q * through[T].rest
                           /\ left \in Account(n, Primes) /\ Closed(T)
                                  => through[T] \in Account(n, Primes)}
<1>10. ASSUME NEW T \in D, \A Q \in D : m[Q] < m[T] => Q \in G PROVE T \in G
    <2>1. CASE T = {}
        <3>1. through[T] = left
            BY <1>9, <2>1
        <3>2. left.rest = 1 * left.rest
            BY DEF Account, Positive
        <3> HIDE DEF V
        <3>3. left \in V
            BY DEF V
        <3>4. \E q \in Nat : left.rest = q * left.rest
            BY <3>2
        <3> QED BY <2>1, <3>1, <3>3, <3>4
    <2>2. CASE T # {}
        <3> DEFINE Q == T \ {last(T)}
                   before == through[Q]
                   c == last(T)
                   after == through[T]
        <3>1. /\ Q \in G /\ c \in T /\ T = Q \cup {c} /\ c \in P /\ c \in Factors
              /\ c \notin Q /\ \A e \in T : e \in Factors /\ e <= c
            BY <1>3, <1>10, <2>2
        <3>2. after = DivideOut(before, c)
            BY <1>9, <2>2
        <3>3. /\ before \in Account(n, P)
              /\ \A e \in Q : before.rest % e # 0
              /\ \E q \in Nat : left.rest = q * before.rest
              /\ left \in Account(n, Primes) /\ Closed(Q) => before \in Account(n, Primes)
            BY <3>1
        <3> HIDE DEF Q, before, c, after, G
        <3>4. /\ after \in Account(n, P)
              /\ after.rest % c # 0
              /\ \E q \in Nat : before.rest = q * after.rest
            BY <3>1, <3>2, <3>3, DivideOutKeeps
        <3>5. PICK h \in Nat : left.rest = h * before.rest
            BY <3>3
        <3>6. PICK q \in Nat : before.rest = q * after.rest
            BY <3>4
        <3>7. after.rest \in Nat
            BY <3>4 DEF Account, Positive
        <3>8. left.rest = (h * q) * after.rest /\ h * q \in Nat
            <4>1. h * (q * after.rest) = (h * q) * after.rest
                BY <3>7
            <4> QED BY <3>5, <3>6, <4>1
        <3>9. ASSUME NEW e \in Q PROVE after.rest % e # 0
            <4>1. e \in Positive
                BY DEF Q, Factors, Positive
            <4> QED BY <3>3, <3>6, <3>7, <4>1, DivisionPasses
        <3>10. ASSUME left \in Account(n, Primes), Closed(T) PROVE after \in Account(n, Primes)
            <4>1. ASSUME NEW f \in T, NEW p \in Divisors(f), Prime(p) PROVE p \in T /\ p <= f /\ p \in Nat
                <5>1. p \in T
                    BY <3>10, <4>1 DEF Closed
                <5>2. p \in 2..f
                    BY DEF Divisors
                <5> QED BY <5>1, <5>2
            <4>2. Closed(Q)
                <5> SUFFICES ASSUME NEW f \in Q, NEW p \in Divisors(f), Prime(p) PROVE p \in Q
                    BY DEF Closed
                <5>1. f \in T /\ f # c /\ f <= c /\ f \in Nat /\ c \in Nat
                    BY <3>1 DEF Factors
                <5>2. p \in T /\ p <= f /\ p \in Nat
                    BY <4>1, <5>1
                <5>3. p # c
                    BY <5>1, <5>2
                <5> QED BY <3>1, <5>2, <5>3
            <4>3. before \in Account(n, Primes)
                BY <3>3, <3>10, <4>2
            <4>4. ASSUME before.rest % c = 0 PROVE c \in Primes
                <5>1. PICK p \in Divisors(c) : p \in Primes
                    BY <3>1, PrimeDivisor
                <5>2. Prime(p) /\ p \in T
                    BY <3>1, <4>1, <5>1 DEF Primes
                <5>3. c % p = 0 /\ p \in Positive /\ c \in Positive /\ before.rest \in Nat
                    BY <3>1, <3>3 DEF Divisors, Positive, Factors, Account
                <5>4. before.rest % p = 0
                    <6>1. before.rest = c * (before.rest \div c) /\ before.rest \div c \in Nat
                        BY <4>4, <5>3 DEF Positive
                    <6>2. before.rest = (before.rest \div c) * c
                        BY <5>3, <6>1 DEF Positive
                    <6> QED BY <5>3, <6>1, <6>2, DivisionPasses DEF Positive
                <5>5. p \notin Q
                    BY <3>3, <5>4
                <5> QED BY <3>1, <5>1, <5>2, <5>5
            <4> QED BY <3>1, <3>2, <4>3, <4>4, DivideOutPrimes
        <3> QED BY <3>1, <3>4, <3>8, <3>9, <3>10 DEF G, after
    <2> QED BY <2>1, <2>2
<1>11. D \subseteq G
    <2> HIDE DEF D, G
    <2> QED BY <1>2, <1>10, MeasureInduction
<1>12. S \in G
    BY <1>11
<1> QED BY <1>1, <1>12

-----------------------------------------------------------------------------
(* The wheel.                                                              *)

Spokes == <<7, 11, 13, 17, 19, 23, 29, 31>>

\* The candidate of turn k, unless the wheel stops before.
Candidate(k) == 30 * (k \div 8) + Spokes[(k % 8) + 1]

LEMMA CandidateType ==
    ASSUME NEW k \in Nat
    PROVE  Candidate(k) \in Factors /\ Candidate(k) > k /\ Candidate(k) >= 7
<1> DEFINE q == k \div 8
           r == k % 8
<1>1. q \in Nat /\ r \in 0..7 /\ k = 8 * q + r
    OBVIOUS
<1>2. \A t \in 0..7 : Spokes[t + 1] \in Nat /\ Spokes[t + 1] >= 7 + t
    BY DEF Spokes
<1>3. Candidate(k) = 30 * q + Spokes[r + 1]
    BY DEF Candidate
<1> DEFINE spoke == Spokes[r + 1]
<1>4. spoke \in Nat /\ spoke >= 7 + r /\ Candidate(k) = 30 * q + spoke
    BY <1>1, <1>2, <1>3
<1> HIDE DEF q, r, spoke
<1>5. Candidate(k) \in Nat /\ Candidate(k) >= k + 7
    BY <1>1, <1>4
<1> QED BY <1>5 DEF Factors

\* Between two candidates there are only multiples of 2, 3 and 5.
LEMMA NothingBetween ==
    ASSUME NEW k \in Nat
    PROVE  /\ Candidate(k + 1) = Candidate(k) + WheelIncrements[(k % 8) + 1]
           /\ \A e \in (Candidate(k) + 1)..(Candidate(k + 1) - 1) :
                  e % 2 = 0 \/ e % 3 = 0 \/ e % 5 = 0
<1> DEFINE q == k \div 8
           r == k % 8
<1>1. q \in Nat /\ r \in 0..7 /\ k = 8 * q + r
    OBVIOUS
<1>2. Candidate(k) = 30 * q + Spokes[r + 1]
    BY DEF Candidate
<1> HIDE DEF q, r
<1> SUFFICES /\ Candidate(k + 1) = Candidate(k) + WheelIncrements[r + 1]
             /\ \A e \in (Candidate(k) + 1)..(Candidate(k + 1) - 1) :
                    e % 2 = 0 \/ e % 3 = 0 \/ e % 5 = 0
    BY DEF r
<1>3. CASE r \in 0..6
    <2>1. (k + 1) \div 8 = q /\ (k + 1) % 8 = r + 1
        BY <1>1, <1>3
    <2>2. Candidate(k + 1) = 30 * q + Spokes[r + 2]
        BY <1>1, <2>1 DEF Candidate
    <2>3. Spokes[r + 2] = Spokes[r + 1] + WheelIncrements[r + 1] /\ Spokes[r + 1] \in Nat
          /\ WheelIncrements[r + 1] \in Nat
        BY <1>3 DEF Spokes, WheelIncrements
    <2>4. \A e \in (Candidate(k) + 1)..(Candidate(k + 1) - 1) :
              e % 2 = 0 \/ e % 3 = 0 \/ e % 5 = 0
        <3>1. CASE r = 0
            BY <1>1, <1>2, <2>2, <3>1 DEF Spokes
        <3>2. CASE r = 1
            BY <1>1, <1>2, <2>2, <3>2 DEF Spokes
        <3>3. CASE r = 2
            BY <1>1, <1>2, <2>2, <3>3 DEF Spokes
        <3>4. CASE r = 3
            BY <1>1, <1>2, <2>2, <3>4 DEF Spokes
        <3>5. CASE r = 4
            BY <1>1, <1>2, <2>2, <3>5 DEF Spokes
        <3>6. CASE r = 5
            BY <1>1, <1>2, <2>2, <3>6 DEF Spokes
        <3>7. CASE r = 6
            BY <1>1, <1>2, <2>2, <3>7 DEF Spokes
        <3> QED BY <1>3, <3>1, <3>2, <3>3, <3>4, <3>5, <3>6, <3>7
    <2>5. Candidate(k + 1) = Candidate(k) + WheelIncrements[r + 1]
        BY <1>1, <1>2, <2>2, <2>3
    <2> QED BY <2>4, <2>5
<1>4. CASE r = 7
    <2>1. (k + 1) \div 8 = q + 1 /\ (k + 1) % 8 = 0
        BY <1>1, <1>4
    <2>2. Candidate(k) = 30 * q + 31 /\ Candidate(k + 1) = 30 * (q + 1) + 7
        BY <1>2, <1>4, <2>1 DEF Candidate, Spokes
    <2>3. WheelIncrements[r + 1] = 6
        BY <1>4 DEF WheelIncrements
    <2>4. \A e \in (30 * q + 32)..(30 * q + 36) : e % 2 = 0 \/ e % 3 = 0 \/ e % 5 = 0
        BY <1>1
    <2> QED BY <1>1, <2>2, <2>3, <2>4
<1> QED BY <1>1, <1>3, <1>4

\* No number from two up to c divides what is left.
Cleared(left, c) == \A e \in 2..(c - 1) : left.rest % e # 0

\* The candidate is prime when it divides: its divisors have been cleared.
LEMMA TurnKeeps ==
    ASSUME NEW n, NEW left \in Account(n, Primes), NEW c \in Factors, Cleared(left, c)
    PROVE  /\ DivideOut(left, c) \in Account(n, Primes)
           /\ Cleared(DivideOut(left, c), c + 1)
<1>1. left.rest \in Positive /\ left.rest \in Nat
    BY DEF Account, Positive
<1>2. ASSUME left.rest % c = 0 PROVE c \in Primes
    <2>1. PICK p \in Divisors(c) : p \in Primes
        BY PrimeDivisor
    <2>2. p \in 2..c /\ p \in Positive /\ c \in Positive /\ c % p = 0 /\ c \in Nat
        BY DEF Divisors, Positive, Factors
    <2>3. p \in Divisors(left.rest)
        BY <1>1, <1>2, <2>1, <2>2, DivisorsOfDivisor
    <2>4. left.rest % p = 0
        BY <2>3 DEF Divisors
    <2>5. p = c
        BY <2>2, <2>4 DEF Cleared
    <2> QED BY <2>1, <2>5
<1> DEFINE after == DivideOut(left, c)
<1>3. after \in Account(n, Primes)
    BY <1>2, DivideOutPrimes
<1>4. left \in Account(n, Factors)
    <2>1. Seq(Primes) \subseteq Seq(Factors)
        BY PrimesAreFactors, SeqMonotonic
    <2> QED BY <2>1 DEF Account
<1>5. after.rest % c # 0 /\ \E q \in Nat : left.rest = q * after.rest
    <2>1. Factors \in SUBSET Nat
        BY DEF Factors
    <2> QED BY <1>4, <2>1, DivideOutKeeps
<1> HIDE DEF after
<1>6. PICK q \in Nat : left.rest = q * after.rest
    BY <1>5
<1>7. ASSUME NEW e \in 2..c PROVE after.rest % e # 0
    <2>1. CASE e = c
        BY <1>5, <2>1
    <2>2. CASE e # c
        <3>1. e \in 2..(c - 1) /\ e \in Positive
            BY <2>2 DEF Factors, Positive
        <3>2. left.rest % e # 0
            BY <3>1 DEF Cleared
        <3>3. after.rest \in Nat
            BY <1>3 DEF Account, Positive
        <3> QED BY <1>6, <3>1, <3>2, <3>3, DivisionPasses
    <2> QED BY <2>1, <2>2
<1>8. Cleared(after, c + 1)
    <2>1. (c + 1) - 1 = c
        BY DEF Factors
    <2> QED BY <1>7, <2>1 DEF Cleared
<1> QED BY <1>3, <1>8 DEF after

\* Multiples of 2, 3 and 5 need no turn of their own.
LEMMA ClearedFurther ==
    ASSUME NEW left, left.rest \in Positive, NEW c \in Nat, c >= 7, Cleared(left, c + 1),
           NEW d \in Nat, \A e \in (c + 1)..(d - 1) : e % 2 = 0 \/ e % 3 = 0 \/ e % 5 = 0
    PROVE  Cleared(left, d)
<1> DEFINE r == left.rest
<1>1. r \in Nat /\ r \in Positive
    BY DEF Positive
<1>2. \A e \in 2..c : r % e # 0
    <2>1. (c + 1) - 1 = c
        OBVIOUS
    <2> QED BY <2>1 DEF Cleared
<1> HIDE DEF r
<1> SUFFICES ASSUME NEW e \in 2..(d - 1) PROVE r % e # 0
    BY DEF Cleared, r
<1>3. CASE e <= c
    BY <1>2, <1>3
<1>4. CASE ~(e <= c)
    <2>1. e \in (c + 1)..(d - 1) /\ e \in Nat /\ e \in Positive
        BY <1>4 DEF Positive
    <2>2. PICK f \in {2, 3, 5} : e % f = 0
        BY <2>1
    <2>3. f \in 2..c /\ f \in Positive
        BY DEF Positive
    <2>4. ASSUME r % e = 0 PROVE r % f = 0
        <3>1. r = (r \div e) * e /\ r \div e \in Nat
            BY <1>1, <2>1, <2>4
        <3> QED BY <2>1, <2>2, <2>3, <3>1, DivisionPasses
    <2> QED BY <1>2, <2>3, <2>4
<1> QED BY <1>3, <1>4

\* The wheel divides out primes only, and stops: then no number from two up
\* to a candidate that makes it stop divides what it leaves.
LEMMA WheelProperties ==
    ASSUME FactoringAssumption, NEW n, NEW left \in Account(n, Primes),
           left.rest % 2 # 0, left.rest % 3 # 0, left.rest % 5 # 0
    PROVE  /\ Wheel(left) \in Account(n, Primes)
           /\ \E c \in Factors :
                  /\ Cleared(Wheel(left), c)
                  /\ c * c > Wheel(left).rest \/ c >= WHEEL_LIMIT
<1> DEFINE V == [candidate : Factors, left : Account(n, Factors)]
           D == Nat
           m == [k \in D |-> k]
           turn[k \in Nat] ==
               IF k = 0 THEN [candidate |-> 7, left |-> left]
               ELSE IF WheelStops(turn[k - 1]) THEN turn[k - 1]
               ELSE [candidate |-> turn[k - 1].candidate + WheelIncrements[((k - 1) % 8) + 1],
                     left |-> DivideOut(turn[k - 1].left, turn[k - 1].candidate)]
           step(k, g) ==
               IF k = 0 THEN [candidate |-> 7, left |-> left]
               ELSE IF WheelStops(g[k - 1]) THEN g[k - 1]
               ELSE [candidate |-> g[k - 1].candidate + WheelIncrements[((k - 1) % 8) + 1],
                     left |-> DivideOut(g[k - 1].left, g[k - 1].candidate)]
           F == [g \in [D -> V] |-> [k \in D |-> step(k, g)]]
           end == CHOOSE k \in 0..WHEEL_LIMIT : WheelStops(turn[k])
<1>1. Wheel(left) = turn[end].left
    BY DEF Wheel
<1> HIDE DEF turn
<1>2. Factors \in SUBSET Nat /\ 7 \in Factors
    BY DEF Factors
<1>3. [candidate |-> 7, left |-> left] \in V
    <2>1. Seq(Primes) \subseteq Seq(Factors)
        BY PrimesAreFactors, SeqMonotonic
    <2>2. left \in Account(n, Factors)
        BY <2>1 DEF Account
    <2> QED BY <1>2, <2>2
<1>4. ASSUME NEW g \in [D -> V], NEW k \in D PROVE step(k, g) \in V
    <2>1. CASE k = 0
        BY <1>3, <2>1
    <2>2. CASE k # 0
        <3>1. k - 1 \in D /\ g[k - 1] \in V
            BY <2>2
        <3> DEFINE c == g[k - 1].candidate
                   i == WheelIncrements[((k - 1) % 8) + 1]
        <3>2. c \in Factors /\ g[k - 1].left \in Account(n, Factors)
            BY <3>1
        <3>3. i \in Nat
            <4>1. (k - 1) % 8 \in 0..7
                BY <3>1
            <4>2. \A r \in 0..7 : WheelIncrements[r + 1] \in Nat
                BY DEF WheelIncrements
            <4> QED BY <4>1, <4>2
        <3> HIDE DEF c, i, V
        <3>4. c + i \in Factors
            BY <3>2, <3>3 DEF Factors
        <3>5. DivideOut(g[k - 1].left, c) \in Account(n, Factors)
            BY <1>2, <3>2, DivideOutKeeps
        <3>6. [candidate |-> c + i, left |-> DivideOut(g[k - 1].left, c)] \in V
            BY <3>4, <3>5 DEF V
        <3> QED BY <2>2, <3>1, <3>6 DEF c, i
    <2> QED BY <2>1, <2>2
<1>5. ASSUME NEW g \in [D -> V], NEW h \in [D -> V], NEW k \in D,
             \A j \in D : m[j] < m[k] => g[j] = h[j]
      PROVE  step(k, g) = step(k, h)
    <2>1. CASE k = 0
        BY <2>1
    <2>2. CASE k # 0
        <3>1. k - 1 \in D /\ m[k - 1] < m[k]
            BY <2>2
        <3>2. g[k - 1] = h[k - 1]
            BY <1>5, <3>1
        <3> QED BY <2>2, <3>2
    <2> QED BY <2>1, <2>2
<1>6. PICK g \in [D -> V] : g = F[g]
    <2> HIDE DEF step
    <2>1. F \in [[D -> V] -> [D -> V]]
        BY <1>4
    <2>2. \A g, h \in [D -> V] : \A k \in D :
              (\A j \in D : m[j] < m[k] => g[j] = h[j]) => F[g][k] = F[h][k]
        BY <1>5
    <2>3. m \in [D -> Nat]
        OBVIOUS
    <2>4. V # {}
        <3> HIDE DEF V
        <3> QED BY <1>3
    <2> HIDE DEF F, D, V, m
    <2>5. Recursive(F, D, V, m)
        BY <2>1, <2>2, <2>3, <2>4 DEF Recursive
    <2> QED BY <2>5, RecursionExists
<1>7. g = [k \in Nat |->
               IF k = 0 THEN [candidate |-> 7, left |-> left]
               ELSE IF WheelStops(g[k - 1]) THEN g[k - 1]
               ELSE [candidate |-> g[k - 1].candidate + WheelIncrements[((k - 1) % 8) + 1],
                     left |-> DivideOut(g[k - 1].left, g[k - 1].candidate)]]
    BY <1>6
<1>8. turn = [k \in Nat |->
               IF k = 0 THEN [candidate |-> 7, left |-> left]
               ELSE IF WheelStops(turn[k - 1]) THEN turn[k - 1]
               ELSE [candidate |-> turn[k - 1].candidate + WheelIncrements[((k - 1) % 8) + 1],
                     left |-> DivideOut(turn[k - 1].left, turn[k - 1].candidate)]]
    BY <1>7 DEF turn
<1>9. \A k \in Nat : turn[k] = step(k, turn)
    BY <1>8
<1> DEFINE G == {k \in D :
                   /\ turn[k].left \in Account(n, Primes)
                   /\ turn[k].candidate \in Factors
                   /\ Cleared(turn[k].left, turn[k].candidate)
                   /\ WheelStops(turn[k]) \/ turn[k].candidate = Candidate(k)}
<1>10. ASSUME NEW k \in D, \A j \in D : m[j] < m[k] => j \in G PROVE k \in G
    <2>1. CASE k = 0
        <3>1. turn[k] = [candidate |-> 7, left |-> left]
            BY <1>9, <2>1
        <3>2. Candidate(k) = 7
            <4>1. 0 \div 8 = 0 /\ 0 % 8 = 0
                OBVIOUS
            <4> QED BY <2>1, <4>1 DEF Candidate, Spokes
        <3>3. left.rest \in Nat
            BY DEF Account, Positive
        <3>4. Cleared(left, 7)
            <4> SUFFICES ASSUME NEW e \in 2..6 PROVE left.rest % e # 0
                BY DEF Cleared
            <4>1. e = 2 \/ e = 3 \/ e = 4 \/ e = 5 \/ e = 6
                OBVIOUS
            <4>2. left.rest % 4 # 0 /\ left.rest % 6 # 0
                BY <3>3
            <4> QED BY <4>1, <4>2
        <3> QED BY <1>2, <3>1, <3>2, <3>4
    <2>2. CASE k # 0
        <3> DEFINE j == k - 1
                   old == turn[j]
                   new == turn[k]
        <3>1. j \in D /\ m[j] < m[k] /\ k = j + 1
            BY <2>2
        <3>2. j \in G
            BY <1>10, <3>1
        <3>3. /\ old.left \in Account(n, Primes) /\ old.candidate \in Factors
              /\ Cleared(old.left, old.candidate)
              /\ WheelStops(old) \/ old.candidate = Candidate(j)
            BY <3>2
        <3>4. IF WheelStops(old) THEN new = old
              ELSE new = [candidate |-> old.candidate + WheelIncrements[(j % 8) + 1],
                          left |-> DivideOut(old.left, old.candidate)]
            BY <1>9, <2>2
        <3> HIDE DEF j, old, m
        <3>5. CASE WheelStops(old)
            BY <3>3, <3>4, <3>5
        <3>6. CASE ~WheelStops(old)
            <4> DEFINE c == old.candidate
                       after == DivideOut(old.left, c)
            <4>1. /\ c = Candidate(j) /\ c \in Factors
                  /\ new = [candidate |-> c + WheelIncrements[(j % 8) + 1], left |-> after]
                BY <3>3, <3>4, <3>6
            <4>2. after \in Account(n, Primes) /\ Cleared(after, c + 1)
                BY <3>3, TurnKeeps
            <4> HIDE DEF c, after, new
            <4>3. /\ Candidate(k) = c + WheelIncrements[(j % 8) + 1]
                  /\ \A e \in (c + 1)..(Candidate(k) - 1) : e % 2 = 0 \/ e % 3 = 0 \/ e % 5 = 0
                BY <3>1, <4>1, NothingBetween
            <4>4. Candidate(k) \in Factors /\ c \in Nat /\ Candidate(k) \in Nat /\ c >= 7
                <5>1. Candidate(j) \in Factors /\ Candidate(k) \in Factors
                    BY <3>1, CandidateType
                <5>2. Candidate(j) >= 7
                    BY <3>1, CandidateType
                <5> QED BY <4>1, <5>1, <5>2 DEF Factors
            <4>5. Cleared(after, Candidate(k))
                <5>1. after.rest \in Positive
                    BY <4>2 DEF Account
                <5> QED BY <4>2, <4>3, <4>4, <5>1, ClearedFurther
            <4>6. turn[k].left = after /\ turn[k].candidate = Candidate(k)
                BY <4>1, <4>3 DEF new
            <4> QED
                <5> HIDE DEF V
                <5> QED BY <4>2, <4>4, <4>5, <4>6
        <3> QED BY <3>5, <3>6
    <2> QED BY <2>1, <2>2
<1>11. D \subseteq G
    <2>1. m \in [D -> Nat]
        OBVIOUS
    <2> HIDE DEF D, G, m
    <2> QED BY <1>10, <2>1, MeasureInduction
<1>12. end \in 0..WHEEL_LIMIT /\ WheelStops(turn[end])
    <2>1. WHEEL_LIMIT \in D /\ WHEEL_LIMIT \in 0..WHEEL_LIMIT
        BY DEF FactoringAssumption
    <2>2. WHEEL_LIMIT \in G
        BY <1>11, <2>1
    <2>3. Candidate(WHEEL_LIMIT) > WHEEL_LIMIT /\ Candidate(WHEEL_LIMIT) \in Nat
        BY <2>1, CandidateType DEF Factors
    <2>4. WheelStops(turn[WHEEL_LIMIT])
        BY <2>1, <2>2, <2>3 DEF WheelStops
    <2> QED BY <2>1, <2>4
<1>13. end \in G
    BY <1>11, <1>12
<1> HIDE DEF end
<1>14. /\ turn[end].left \in Account(n, Primes)
       /\ turn[end].candidate \in Factors
       /\ Cleared(turn[end].left, turn[end].candidate)
    BY <1>13
<1> QED BY <1>1, <1>12, <1>14 DEF WheelStops

-----------------------------------------------------------------------------
(* Pollard's rho.                                                          *)

LEMMA ProperDivisor ==
    ASSUME NEW m \in Positive, NEW d \in Divisors(m) \ {m}
    PROVE  /\ d \in Factors /\ d \in Positive /\ d < m
           /\ m \div d \in Positive /\ m \div d < m /\ d * (m \div d) = m
           /\ Divisors(d) \subseteq Divisors(m) /\ Divisors(m \div d) \subseteq Divisors(m)
<1>1. d \in Factors /\ d \in Positive /\ d < m /\ m % d = 0
    BY DEF Divisors, Factors, Positive
<1>2. m \div d \in Positive /\ m \div d < m /\ d * (m \div d) = m
    BY <1>1, DivisionShrinks
<1>3. m % (m \div d) = 0
    <2> DEFINE q == m \div d
    <2>1. q \in Positive /\ d \in Nat /\ q * d = m
        BY <1>1, <1>2 DEF Positive
    <2> HIDE DEF q
    <2>2. m % q = 0
        BY <2>1, MultipleDivides
    <2> QED BY <2>2 DEF q
<1> QED BY <1>1, <1>2, <1>3, DivisorsOfDivisor

LEMMA JoinedMember ==
    ASSUME NEW A, NEW B, NEW s
    PROVE  s \in Joined(A, B) <=> \E a \in A : \E b \in B : s = a \o b
BY DEF Joined

LEMMA SplitInTwoMember ==
    ASSUME NEW m, NEW lists, NEW s
    PROVE  s \in SplitInTwo(m, lists) <=>
               \E d \in Divisors(m) \ {m} : s \in Joined(lists[m \div d], lists[d])
BY DEF SplitInTwo

LEMMA PollardSplitsStep ==
    \A m \in Positive :
        PollardSplits[m] =
            IF m = 1 THEN {<<>>}
            ELSE {<<m>>} \cup SplitInTwo(m, PollardSplits)
<1> DEFINE D == Nat \ {0}
           V == SUBSET Seq(Nat)
           m == [x \in D |-> x]
           step(x, g) == IF x = 1 THEN {<<>>} ELSE {<<x>>} \cup SplitInTwo(x, g)
           F == [g \in [D -> V] |-> [x \in D |-> step(x, g)]]
<1>1. \A x \in D : \A d \in Divisors(x) \ {x} : d \in D /\ d < x /\ x \div d \in D /\ x \div d < x
    BY ProperDivisor DEF Positive
<1>2. ASSUME NEW g \in [D -> V], NEW x \in D PROVE step(x, g) \in V
    <2>1. ASSUME NEW d \in Divisors(x) \ {x} PROVE Joined(g[x \div d], g[d]) \in V
        <3>1. g[x \div d] \in V /\ g[d] \in V
            BY <1>1
        <3>2. ASSUME NEW s \in Joined(g[x \div d], g[d]) PROVE s \in Seq(Nat)
            <4>1. PICK a \in g[x \div d], b \in g[d] : s = a \o b
                BY JoinedMember
            <4>2. a \in Seq(Nat) /\ b \in Seq(Nat)
                BY <3>1
            <4> QED BY <4>1, <4>2, ConcatProperties
        <3> QED BY <3>2
    <2>2. SplitInTwo(x, g) \in V
        BY <2>1, SplitInTwoMember
    <2>3. <<>> \in Seq(Nat) /\ <<x>> \in Seq(Nat)
        OBVIOUS
    <2> QED BY <2>2, <2>3
<1>3. ASSUME NEW g \in [D -> V], NEW h \in [D -> V], NEW x \in D,
             \A y \in D : m[y] < m[x] => g[y] = h[y]
      PROVE  step(x, g) = step(x, h)
    <2>1. \A d \in Divisors(x) \ {x} : g[d] = h[d] /\ g[x \div d] = h[x \div d]
        BY <1>1, <1>3
    <2>2. \A d \in Divisors(x) \ {x} : Joined(g[x \div d], g[d]) = Joined(h[x \div d], h[d])
        BY <2>1
    <2>3. \A s : s \in SplitInTwo(x, g) <=> s \in SplitInTwo(x, h)
        BY <2>2, SplitInTwoMember
    <2>4. SplitInTwo(x, g) = SplitInTwo(x, h)
        BY <2>3
    <2> QED BY <2>4
<1>4. PICK g \in [D -> V] : g = F[g]
    <2> HIDE DEF step
    <2>1. F \in [[D -> V] -> [D -> V]]
        BY <1>2
    <2>2. \A g, h \in [D -> V] : \A x \in D :
              (\A y \in D : m[y] < m[x] => g[y] = h[y]) => F[g][x] = F[h][x]
        BY <1>3
    <2>3. m \in [D -> Nat] /\ V # {}
        OBVIOUS
    <2> HIDE DEF F, D, V, m
    <2>4. Recursive(F, D, V, m)
        BY <2>1, <2>2, <2>3 DEF Recursive
    <2> QED BY <2>4, RecursionExists
<1>5. g = [x \in Nat \ {0} |->
               IF x = 1 THEN {<<>>}
               ELSE {<<x>>} \cup SplitInTwo(x, g)]
    BY <1>4
<1>6. PollardSplits = [x \in Nat \ {0} |->
               IF x = 1 THEN {<<>>}
               ELSE {<<x>>} \cup SplitInTwo(x, PollardSplits)]
    BY <1>5 DEF PollardSplits
<1> QED BY <1>6 DEF Positive

\* However the stack is worked off, it leaves divisors whose product is m.
LEMMA PollardSplitsProperties ==
    ASSUME NEW m \in Positive
    PROVE  /\ PollardSplits[m] # {}
           /\ \A a \in PollardSplits[m] : a \in Seq(Divisors(m)) /\ Product[a] = m
<1> DEFINE size == [x \in Positive |-> x]
           T == {x \in Positive :
                    /\ PollardSplits[x] # {}
                    /\ \A a \in PollardSplits[x] : a \in Seq(Divisors(x)) /\ Product[a] = x}
<1>1. ASSUME NEW x \in Positive, \A y \in Positive : size[y] < size[x] => y \in T
      PROVE  x \in T
    <2>1. CASE x = 1
        <3>1. PollardSplits[x] = {<<>>}
            BY <2>1, PollardSplitsStep
        <3>2. <<>> \in Seq(Divisors(x))
            OBVIOUS
        <3> QED BY <2>1, <3>1, <3>2, EmptyProduct
    <2>2. CASE x # 1
        <3>1. PollardSplits[x] = {<<x>>} \cup SplitInTwo(x, PollardSplits)
            BY <2>2, PollardSplitsStep
        <3>2. <<x>> \in Seq(Divisors(x)) /\ Product[<<x>>] = x
            <4>1. x \in Divisors(x) /\ x \in Nat
                BY <2>2 DEF Divisors, Positive
            <4> QED BY <4>1, ProductOfOne
        <3>3. ASSUME NEW d \in Divisors(x) \ {x}, NEW s \in Joined(PollardSplits[x \div d], PollardSplits[d])
              PROVE  s \in Seq(Divisors(x)) /\ Product[s] = x
            <4> DEFINE e == x \div d
            <4>0. PICK b \in PollardSplits[e], a \in PollardSplits[d] : s = b \o a
                BY JoinedMember
            <4>1. /\ d \in Positive /\ d < x /\ e \in Positive /\ e < x /\ d * e = x
                  /\ Divisors(d) \subseteq Divisors(x) /\ Divisors(e) \subseteq Divisors(x)
                BY ProperDivisor
            <4>2. d \in T /\ e \in T
                BY <1>1, <4>1
            <4>3. /\ a \in Seq(Divisors(d)) /\ Product[a] = d
                  /\ b \in Seq(Divisors(e)) /\ Product[b] = e
                BY <4>2
            <4> HIDE DEF e, T
            <4>4. a \in Seq(Divisors(x)) /\ b \in Seq(Divisors(x))
                BY <4>1, <4>3, SeqMonotonic
            <4>5. a \in Seq(Nat) /\ b \in Seq(Nat)
                <5>1. Divisors(x) \subseteq Nat
                    BY DEF Divisors
                <5> QED BY <4>4, <5>1, SeqMonotonic
            <4>6. Product[b \o a] = e * d
                BY <4>3, <4>5, ProductOfConcat
            <4>7. e * d = d * e
                BY <4>1 DEF Positive
            <4>8. b \o a \in Seq(Divisors(x))
                BY <4>4, ConcatProperties
            <4> QED BY <4>0, <4>1, <4>6, <4>7, <4>8
        <3>4. ASSUME NEW a \in PollardSplits[x] PROVE a \in Seq(Divisors(x)) /\ Product[a] = x
            <4>1. CASE a = <<x>>
                BY <3>2, <4>1
            <4>2. CASE a # <<x>>
                <5>1. PICK d \in Divisors(x) \ {x} : a \in Joined(PollardSplits[x \div d], PollardSplits[d])
                    BY <3>1, <4>2, SplitInTwoMember
                <5> QED BY <3>3, <5>1
            <4> QED BY <4>1, <4>2
        <3>5. PollardSplits[x] # {}
            BY <3>1
        <3> QED BY <3>4, <3>5
    <2> QED BY <2>1, <2>2
<1>2. size \in [Positive -> Nat]
    BY DEF Positive
<1> HIDE DEF size, T
<1>3. Positive \subseteq T
    BY <1>1, <1>2, MeasureInduction
<1> QED BY <1>3 DEF T

-----------------------------------------------------------------------------
(* full_factorization and _build_complete_factorization.                   *)

\* Numbers with no divisor in reach of the wheel but themselves.
Roughs == {f \in Factors : \A d \in Divisors(f) : d = f \/ d >= WHEEL_LIMIT}

LEMMA PrimesAreRough == Primes \subseteq Roughs
<1> SUFFICES ASSUME NEW p \in Primes, NEW d \in Divisors(p) PROVE d = p
    BY PrimesAreFactors DEF Roughs
<1> QED BY DEF Primes, Prime, Divisors

LEMMA RoughsArePrime ==
    ASSUME FactoringAssumption, NEW f \in Roughs, f < WHEEL_LIMIT * WHEEL_LIMIT
    PROVE  f \in Primes
<1>1. f \in Factors /\ f \in Nat /\ f > 1 /\ f \in Positive /\ WHEEL_LIMIT \in Nat
    BY DEF Roughs, Factors, Positive, FactoringAssumption
<1>2. ASSUME NEW d \in 2..(f - 1), f % d = 0 PROVE FALSE
    <2> DEFINE e == f \div d
    <2>1. d \in Divisors(f) \ {f} /\ d \in Nat
        BY <1>1, <1>2 DEF Divisors
    <2>2. e \in Positive /\ e < f /\ d * e = f
        BY <1>1, <2>1, ProperDivisor
    <2> HIDE DEF e
    <2>3. e \in Nat /\ e > 1
        BY <1>1, <1>2, <2>1, <2>2 DEF Positive
    <2>4. f % e = 0
        <3>1. e * d = f
            BY <2>1, <2>2, <2>3
        <3> QED BY <2>1, <2>2, <3>1, MultipleDivides
    <2>5. e \in Divisors(f) \ {f}
        BY <1>1, <2>2, <2>3, <2>4, DivisorsAreDivisors
    <2>6. d >= WHEEL_LIMIT /\ e >= WHEEL_LIMIT
        BY <2>1, <2>2, <2>5 DEF Roughs
    <2>7. d * e >= WHEEL_LIMIT * WHEEL_LIMIT
        BY <1>1, <2>1, <2>3, <2>6, ProductGrows
    <2> QED BY <1>1, <2>2, <2>7
<1> QED BY <1>1, <1>2 DEF Primes, Prime

LEMMA WheelLeavesRoughs ==
    ASSUME FactoringAssumption, NEW left, left.rest \in Positive, NEW c \in Factors,
           Cleared(left, c), c * c > left.rest \/ c >= WHEEL_LIMIT
    PROVE  Divisors(left.rest) \subseteq Roughs
<1> DEFINE r == left.rest
<1>1. r \in Nat /\ r \in Positive /\ c \in Nat /\ WHEEL_LIMIT \in Nat /\ (c * c > r \/ c >= WHEEL_LIMIT)
    BY DEF Positive, Factors, FactoringAssumption
<1>2. ASSUME NEW d \in Divisors(r) PROVE d >= c
    <2>1. r % d = 0 /\ d \in Nat /\ d >= 2
        BY DEF Divisors
    <2> QED BY <1>1, <2>1 DEF Cleared
<1> HIDE DEF r
<1> SUFFICES ASSUME NEW f \in Divisors(r) PROVE f \in Roughs
    BY DEF r
<1>3. f \in Nat /\ f >= 2 /\ f <= r /\ f \in Positive /\ f \in Factors /\ r % f = 0
    BY DEF Divisors, Positive, Factors
<1>4. Divisors(f) \subseteq Divisors(r)
    BY <1>1, <1>3, DivisorsOfDivisor
<1>5. ASSUME NEW d \in Divisors(f), d # f PROVE d >= WHEEL_LIMIT
    <2> DEFINE e == f \div d
    <2>1. d \in Factors /\ d \in Nat /\ e \in Positive /\ e < f /\ d * e = f
        BY <1>3, <1>5, ProperDivisor DEF Factors
    <2> HIDE DEF e
    <2>2. e \in Nat /\ e > 1
        BY <1>3, <1>5, <2>1 DEF Positive
    <2>3. e \in Divisors(f)
        <3>1. e * d = f
            BY <2>1, <2>2
        <3>2. f % e = 0
            BY <2>1, <3>1, MultipleDivides
        <3> QED BY <1>3, <2>2, <3>2, DivisorsAreDivisors
    <2>4. d >= c /\ e >= c
        BY <1>2, <1>4, <2>3
    <2>5. d * e >= c * c
        BY <1>1, <2>1, <2>2, <2>4, ProductGrows
    <2> QED BY <1>1, <1>3, <2>1, <2>4, <2>5
<1> QED BY <1>3, <1>5 DEF Roughs

\* A number of a list divides the product of the list.
LEMMA MembersDivide ==
    ASSUME NEW s \in Seq(Factors)
    PROVE  \A i \in DOMAIN s : Product[s] % s[i] = 0
<1> DEFINE T == {t \in Seq(Factors) : \A i \in DOMAIN t : Product[t] % t[i] = 0}
<1>1. <<>> \in T
    <2>1. <<>> \in Seq(Factors)
        OBVIOUS
    <2> QED BY <2>1
<1>2. ASSUME NEW t \in Seq(Factors), t # <<>>, Tail(t) \in T PROVE t \in T
    <2> DEFINE h == Head(t)
               r == Tail(t)
    <2>1. /\ h \in Factors /\ r \in Seq(Factors) /\ t = <<h>> \o r
          /\ \A i \in DOMAIN r : Product[r] % r[i] = 0
        BY <1>2, ConsOfHeadTail
    <2> HIDE DEF h, r, T
    <2>2. h \in Nat /\ r \in Seq(Nat) /\ h \in Positive
        <3>1. Factors \subseteq Nat
            BY DEF Factors
        <3> QED BY <2>1, <3>1, SeqMonotonic DEF Factors, Positive
    <2>3. Product[t] = h * Product[r] /\ Product[r] \in Nat
        BY <2>1, <2>2, ProductOfCons, ProductType
    <2>4. ASSUME NEW i \in DOMAIN t PROVE Product[t] % t[i] = 0
        <3>1. i \in 1..(Len(r) + 1) /\ t[i] = IF i = 1 THEN h ELSE r[i - 1]
            <4>1. Len(t) = Len(r) + 1
                BY <2>1, ConsProperties
            <4> QED BY <2>1, <4>1, ConsProperties
        <3>2. CASE i = 1
            BY <2>2, <2>3, <3>1, <3>2, MultipleDivides
        <3>3. CASE i # 1
            <4>1. i - 1 \in DOMAIN r
                BY <2>1, <3>1, <3>3
            <4>2. r[i - 1] \in Positive /\ Product[r] % r[i - 1] = 0
                BY <2>1, <4>1 DEF Factors, Positive
            <4> QED BY <2>2, <2>3, <3>1, <3>3, <4>2, DivisionPasses
        <3> QED BY <3>2, <3>3
    <2> QED BY <1>2, <2>4 DEF T
<1> HIDE DEF T
<1>3. Seq(Factors) \subseteq T
    BY <1>1, <1>2, ListInduction
<1> QED BY <1>3 DEF T

LEMMA WholeAccounts ==
    ASSUME NEW n \in Positive, NEW S
    PROVE  Whole(n) \in Account(n, S)
<1>1. <<>> \in Seq(S)
    OBVIOUS
<1>2. Product[<<>>] * n = n
    BY EmptyProduct DEF Positive
<1> QED BY <1>1, <1>2 DEF Whole, Account

LEMMA SmallPrimes == {2, 3, 5} \subseteq Primes /\ IsFiniteSet({2, 3, 5})
<1>1. {2, 3, 5} \subseteq Primes
    BY DEF Primes, Prime
<1> DEFINE two == {2}
           three == two \cup {3}
<1>2. IsFiniteSet(two)
    BY FS_Singleton
<1>3. IsFiniteSet(three)
    <2> HIDE DEF two
    <2> QED BY <1>2, FS_AddElement
<1>4. IsFiniteSet(three \cup {5})
    <2> HIDE DEF three
    <2> QED BY <1>3, FS_AddElement
<1>5. {2, 3, 5} = three \cup {5}
    OBVIOUS
<1> QED BY <1>1, <1>4, <1>5

\* What is left is worked off, and the whole sorted.
LEMMA AnswerFrom ==
    ASSUME NEW n, NEW S \in SUBSET Nat, NEW left \in Account(n, S), NEW a \in Seq(S),
           Product[a] = left.rest
    PROVE  LET s == Sorted[left.factors \o a]
           IN  s \in Seq(S) /\ Product[s] = n /\ Ascending(s)
<1>1. left.factors \in Seq(S) /\ Product[left.factors] * left.rest = n
    BY DEF Account
<1>2. left.factors \o a \in Seq(S)
    BY <1>1, ConcatProperties
<1>3. left.factors \in Seq(Nat) /\ a \in Seq(Nat)
    BY <1>1, SeqMonotonic
<1>4. Product[left.factors \o a] = n
    BY <1>1, <1>3, ProductOfConcat
<1> QED BY <1>2, <1>4, SortedProperties

\* full_factorization returns the factors of n in ascending order, and none
\* that has a divisor in reach of the wheel.
LEMMA FullFactorizationProperties ==
    ASSUME FactoringAssumption, NEW n \in Factors
    PROVE  /\ FullFactorization(n) # {}
           /\ \A s \in FullFactorization(n) :
                  s \in Seq(Roughs) /\ Product[s] = n /\ Ascending(s)
<1> DEFINE small == DivideByAll(Whole(n), {2, 3, 5})
           left == Wheel(small)
<1>1. n \in Positive /\ ~(n < 2)
    BY DEF Factors, Positive
<1>2. /\ small \in Account(n, Primes)
      /\ \A c \in {2, 3, 5} : small.rest % c # 0
    <2>1. Primes \in SUBSET Nat /\ {2, 3, 5} \in SUBSET (Primes \cap Factors)
        BY SmallPrimes, PrimesAreFactors
    <2> QED BY <1>1, <2>1, SmallPrimes, WholeAccounts, DivideByAllKeeps
<1>3. FullFactorization(n) = {Sorted[left.factors \o a] : a \in PollardSplits[left.rest]}
    BY <1>1 DEF FullFactorization
<1> HIDE DEF small
<1>4. /\ left \in Account(n, Primes)
      /\ \E c \in Factors : Cleared(left, c) /\ (c * c > left.rest \/ c >= WHEEL_LIMIT)
    BY <1>2, WheelProperties
<1> HIDE DEF left
<1>5. left.rest \in Positive /\ Divisors(left.rest) \subseteq Roughs
    <2>1. left.rest \in Positive
        BY <1>4 DEF Account
    <2> QED BY <1>4, <2>1, WheelLeavesRoughs
<1>6. left \in Account(n, Roughs)
    <2>1. Seq(Primes) \subseteq Seq(Roughs)
        BY PrimesAreRough, SeqMonotonic
    <2> QED BY <1>4, <2>1 DEF Account
<1>7. FullFactorization(n) # {}
    <2>1. PollardSplits[left.rest] # {}
        BY <1>5, PollardSplitsProperties
    <2> QED BY <1>3, <2>1
<1>8. ASSUME NEW a \in PollardSplits[left.rest]
      PROVE  LET s == Sorted[left.factors \o a]
             IN  s \in Seq(Roughs) /\ Product[s] = n /\ Ascending(s)
    <2>1. a \in Seq(Roughs) /\ Product[a] = left.rest
        BY <1>5, PollardSplitsProperties, SeqMonotonic
    <2>2. Roughs \in SUBSET Nat
        BY DEF Roughs, Factors
    <2> QED BY <1>6, <2>1, <2>2, AnswerFrom
<1> QED BY <1>3, <1>7, <1>8

\* _build_complete_factorization returns numbers above one that make n, in
\* ascending order, whatever has been discovered; and rough ones when what
\* has been discovered holds the prime divisors of its members.
LEMMA BuildCompleteProperties ==
    ASSUME FactoringAssumption, NEW n \in Positive,
           NEW S \in SUBSET Factors, IsFiniteSet(S)
    PROVE  /\ BuildComplete(n, S) # {}
           /\ \A s \in BuildComplete(n, S) :
                  /\ s \in Seq(Factors) /\ Product[s] = n /\ Ascending(s)
                  /\ Closed(S) => s \in Seq(Roughs)
<1> DEFINE left == DivideByAll(Whole(n), S)
<1>1. left \in Account(n, Factors) /\ (Closed(S) => left \in Account(n, Primes))
    <2>1. Factors \in SUBSET Nat /\ S \in SUBSET (Factors \cap Factors)
        BY DEF Factors
    <2> QED BY <2>1, WholeAccounts, DivideByAllKeeps
<1>2. BuildComplete(n, S) = {Sorted[left.factors \o a] : a \in FullFactorization(left.rest)}
    BY DEF BuildComplete
<1> HIDE DEF left
<1>3. left.rest \in Positive
    BY <1>1 DEF Account
<1>4. /\ FullFactorization(left.rest) # {}
      /\ \A a \in FullFactorization(left.rest) : a \in Seq(Roughs) /\ Product[a] = left.rest
    <2>1. CASE left.rest = 1
        <3>1. FullFactorization(left.rest) = {<<>>}
            BY <2>1 DEF FullFactorization
        <3>2. <<>> \in Seq(Roughs)
            OBVIOUS
        <3> QED BY <2>1, <3>1, <3>2, EmptyProduct
    <2>2. CASE left.rest # 1
        <3>1. left.rest \in Factors
            BY <1>3, <2>2 DEF Factors, Positive
        <3> QED BY <3>1, FullFactorizationProperties
    <2> QED BY <2>1, <2>2
<1>5. Roughs \subseteq Factors /\ Roughs \in SUBSET Nat /\ Factors \in SUBSET Nat
    BY DEF Roughs, Factors
<1>6. ASSUME NEW a \in FullFactorization(left.rest)
      PROVE  LET s == Sorted[left.factors \o a]
             IN  /\ s \in Seq(Factors) /\ Product[s] = n /\ Ascending(s)
                 /\ Closed(S) => s \in Seq(Roughs)
    <2>1. a \in Seq(Roughs) /\ a \in Seq(Factors) /\ Product[a] = left.rest
        BY <1>4, <1>5, SeqMonotonic
    <2>2. ASSUME Closed(S) PROVE left \in Account(n, Roughs)
        <3>1. Seq(Primes) \subseteq Seq(Roughs)
            BY PrimesAreRough, SeqMonotonic
        <3> QED BY <1>1, <2>2, <3>1 DEF Account
    <2> QED BY <1>1, <1>5, <2>1, <2>2, AnswerFrom
<1> QED BY <1>2, <1>4, <1>6

=============================================================================
