----------------------------- MODULE FiniteFacts -----------------------------
(***************************************************************************)
(* Facts about finite sets: their least elements, sequences that have      *)
(* their elements in order, and the sum of a function over its domain.     *)
(***************************************************************************)
EXTENDS Integers, Sequences, FiniteSets, FiniteSetsExt, SequencesExt, FiniteSetTheorems, NaturalsInduction,
        WellFoundedInduction, TLAPS

-----------------------------------------------------------------------------
(* Numbers and finite sets. *)

\* A set of naturals that is not empty has a least element.
LEMMA LeastNatural ==
    ASSUME NEW S, S \subseteq Nat, S # {}
    PROVE  \E n \in S : \A m \in S : n <= m
<1>1. PICK n \in S : \A m \in S : ~(<<m, n>> \in OpToRel(<, Nat))
    <2>1. IsWellFoundedOn(OpToRel(<, Nat), Nat)
        BY NatLessThanWellFounded
    <2>2. QED BY <2>1, WFMin, Zenon
<1>2. SUFFICES ASSUME NEW m \in S PROVE n <= m
    BY <1>1
<1>3. n \in Nat /\ m \in Nat
    OBVIOUS
<1>4. ~(m < n)
    BY <1>1, <1>3 DEF OpToRel
<1>5. QED BY <1>3, <1>4

\* The numbers up to one are as many as it says.
LEMMA FirstNumbers ==
    ASSUME NEW n \in Nat
    PROVE  IsFiniteSet(1..n) /\ Cardinality(1..n) = n
<1> DEFINE one == 1
<1>1. one \in Int /\ n \in Int /\ one <= n + 1
    OBVIOUS
<1> HIDE DEF one
<1>2. IsFiniteSet(one..n) /\ Cardinality(one..n) = IF one > n THEN 0 ELSE n - one + 1
    BY <1>1, FS_Interval
<1>3. one = 1
    BY DEF one
<1>4. QED BY <1>2, <1>3

\* What holds at the first number of a range, and of the next one whenever it
\* holds of one, holds throughout.
LEMMA Upward ==
    ASSUME NEW m \in Int, NEW n \in Int, NEW Q, m \in Q,
           \A k \in m..(n - 1) : k \in Q => k + 1 \in Q
    PROVE  \A k \in m..n : k \in Q
<1> DEFINE bad == {d \in Nat : m + d <= n /\ m + d \notin Q}
<1>1. SUFFICES ASSUME NEW k \in m..n, k \notin Q PROVE FALSE
    OBVIOUS
<1>2. k - m \in bad
    <2>1. k - m \in Nat /\ m + (k - m) = k
        OBVIOUS
    <2> QED  BY <1>1, <2>1
<1>3. PICK d \in bad : \A e \in bad : d <= e
    <2>1. bad \subseteq Nat
        OBVIOUS
    <2> HIDE DEF bad
    <2> QED  BY <1>2, <2>1, LeastNatural
<1>4. d \in Nat /\ m + d <= n /\ m + d \notin Q /\ d # 0
    BY <1>3
<1>5. d - 1 \in Nat /\ d - 1 \notin bad
    BY <1>3, <1>4
<1>6. m + (d - 1) \in m..(n - 1) /\ m + (d - 1) \in Q /\ (m + (d - 1)) + 1 = m + d
    BY <1>4, <1>5
<1> DEFINE l == m + (d - 1)
<1>7. l \in m..(n - 1) /\ l \in Q /\ l + 1 = m + d
    BY <1>6
<1> HIDE DEF l, bad
<1> QED  BY <1>4, <1>7

\* The steps of a recursion over a range, and what it is that a step makes of
\* the value before.
Steps(m, n, S) == [((m + 1)..n) \X S -> S]
Iterates(f, m, n, S, z, step) ==
    /\ f \in [m..n -> S] /\ f[m] = z
    /\ \A k \in (m + 1)..n : f[k - 1] \in S /\ f[k] = step[<<k, f[k - 1]>>]

\* A recursion over a range, by a step that is a function, has a solution.
LEMMA Recursion ==
    ASSUME NEW m \in Int, NEW n \in Int, m <= n, NEW S, NEW z \in S, NEW step \in Steps(m, n, S)
    PROVE  \E f : Iterates(f, m, n, S, z, step)
<1> USE DEF Steps
<1> DEFINE Solves(f, l) == /\ f \in [m..l -> S] /\ f[m] = z
                           /\ \A k \in (m + 1)..l : f[k] = step[<<k, f[k - 1]>>]
           Q == {l \in m..n : \E f : Solves(f, l)}
<1>1. m \in Q
    <2> DEFINE f == [k \in m..m |-> z]
    <2>1. Solves(f, m)
        OBVIOUS
    <2> HIDE DEF f
    <2> QED  BY <2>1
<1>2. ASSUME NEW l \in m..(n - 1), l \in Q
      PROVE  l + 1 \in Q
    <2>1. PICK f : Solves(f, l)
        BY <1>2
    <2> DEFINE g == [k \in m..(l + 1) |-> IF k = l + 1 THEN step[<<l + 1, f[l]>>] ELSE f[k]]
    <2>2. f[l] \in S /\ step[<<l + 1, f[l]>>] \in S
        BY <2>1
    <2>3. g \in [m..(l + 1) -> S] /\ g[m] = z
        BY <2>1, <2>2
    <2>4. \A k \in (m + 1)..(l + 1) : g[k] = step[<<k, g[k - 1]>>]
        <3> SUFFICES ASSUME NEW k \in (m + 1)..(l + 1) PROVE g[k] = step[<<k, g[k - 1]>>]
            OBVIOUS
        <3>1. CASE k = l + 1
            <4>1. k - 1 = l /\ k - 1 \in m..(l + 1) /\ k - 1 # l + 1
                BY <3>1
            <4>2. g[k - 1] = f[l]
                BY <4>1
            <4>3. g[k] = step[<<l + 1, f[l]>>]
                BY <3>1
            <4> HIDE DEF g
            <4> QED  BY <3>1, <4>2, <4>3
        <3>2. CASE k # l + 1
            <4>1. k \in (m + 1)..l /\ k - 1 \in m..l
                BY <3>2
            <4>2. g[k] = f[k] /\ g[k - 1] = f[k - 1]
                BY <4>1
            <4> QED  BY <2>1, <4>1, <4>2
        <3> QED  BY <3>1, <3>2
    <2> HIDE DEF g
    <2>5. Solves(g, l + 1) /\ l + 1 \in m..n
        BY <2>3, <2>4
    <2> HIDE DEF Solves
    <2> QED  BY <2>5
<1>3. n \in Q
    <2> HIDE DEF Q
    <2>1. \A k \in m..n : k \in Q
        BY <1>1, <1>2, Upward
    <2> QED  BY <2>1
<1>4. PICK f : Solves(f, n)
    BY <1>3
<1>5. \A k \in (m + 1)..n : f[k - 1] \in S
    BY <1>4
<1> QED  BY <1>4, <1>5 DEF Iterates

\* Among sets that are finite, one is a smallest.
LEMMA SmallestOf ==
    ASSUME NEW family, family # {}, \A S \in family : IsFiniteSet(S)
    PROVE  \E S \in family : \A T \in family : Cardinality(S) <= Cardinality(T)
<1> DEFINE sizes == {Cardinality(S) : S \in family}
<1>1. sizes \subseteq Nat /\ sizes # {}
    BY FS_CardinalityType
<1>2. PICK n \in sizes : \A m \in sizes : n <= m
    <2> HIDE DEF sizes
    <2> QED BY <1>1, LeastNatural
<1>3. QED BY <1>2

\* A finite set has a first element under an order that is total on it.  An
\* order is given by its pairs.
LEMMA FirstElement ==
    ASSUME NEW S, IsFiniteSet(S), S # {}, NEW before,
           \A x, y \in S : <<x, y>> \in before \/ <<y, x>> \in before,
           \A x, y, z \in S : <<x, y>> \in before /\ <<y, z>> \in before => <<x, z>> \in before
    PROVE  \E x \in S : \A y \in S : <<x, y>> \in before
<1> DEFINE downTo(x) == {y \in S : <<y, x>> \in before}
           family == {downTo(x) : x \in S}
<1>1. \A T \in family : IsFiniteSet(T)
    BY FS_Subset
<1>2. family # {}
    <2>1. PICK x \in S : TRUE
        OBVIOUS
    <2> HIDE DEF downTo
    <2>2. downTo(x) \in family
        OBVIOUS
    <2>3. QED BY <2>2
<1>3. PICK T \in family : \A U \in family : Cardinality(T) <= Cardinality(U)
    <2> HIDE DEF family
    <2> QED BY <1>1, <1>2, SmallestOf
<1>4. PICK x \in S : T = downTo(x)
    OBVIOUS
<1>5. SUFFICES ASSUME NEW y \in S, ~(<<x, y>> \in before) PROVE FALSE
    OBVIOUS
<1>6. downTo(y) \subseteq downTo(x) /\ x \in downTo(x) /\ x \notin downTo(y)
    BY <1>5
<1>7. Cardinality(downTo(y)) <= Cardinality(downTo(x)) /\ Cardinality(downTo(y)) # Cardinality(downTo(x))
    <2>1. IsFiniteSet(downTo(x))
        BY FS_Subset
    <2> HIDE DEF downTo
    <2> QED BY <1>6, <2>1, FS_Subset
<1>8. Cardinality(downTo(x)) <= Cardinality(downTo(y))
    BY <1>3, <1>4
<1>9. Cardinality(downTo(x)) \in Nat /\ Cardinality(downTo(y)) \in Nat
    BY <1>1, FS_CardinalityType
<1>10. QED BY <1>7, <1>8, <1>9

\* The least of a finite set of integers is one of them.
LEMMA MinIs ==
    ASSUME NEW S, S \subseteq Int, IsFiniteSet(S), S # {}
    PROVE  Min(S) \in S /\ \A m \in S : Min(S) <= m
<1> DEFINE before == {p \in Int \X Int : p[1] <= p[2]}
<1>1. \A x, y \in S : <<x, y>> \in before <=> x <= y
    OBVIOUS
<1> HIDE DEF before
<1>2. \A x, y \in S : <<x, y>> \in before \/ <<y, x>> \in before
    <2> SUFFICES ASSUME NEW x \in S, NEW y \in S PROVE <<x, y>> \in before \/ <<y, x>> \in before
        OBVIOUS
    <2>1. x <= y \/ y <= x
        OBVIOUS
    <2>2. QED BY <1>1, <2>1
<1>3. \A x, y, z \in S : <<x, y>> \in before /\ <<y, z>> \in before => <<x, z>> \in before
    <2> SUFFICES ASSUME NEW x \in S, NEW y \in S, NEW z \in S, <<x, y>> \in before, <<y, z>> \in before
                 PROVE  <<x, z>> \in before
        OBVIOUS
    <2>1. x <= y /\ y <= z
        BY <1>1
    <2>2. x <= z
        BY <2>1
    <2>3. QED BY <1>1, <2>2
<1>4. PICK x \in S : \A y \in S : <<x, y>> \in before
    BY <1>2, <1>3, FirstElement
<1>5. \A y \in S : x <= y
    BY <1>1, <1>4
<1>6. QED BY <1>5 DEF Min

\* And the greatest.
LEMMA MaxIs ==
    ASSUME NEW S, S \subseteq Int, IsFiniteSet(S), S # {}
    PROVE  Max(S) \in S /\ \A m \in S : Max(S) >= m
<1> DEFINE before == {p \in Int \X Int : p[1] >= p[2]}
<1>1. \A x, y \in S : <<x, y>> \in before <=> x >= y
    OBVIOUS
<1> HIDE DEF before
<1>2. \A x, y \in S : <<x, y>> \in before \/ <<y, x>> \in before
    <2> SUFFICES ASSUME NEW x \in S, NEW y \in S PROVE <<x, y>> \in before \/ <<y, x>> \in before
        OBVIOUS
    <2>1. x >= y \/ y >= x
        OBVIOUS
    <2>2. QED BY <1>1, <2>1
<1>3. \A x, y, z \in S : <<x, y>> \in before /\ <<y, z>> \in before => <<x, z>> \in before
    <2> SUFFICES ASSUME NEW x \in S, NEW y \in S, NEW z \in S, <<x, y>> \in before, <<y, z>> \in before
                 PROVE  <<x, z>> \in before
        OBVIOUS
    <2>1. x >= y /\ y >= z
        BY <1>1
    <2>2. x >= z
        BY <2>1
    <2>3. QED BY <1>1, <2>2
<1>4. PICK x \in S : \A y \in S : <<x, y>> \in before
    BY <1>2, <1>3, FirstElement
<1>5. \A y \in S : x >= y
    BY <1>1, <1>4
<1>6. QED BY <1>5 DEF Max

\* A finite set has a first element under an order by two measures, the larger
\* first, and then by the elements.
LEMMA FirstByMeasures ==
    ASSUME NEW S, S \subseteq Int, IsFiniteSet(S), S # {}, NEW P \in [S -> Nat], NEW D \in [S -> Nat]
    PROVE  \E v \in S : \A w \in S : \/ P[v] > P[w]
                                     \/ P[v] = P[w] /\ D[v] > D[w]
                                     \/ P[v] = P[w] /\ D[v] = D[w] /\ v <= w
<1> DEFINE first(v, w) == \/ P[v] > P[w]
                          \/ P[v] = P[w] /\ D[v] > D[w]
                          \/ P[v] = P[w] /\ D[v] = D[w] /\ v <= w
           before == {p \in S \X S : first(p[1], p[2])}
<1>1. \A v, w \in S : <<v, w>> \in before <=> first(v, w)
    OBVIOUS
<1>2. \A v, w \in S : first(v, w) \/ first(w, v)
    OBVIOUS
<1>3. \A u, v, w \in S : first(u, v) /\ first(v, w) => first(u, w)
    OBVIOUS
<1>4. \E v \in S : \A w \in S : <<v, w>> \in before
    <2> HIDE DEF before, first
    <2>1. \A v, w \in S : <<v, w>> \in before \/ <<w, v>> \in before
        BY <1>1, <1>2
    <2>2. \A u, v, w \in S : <<u, v>> \in before /\ <<v, w>> \in before => <<u, w>> \in before
        BY <1>1, <1>3
    <2>3. QED BY <2>1, <2>2, FirstElement
<1>5. \E v \in S : \A w \in S : first(v, w)
    <2> HIDE DEF before, first
    <2> QED BY <1>1, <1>4
<1>6. QED BY <1>5

\* A strict order, as a set of pairs, that compares any two elements of a set.
Orders(before, S) ==
    /\ \A x, y \in S : x = y \/ <<x, y>> \in before \/ <<y, x>> \in before
    /\ \A x, y, z \in S : <<x, y>> \in before /\ <<y, z>> \in before => <<x, z>> \in before
    /\ \A x \in S : <<x, x>> \notin before
InOrder(q, before) == \A i, k \in DOMAIN q : i < k => <<q[i], q[k]>> \in before

\* The elements of a finite set, put in a strict order that compares any two.
LEMMA SortedExists ==
    ASSUME NEW S, IsFiniteSet(S), NEW before, Orders(before, S)
    PROVE  \E q \in [1..Cardinality(S) -> S] : InOrder(q, before)
<1> DEFINE n == Cardinality(S)
           upTo(x) == {y \in S : y = x \/ <<y, x>> \in before}
           r == [x \in S |-> Cardinality(upTo(x))]
<1>1. n \in Nat
    BY FS_CardinalityType
<1>2. ASSUME NEW x \in S
      PROVE  IsFiniteSet(upTo(x)) /\ Cardinality(upTo(x)) \in 1..n
    <2>1. upTo(x) \in SUBSET S /\ x \in upTo(x)
        OBVIOUS
    <2> HIDE DEF upTo
    <2>2. IsFiniteSet(upTo(x)) /\ Cardinality(upTo(x)) <= n
        BY <2>1, FS_Subset
    <2>3. Cardinality(upTo(x)) \in Nat /\ Cardinality(upTo(x)) # 0
        BY <2>1, <2>2, FS_CardinalityType, FS_EmptySet
    <2>4. QED BY <1>1, <2>2, <2>3
<1>3. ASSUME NEW x \in S, NEW y \in S, <<x, y>> \in before
      PROVE  r[x] < r[y]
    <2>1. upTo(x) \subseteq upTo(y) /\ y \in upTo(y)
        BY <1>3 DEF Orders
    <2>2. y \notin upTo(x)
        BY <1>3 DEF Orders
    <2>3. IsFiniteSet(upTo(y)) /\ Cardinality(upTo(x)) \in 1..n /\ Cardinality(upTo(y)) \in 1..n
        BY <1>2
    <2>4. r[x] = Cardinality(upTo(x)) /\ r[y] = Cardinality(upTo(y))
        OBVIOUS
    <2> HIDE DEF upTo, r
    <2>5. Cardinality(upTo(x)) <= Cardinality(upTo(y)) /\ Cardinality(upTo(x)) # Cardinality(upTo(y))
        BY <2>1, <2>2, <2>3, FS_Subset
    <2>6. QED BY <2>3, <2>4, <2>5
<1>4. r \in [S -> 1..n]
    BY <1>2
<1> HIDE DEF r, upTo
<1>5. \A x, y \in S : r[x] = r[y] => x = y
    <2> SUFFICES ASSUME NEW x \in S, NEW y \in S, x # y PROVE r[x] # r[y]
        OBVIOUS
    <2>1. r[x] \in Int /\ r[y] \in Int
        BY <1>4
    <2>2. r[x] < r[y] \/ r[y] < r[x]
        BY <1>3 DEF Orders
    <2>3. QED BY <2>1, <2>2
<1>6. \A i \in 1..n : \E x \in S : r[x] = i
    <2>1. IsFiniteSet(1..n) /\ Cardinality(1..n) = n
        BY <1>1, FS_Interval
    <2>2. r \in Injection(S, 1..n)
        BY <1>4, <1>5 DEF Injection, IsInjective
    <2>3. r \in Surjection(S, 1..n)
        BY <2>1, <2>2, FS_Injection
    <2>4. QED BY <2>3 DEF Surjection
<1> DEFINE q == [i \in 1..n |-> CHOOSE x \in S : r[x] = i]
<1>7. q \in [1..n -> S] /\ \A i \in 1..n : r[q[i]] = i
    BY <1>6
<1> HIDE DEF q
<1>8. ASSUME NEW i \in 1..n, NEW k \in 1..n, i < k
      PROVE  <<q[i], q[k]>> \in before
    <2>1. q[i] \in S /\ q[k] \in S /\ r[q[i]] = i /\ r[q[k]] = k
        BY <1>7
    <2>2. q[i] # q[k]
        BY <1>8, <2>1
    <2>3. ~(<<q[k], q[i]>> \in before)
        BY <1>1, <1>3, <1>8, <2>1
    <2>4. QED BY <2>1, <2>2, <2>3 DEF Orders
<1>9. QED BY <1>7, <1>8 DEF InOrder

\* A sequence of as many elements in strict order names every element.
LEMMA SortedIsAll ==
    ASSUME NEW S, IsFiniteSet(S), NEW before, Orders(before, S),
           NEW q \in [1..Cardinality(S) -> S], InOrder(q, before)
    PROVE  /\ Len(q) = Cardinality(S) /\ Len(q) \in Nat
           /\ ToSet(q) = S
<1> DEFINE n == Cardinality(S)
<1>1. n \in Nat
    BY FS_CardinalityType
<1>2. Len(q) = n
    BY <1>1
<1>3. \A i, k \in 1..n : q[i] = q[k] => i = k
    <2> SUFFICES ASSUME NEW i \in 1..n, NEW k \in 1..n, q[i] = q[k], i # k PROVE FALSE
        OBVIOUS
    <2>1. i < k \/ k < i
        BY <1>1
    <2>2. q[i] \in S /\ DOMAIN q = 1..n
        OBVIOUS
    <2>3. QED BY <2>1, <2>2 DEF Orders, InOrder
<1>4. \A x \in S : \E i \in 1..n : q[i] = x
    <2>1. IsFiniteSet(1..n) /\ Cardinality(1..n) = n
        BY <1>1, FS_Interval
    <2>2. q \in Injection(1..n, S)
        BY <1>3 DEF Injection, IsInjective
    <2>3. q \in Surjection(1..n, S)
        BY <2>1, <2>2, FS_Injection
    <2>4. QED BY <2>3 DEF Surjection
<1>5. ToSet(q) = S
    BY <1>4 DEF ToSet
<1>6. QED BY <1>1, <1>2, <1>5

\* The elements that do not come after one of them.
NoLater(x, S, before) == {y \in S : y = x \/ <<y, x>> \in before}

\* The place of an element in such a sequence is the number of those that do
\* not come after it.
LEMMA PositionIs ==
    ASSUME NEW S, IsFiniteSet(S), NEW before, Orders(before, S),
           NEW q \in [1..Cardinality(S) -> S], InOrder(q, before), NEW p \in 1..Cardinality(S)
    PROVE  Cardinality(NoLater(q[p], S, before)) = p
<1> DEFINE n == Cardinality(S)
           upTo == {x \in S : x = q[p] \/ <<x, q[p]>> \in before}
           f == [i \in 1..p |-> q[i]]
<1>1. n \in Nat /\ p \in Nat /\ DOMAIN q = 1..n
    BY FS_CardinalityType
<1>2. \A i \in 1..n : q[i] \in S
    OBVIOUS
<1>3. \A x \in S : \E i \in 1..n : q[i] = x
    <2>1. ToSet(q) = S
        BY SortedIsAll
    <2>2. QED BY <1>1, <2>1 DEF ToSet
<1>4. \A i, k \in 1..n : i < k => <<q[i], q[k]>> \in before
    BY <1>1 DEF InOrder
<1> HIDE DEF n
<1>5. \A i \in 1..n : q[i] \in upTo <=> i <= p
    <2> TAKE i \in 1..n
    <2>1. i < p \/ i = p \/ p < i
        BY <1>1
    <2>2. p \in 1..n
        BY DEF n
    <2>3. CASE i < p
        BY <1>2, <1>4, <2>2, <2>3
    <2>4. CASE i = p
        BY <1>2, <2>4
    <2>5. CASE p < i
        <3>1. <<q[p], q[i]>> \in before
            BY <1>4, <2>2, <2>5
        <3>2. q[i] \notin upTo
            BY <1>2, <2>2, <3>1 DEF Orders
        <3>3. QED BY <1>1, <2>5, <3>2
    <2>6. QED BY <2>1, <2>3, <2>4, <2>5
<1>6. \A i \in 1..p : i \in 1..n /\ i <= p
    BY <1>1 DEF n
<1>7. f \in Bijection(1..p, upTo)
    <2>1. \A i \in 1..p : f[i] = q[i] /\ f[i] \in upTo
        BY <1>5, <1>6
    <2>2. \A i, k \in 1..p : f[i] = f[k] => i = k
        <3> SUFFICES ASSUME NEW i \in 1..p, NEW k \in 1..p, q[i] = q[k], i < k PROVE FALSE
            OBVIOUS
        <3>1. <<q[i], q[k]>> \in before /\ q[i] \in S
            BY <1>2, <1>4, <1>6
        <3>2. QED BY <3>1 DEF Orders
    <2>3. \A x \in upTo : \E i \in 1..p : f[i] = x
        <3> SUFFICES ASSUME NEW x \in upTo PROVE \E i \in 1..p : q[i] = x
            OBVIOUS
        <3>1. PICK i \in 1..n : q[i] = x
            BY <1>3
        <3>2. i <= p
            <4> HIDE DEF upTo
            <4>1. QED BY <1>5, <3>1
        <3>3. i \in 1..p
            BY <1>1, <3>2 DEF n
        <3>4. QED BY <3>1, <3>3
    <2> HIDE DEF f, upTo
    <2>4. f = [i \in 1..p |-> f[i]]
        BY DEF f
    <2>5. f \in [1..p -> upTo]
        BY <2>1, <2>4
    <2>6. QED BY <2>2, <2>3, <2>5 DEF Bijection, Injection, Surjection, IsInjective
<1>8. IsFiniteSet(1..p) /\ Cardinality(1..p) = p
    BY <1>1, FirstNumbers
<1> HIDE DEF f, upTo
<1>9. Cardinality(upTo) = p
    BY <1>7, <1>8, FS_Bijection DEF ExistsBijection
<1>10. QED BY <1>9 DEF upTo, NoLater

\* A sequence over a set is one over any larger set.
LEMMA WiderSeq ==
    ASSUME NEW S, NEW T, S \subseteq T, NEW q \in Seq(S)
    PROVE  q \in Seq(T)
<1>1. Len(q) \in Nat /\ q \in [1..Len(q) -> S]
    OBVIOUS
<1>2. q \in [1..Len(q) -> T]
    BY <1>1
<1>3. QED BY <1>1, <1>2

\* The sequence of one element.
LEMMA SingleSeq ==
    ASSUME NEW S, NEW x \in S
    PROVE  <<x>> \in Seq(S) /\ Len(<<x>>) = 1 /\ <<x>>[1] = x
OBVIOUS

\* Front drops the last element and keeps the others where they are, as the
\* pop of the stack does.
LEMMA FrontIs ==
    ASSUME NEW S, NEW q \in Seq(S), Len(q) >= 1
    PROVE  /\ Front(q) \in Seq(S) /\ Len(Front(q)) = Len(q) - 1
           /\ \A k \in 1..(Len(q) - 1) : Front(q)[k] = q[k]
<1> DEFINE n == Len(q) - 1
<1>1. n \in Nat /\ n + 1 = Len(q)
    OBVIOUS
<1>2. \A k \in 1..n : q[k] \in S
    BY <1>1
<1>3. SubSeq(q, 1, n) = [k \in 1..n |-> q[k]]
    BY <1>1
<1>4. QED BY <1>1, <1>2, <1>3 DEF Front

\* A sequence behind another.
LEMMA ConcatIs ==
    ASSUME NEW S, NEW p \in Seq(S), NEW q \in Seq(S), NEW m, Len(p) = m, NEW n, Len(q) = n
    PROVE  /\ p \o q \in Seq(S) /\ Len(p \o q) = m + n
           /\ \A i \in 1..m : (p \o q)[i] = p[i]
           /\ \A i \in 1..n : (p \o q)[m + i] = q[i]
<1>1. p \o q \in Seq(S) /\ Len(p \o q) = m + n
    OBVIOUS
<1>2. \A i \in 1..m : (p \o q)[i] = p[i]
    OBVIOUS
<1>3. \A i \in 1..n : (p \o q)[m + i] = q[i]
    OBVIOUS
<1>4. QED BY <1>1, <1>2, <1>3

\* An element is put in at a place, and what was there moves on.
LEMMA InsertAtIs ==
    ASSUME NEW S, NEW q \in Seq(S), NEW m \in 1..(Len(q) + 1), NEW e \in S
    PROVE  /\ InsertAt(q, m, e) \in Seq(S) /\ Len(InsertAt(q, m, e)) = Len(q) + 1
           /\ \A i \in 1..(Len(q) + 1) :
                InsertAt(q, m, e)[i] = IF i < m THEN q[i] ELSE IF i = m THEN e ELSE q[i - 1]
<1> DEFINE n == Len(q)
           low == SubSeq(q, 1, m - 1)
           high == SubSeq(q, m, n)
           mid == Append(low, e)
<1>1. n \in Nat /\ m \in 1..(n + 1)
    OBVIOUS
<1>2. /\ low \in Seq(S) /\ Len(low) = m - 1
      /\ \A i \in 1..(m - 1) : low[i] = q[i]
    OBVIOUS
<1>3. /\ high \in Seq(S) /\ Len(high) = n + 1 - m
      /\ \A i \in 1..(n + 1 - m) : high[i] = q[i + m - 1]
    OBVIOUS
<1>4. InsertAt(q, m, e) = low \o <<e>> \o high
    BY DEF InsertAt
<1> HIDE DEF low, high, n
<1>5. /\ low \o <<e>> \in Seq(S) /\ Len(low \o <<e>>) = m
      /\ \A i \in 1..m : (low \o <<e>>)[i] = IF i = m THEN e ELSE q[i]
    BY <1>1, <1>2
<1> DEFINE front == low \o <<e>>
<1> HIDE DEF front
<1> DEFINE whole == front \o high
<1> HIDE DEF whole
<1>6. /\ whole \in Seq(S) /\ Len(whole) = m + (n + 1 - m)
      /\ \A i \in 1..m : whole[i] = front[i]
      /\ \A i \in 1..(n + 1 - m) : whole[m + i] = high[i]
    <2> DEFINE l == n + 1 - m
    <2>1. front \in Seq(S) /\ high \in Seq(S) /\ Len(front) = m /\ Len(high) = l
        BY <1>3, <1>5 DEF front
    <2> HIDE DEF l
    <2>2. /\ whole \in Seq(S) /\ Len(whole) = m + l
          /\ \A i \in 1..m : whole[i] = front[i]
          /\ \A i \in 1..l : whole[m + i] = high[i]
        BY SMTT(60), <2>1, ConcatIs DEF whole
    <2>3. QED BY <2>2 DEF l
<1>7. \A i \in 1..(n + 1) : whole[i] = IF i < m THEN q[i] ELSE IF i = m THEN e ELSE q[i - 1]
    <2> SUFFICES ASSUME NEW i \in 1..(n + 1)
                 PROVE  whole[i] = IF i < m THEN q[i] ELSE IF i = m THEN e ELSE q[i - 1]
        OBVIOUS
    <2>1. CASE i <= m
        BY <1>1, <1>5, <1>6, <2>1 DEF front
    <2>2. CASE i > m
        <3> DEFINE k == i - m
        <3>1. k \in 1..(n + 1 - m) /\ m + k = i /\ k + m - 1 = i - 1
            BY <1>1, <2>2
        <3> HIDE DEF k
        <3>2. whole[m + k] = high[k] /\ high[k] = q[k + m - 1]
            BY <1>3, <1>6, <3>1
        <3>3. whole[i] = q[i - 1]
            BY <3>1, <3>2
        <3>4. QED BY <1>1, <2>2, <3>3
    <2>3. QED BY <1>1, <2>1, <2>2
<1>8. Len(whole) = n + 1
    BY <1>1, <1>6
<1>9. QED BY <1>4, <1>6, <1>7, <1>8 DEF front, whole, n

\* An element is taken out at a place, and what was behind it moves up.
LEMMA RemoveAtIs ==
    ASSUME NEW S, NEW q \in Seq(S), NEW m \in 1..Len(q)
    PROVE  /\ RemoveAt(q, m) \in Seq(S) /\ Len(RemoveAt(q, m)) = Len(q) - 1
           /\ \A i \in 1..(Len(q) - 1) : RemoveAt(q, m)[i] = IF i < m THEN q[i] ELSE q[i + 1]
<1> DEFINE n == Len(q)
           low == SubSeq(q, 1, m - 1)
           high == SubSeq(q, m + 1, n)
<1>1. n \in Nat /\ m \in 1..n
    OBVIOUS
<1>2. /\ low \in Seq(S) /\ Len(low) = m - 1
      /\ \A i \in 1..(m - 1) : low[i] = q[i]
    OBVIOUS
<1>3. /\ high \in Seq(S) /\ Len(high) = n - m
      /\ \A i \in 1..(n - m) : high[i] = q[i + m]
    OBVIOUS
<1>4. RemoveAt(q, m) = low \o high
    BY DEF RemoveAt
<1> HIDE DEF low, high, n
<1> DEFINE whole == low \o high
<1> HIDE DEF whole
<1>5. /\ whole \in Seq(S) /\ Len(whole) = (m - 1) + (n - m)
      /\ \A i \in 1..(m - 1) : whole[i] = low[i]
      /\ \A i \in 1..(n - m) : whole[(m - 1) + i] = high[i]
    <2> DEFINE k == m - 1
               l == n - m
    <2>1. low \in Seq(S) /\ high \in Seq(S) /\ Len(low) = k /\ Len(high) = l /\ k \in Nat /\ l \in Nat
        BY <1>1, <1>2, <1>3
    <2> HIDE DEF k, l
    <2>2. low \o high \in Seq(S) /\ Len(low \o high) = k + l
        BY <2>1, ConcatIs
    <2>3. \A i \in 1..k : (low \o high)[i] = low[i]
        BY <2>1, ConcatIs
    <2>4. \A i \in 1..l : (low \o high)[k + i] = high[i]
        BY <2>1, ConcatIs
    <2>5. QED BY <2>2, <2>3, <2>4 DEF whole, k, l
<1>6. \A i \in 1..(n - 1) : whole[i] = IF i < m THEN q[i] ELSE q[i + 1]
    <2> SUFFICES ASSUME NEW i \in 1..(n - 1)
                 PROVE  whole[i] = IF i < m THEN q[i] ELSE q[i + 1]
        OBVIOUS
    <2>1. CASE i < m
        BY <1>1, <1>2, <1>5, <2>1
    <2>2. CASE i >= m
        <3> DEFINE k == i - (m - 1)
        <3>1. k \in 1..(n - m) /\ (m - 1) + k = i /\ k + m = i + 1
            BY <1>1, <2>2
        <3> HIDE DEF k
        <3>2. whole[(m - 1) + k] = high[k] /\ high[k] = q[k + m]
            BY <1>3, <1>5, <3>1
        <3>3. whole[i] = q[i + 1]
            BY <3>1, <3>2
        <3>4. QED BY <1>1, <2>2, <3>3
    <2>3. QED BY <1>1, <2>1, <2>2
<1>7. Len(whole) = n - 1
    BY <1>1, <1>5
<1>8. QED BY <1>4, <1>5, <1>6, <1>7 DEF whole, n

-----------------------------------------------------------------------------
(* Sums. *)

SumOf(f) == MapThenSumSet(LAMBDA i : f[i], DOMAIN f)

\* The element the fold takes out of a set first.
Pick(s) == CHOOSE x \in s : TRUE

\* g adds up f over every subset of D, as the fold does.
Adds(g, f, D) ==
    g = [s \in SUBSET D |-> IF s = {} THEN 0 ELSE f[Pick(s)] + g[s \ {Pick(s)}]]

\* The sum of f over a part s of its domain.
Part(f, s) == (CHOOSE g : Adds(g, f, DOMAIN f))[s]

-----------------------------------------------------------------------------
\* Among some subsets of a finite set there is one with no other inside it.
LEMMA SmallestSet ==
    ASSUME NEW S, IsFiniteSet(S), NEW T, T \subseteq SUBSET S, T # {}
    PROVE  \E x \in T : \A y \in T : y \subseteq x => y = x
<1>1. SUBSET S = FiniteSubsetsOf(S)
    BY FS_Subset DEF FiniteSubsetsOf
<1>2. \E x \in T : \A y \in T : ~(<<y, x>> \in StrictSubsetOrdering(S))
    BY <1>1, FS_StrictSubsetOrderingWellFounded, WFMin
<1>3. QED
    BY <1>2 DEF StrictSubsetOrdering

\* The element that is picked is an element.
LEMMA PickIn ==
    ASSUME NEW s, s # {}
    PROVE  Pick(s) \in s
BY DEF Pick

\* The sum of a set is that of the set without the picked element, and that element.
LEMMA AddsStep ==
    ASSUME NEW f, NEW D, NEW g, Adds(g, f, D), NEW s \in SUBSET D
    PROVE  g[s] = IF s = {} THEN 0 ELSE f[Pick(s)] + g[s \ {Pick(s)}]
BY Zenon DEF Adds

\* Two such functions agree where both are defined.
LEMMA AddsAgree ==
    ASSUME NEW f, NEW D, IsFiniteSet(D), NEW E, NEW g, NEW h, Adds(g, f, D), Adds(h, f, E),
           NEW s \in SUBSET D, s \in SUBSET E
    PROVE  g[s] = h[s]
<1> DEFINE T == {t \in SUBSET D : t \subseteq E /\ g[t] # h[t]}
<1>1. SUFFICES ASSUME T # {} PROVE FALSE
    OBVIOUS
<1>2. PICK t \in T : \A u \in T : u \subseteq t => u = t
    <2>1. T \subseteq SUBSET D
        OBVIOUS
    <2> HIDE DEF T
    <2>2. QED BY <1>1, <2>1, SmallestSet
<1>3. t # {}
    <2>1. g[{}] = 0 /\ h[{}] = 0
        BY AddsStep
    <2>2. QED BY <2>1
<1>4. Pick(t) \in t
    BY <1>3, PickIn
<1>5. g[t \ {Pick(t)}] = h[t \ {Pick(t)}]
    BY <1>2, <1>4
<1>6. g[t] = h[t]
    BY <1>3, <1>5, AddsStep
<1>7. QED BY <1>6

\* There is such a sum for every finite set: no smallest set is without one.
LEMMA AddsExists ==
    ASSUME NEW f, NEW D, IsFiniteSet(D)
    PROVE  \E g : Adds(g, f, D)
<1> DEFINE T == {t \in SUBSET D : ~\E g : Adds(g, f, t)}
<1>1. SUFFICES ASSUME T # {} PROVE FALSE
    OBVIOUS
<1>2. PICK t \in T : \A u \in T : u \subseteq t => u = t
    <2>1. T \subseteq SUBSET D
        OBVIOUS
    <2> HIDE DEF T
    <2>2. QED BY <1>1, <2>1, SmallestSet
<1> DEFINE G(u) == CHOOSE g : Adds(g, f, u)
           h == [s \in SUBSET t |-> IF s = {} THEN 0 ELSE f[Pick(s)] + G(s \ {Pick(s)})[s \ {Pick(s)}]]
<1>3. ASSUME NEW u \in SUBSET t, u # t PROVE Adds(G(u), f, u)
    BY <1>2, <1>3
<1>4. ASSUME NEW s \in SUBSET t, s # t PROVE h[s] = G(s)[s]
    <2>1. CASE s = {}
        BY <1>3, <1>4, <2>1, AddsStep
    <2>2. CASE s # {}
        <3> DEFINE r == s \ {Pick(s)}
        <3>1. Pick(s) \in s /\ r \in SUBSET s /\ r \in SUBSET t /\ r # t
            BY <2>2, PickIn
        <3>2. Adds(G(s), f, s) /\ Adds(G(r), f, r)
            BY <1>3, <1>4, <3>1
        <3>3. G(s)[s] = f[Pick(s)] + G(s)[r]
            BY <2>2, <3>2, AddsStep
        <3>4. IsFiniteSet(s)
            BY FS_Subset
        <3>5. G(s)[r] = G(r)[r]
            <4> HIDE DEF G, r
            <4>1. QED BY <3>1, <3>2, <3>4, AddsAgree
        <3>6. h[s] = f[Pick(s)] + G(r)[r]
            BY <2>2
        <3>7. QED BY <3>3, <3>5, <3>6
    <2>3. QED BY <2>1, <2>2
<1>5. ASSUME NEW s \in SUBSET t, s # {} PROVE h[s] = f[Pick(s)] + h[s \ {Pick(s)}]
    <2> DEFINE r == s \ {Pick(s)}
    <2>1. Pick(s) \in s /\ r \in SUBSET t /\ r # t
        BY <1>5, PickIn
    <2>2. h[r] = G(r)[r]
        BY <1>4, <2>1
    <2>3. h[s] = f[Pick(s)] + G(r)[r]
        BY <1>5
    <2>4. QED BY <2>2, <2>3
<1>6. h[{}] = 0
    OBVIOUS
<1>7. h = [s \in SUBSET t |-> IF s = {} THEN 0 ELSE f[Pick(s)] + h[s \ {Pick(s)}]]
    <2> DEFINE k == [s \in SUBSET t |-> IF s = {} THEN 0 ELSE f[Pick(s)] + h[s \ {Pick(s)}]]
    <2>1. \A s \in SUBSET t : h[s] = k[s]
        <3> SUFFICES ASSUME NEW s \in SUBSET t PROVE h[s] = k[s]
            OBVIOUS
        <3>1. CASE s = {} BY <3>1, <1>6
        <3>2. CASE s # {}
            <4>1. h[s] = f[Pick(s)] + h[s \ {Pick(s)}]
                BY <3>2, <1>5
            <4> HIDE DEF h
            <4>2. QED BY <3>2, <4>1
        <3>3. QED BY <3>1, <3>2
    <2>2. DOMAIN h = SUBSET t
        OBVIOUS
    <2>3. h = [s \in SUBSET t |-> h[s]]
        OBVIOUS
    <2> HIDE DEF h
    <2>4. QED BY <2>1, <2>3
<1>8. Adds(h, f, t)
    <2> HIDE DEF h
    <2>1. QED BY <1>7 DEF Adds
<1>9. QED BY <1>2, <1>8

-----------------------------------------------------------------------------
(* The sum of a part, one element at a time. *)

\* Nothing adds up to 0.
LEMMA PartEmpty ==
    ASSUME NEW f, IsFiniteSet(DOMAIN f)
    PROVE  Part(f, {}) = 0
<1>1. Adds(CHOOSE g : Adds(g, f, DOMAIN f), f, DOMAIN f)
    BY AddsExists
<1>2. QED BY <1>1, AddsStep DEF Part

\* A part adds up to the picked element and the rest.
LEMMA PartPick ==
    ASSUME NEW f, IsFiniteSet(DOMAIN f), NEW s \in SUBSET DOMAIN f, s # {}
    PROVE  /\ Pick(s) \in s
           /\ Part(f, s) = f[Pick(s)] + Part(f, s \ {Pick(s)})
<1> DEFINE h == CHOOSE g : Adds(g, f, DOMAIN f)
<1>1. Adds(h, f, DOMAIN f)
    BY AddsExists
<1>2. h[s] = f[Pick(s)] + h[s \ {Pick(s)}]
    <2> HIDE DEF h
    <2>1. QED BY <1>1, AddsStep
<1>3. QED BY <1>2, PickIn DEF Part

\* A part that is not empty has an element after which what is left is smaller.
LEMMA PartNat ==
    ASSUME NEW f, IsFiniteSet(DOMAIN f), \A i \in DOMAIN f : f[i] \in Nat,
           NEW s \in SUBSET DOMAIN f
    PROVE  Part(f, s) \in Nat
<1> DEFINE T == {t \in SUBSET DOMAIN f : Part(f, t) \notin Nat}
<1>1. SUFFICES ASSUME T # {} PROVE FALSE
    OBVIOUS
<1>2. PICK t \in T : \A u \in T : u \subseteq t => u = t
    <2>1. T \subseteq SUBSET DOMAIN f
        OBVIOUS
    <2> HIDE DEF T
    <2>2. QED BY <1>1, <2>1, SmallestSet
<1>3. t # {}
    BY PartEmpty
<1>4. Pick(t) \in t /\ Part(f, t) = f[Pick(t)] + Part(f, t \ {Pick(t)})
    BY <1>3, PartPick
<1>5. Part(f, t \ {Pick(t)}) \in Nat
    BY <1>2, <1>4
<1>6. QED BY <1>4, <1>5

\* Of integers it is an integer.
LEMMA PartInt ==
    ASSUME NEW f, IsFiniteSet(DOMAIN f), \A i \in DOMAIN f : f[i] \in Int,
           NEW s \in SUBSET DOMAIN f
    PROVE  Part(f, s) \in Int
<1> DEFINE T == {t \in SUBSET DOMAIN f : Part(f, t) \notin Int}
<1>1. SUFFICES ASSUME T # {} PROVE FALSE
    OBVIOUS
<1>2. PICK t \in T : \A u \in T : u \subseteq t => u = t
    <2>1. T \subseteq SUBSET DOMAIN f
        OBVIOUS
    <2> HIDE DEF T
    <2>2. QED BY <1>1, <2>1, SmallestSet
<1>3. t # {}
    BY PartEmpty
<1>4. Pick(t) \in t /\ Part(f, t) = f[Pick(t)] + Part(f, t \ {Pick(t)})
    BY <1>3, PartPick
<1>5. Part(f, t \ {Pick(t)}) \in Int
    BY <1>2, <1>4
<1>6. QED BY <1>4, <1>5

\* Any element can be taken out.
LEMMA PartRemove ==
    ASSUME NEW f, IsFiniteSet(DOMAIN f), \A i \in DOMAIN f : f[i] \in Int,
           NEW s \in SUBSET DOMAIN f, NEW x \in s
    PROVE  Part(f, s) = f[x] + Part(f, s \ {x})
<1> DEFINE T == {t \in SUBSET DOMAIN f : \E y \in t : Part(f, t) # f[y] + Part(f, t \ {y})}
<1>1. SUFFICES ASSUME T # {} PROVE FALSE
    OBVIOUS
<1>2. PICK t \in T : \A u \in T : u \subseteq t => u = t
    <2>1. T \subseteq SUBSET DOMAIN f
        OBVIOUS
    <2> HIDE DEF T
    <2>2. QED BY <1>1, <2>1, SmallestSet
<1>3. PICK y \in t : Part(f, t) # f[y] + Part(f, t \ {y})
    BY <1>2
<1> DEFINE p == Pick(t)
<1>4. p \in t /\ Part(f, t) = f[p] + Part(f, t \ {p})
    BY <1>3, PartPick
<1>5. p # y
    BY <1>3, <1>4
<1>6. Part(f, t \ {p}) = f[y] + Part(f, (t \ {p}) \ {y})
    BY <1>2, <1>4, <1>5
<1>7. Part(f, t \ {y}) = f[p] + Part(f, (t \ {y}) \ {p})
    BY <1>2, <1>4, <1>5
<1>8. (t \ {p}) \ {y} = (t \ {y}) \ {p}
    OBVIOUS
<1>9. /\ f[p] \in Int /\ f[y] \in Int
      /\ Part(f, (t \ {y}) \ {p}) \in Int
    BY <1>4, PartInt
<1> DEFINE rest == Part(f, (t \ {y}) \ {p})
<1>10. /\ Part(f, t) = f[p] + (f[y] + rest) /\ Part(f, t \ {y}) = f[p] + rest
       /\ f[p] \in Int /\ f[y] \in Int /\ rest \in Int
    BY <1>4, <1>6, <1>7, <1>8, <1>9
<1> HIDE DEF rest
<1>11. Part(f, t) = f[y] + Part(f, t \ {y})
    BY <1>10
<1>12. QED BY <1>3, <1>11

\* Only the values on the part count.
LEMMA PartSame ==
    ASSUME NEW f, IsFiniteSet(DOMAIN f), NEW h, IsFiniteSet(DOMAIN h),
           NEW s, s \subseteq DOMAIN f, s \subseteq DOMAIN h, \A i \in s : f[i] = h[i]
    PROVE  Part(f, s) = Part(h, s)
<1> DEFINE T == {t \in SUBSET s : Part(f, t) # Part(h, t)}
<1>1. SUFFICES ASSUME T # {} PROVE FALSE
    OBVIOUS
<1>2. PICK t \in T : \A u \in T : u \subseteq t => u = t
    <2>1. T \subseteq SUBSET s /\ IsFiniteSet(s)
        BY FS_Subset
    <2> HIDE DEF T
    <2>2. QED BY <1>1, <2>1, SmallestSet
<1>3. t # {}
    BY PartEmpty
<1>4. /\ Pick(t) \in t
      /\ Part(f, t) = f[Pick(t)] + Part(f, t \ {Pick(t)})
      /\ Part(h, t) = h[Pick(t)] + Part(h, t \ {Pick(t)})
    BY <1>3, PartPick
<1>5. Part(f, t \ {Pick(t)}) = Part(h, t \ {Pick(t)})
    BY <1>2, <1>4
<1>6. QED BY <1>4, <1>5

\* More at every place, more in all.
LEMMA PartMonotone ==
    ASSUME NEW f, IsFiniteSet(DOMAIN f), \A i \in DOMAIN f : f[i] \in Nat,
           NEW h, DOMAIN h = DOMAIN f, \A i \in DOMAIN f : h[i] \in Nat /\ f[i] <= h[i],
           NEW s \in SUBSET DOMAIN f
    PROVE  Part(f, s) <= Part(h, s)
<1> DEFINE T == {t \in SUBSET DOMAIN f : ~(Part(f, t) <= Part(h, t))}
<1>1. SUFFICES ASSUME T # {} PROVE FALSE
    OBVIOUS
<1>2. PICK t \in T : \A u \in T : u \subseteq t => u = t
    <2>1. T \subseteq SUBSET DOMAIN f
        OBVIOUS
    <2> HIDE DEF T
    <2>2. QED BY <1>1, <2>1, SmallestSet
<1>3. t # {}
    BY PartEmpty
<1>4. /\ Pick(t) \in t
      /\ Part(f, t) = f[Pick(t)] + Part(f, t \ {Pick(t)})
      /\ Part(h, t) = h[Pick(t)] + Part(h, t \ {Pick(t)})
    BY <1>3, PartPick
<1>5. Part(f, t \ {Pick(t)}) <= Part(h, t \ {Pick(t)})
    BY <1>2, <1>4
<1>6. /\ Part(f, t \ {Pick(t)}) \in Nat /\ Part(h, t \ {Pick(t)}) \in Nat
      /\ f[Pick(t)] \in Nat /\ h[Pick(t)] \in Nat /\ f[Pick(t)] <= h[Pick(t)]
    BY <1>4, PartNat
<1>7. QED BY <1>2, <1>4, <1>5, <1>6

\* The same at every place: a product.
LEMMA PartConstant ==
    ASSUME NEW f, IsFiniteSet(DOMAIN f), NEW c \in Nat, \A i \in DOMAIN f : f[i] = c,
           NEW s \in SUBSET DOMAIN f
    PROVE  Part(f, s) = Cardinality(s) * c
<1> DEFINE T == {t \in SUBSET DOMAIN f : Part(f, t) # Cardinality(t) * c}
<1>1. SUFFICES ASSUME T # {} PROVE FALSE
    OBVIOUS
<1>2. PICK t \in T : \A u \in T : u \subseteq t => u = t
    <2>1. T \subseteq SUBSET DOMAIN f
        OBVIOUS
    <2> HIDE DEF T
    <2>2. QED BY <1>1, <2>1, SmallestSet
<1>3. t # {}
    BY PartEmpty, FS_EmptySet
<1>4. Pick(t) \in t /\ Part(f, t) = c + Part(f, t \ {Pick(t)})
    BY <1>3, PartPick
<1>5. Part(f, t \ {Pick(t)}) = Cardinality(t \ {Pick(t)}) * c
    BY <1>2, <1>4
<1>6. IsFiniteSet(t) /\ Cardinality(t) \in Nat
      /\ Cardinality(t \ {Pick(t)}) = Cardinality(t) - 1
    BY <1>4, FS_Subset, FS_RemoveElement, FS_CardinalityType
<1>7. QED BY <1>4, <1>5, <1>6

\* Term by term, sums add up.
LEMMA PartAdd ==
    ASSUME NEW f, IsFiniteSet(DOMAIN f), \A i \in DOMAIN f : f[i] \in Int,
           NEW g, DOMAIN g = DOMAIN f, \A i \in DOMAIN f : g[i] \in Int,
           NEW h, DOMAIN h = DOMAIN f, \A i \in DOMAIN f : h[i] = f[i] + g[i],
           NEW s \in SUBSET DOMAIN f
    PROVE  Part(h, s) = Part(f, s) + Part(g, s)
<1> DEFINE T == {t \in SUBSET DOMAIN f : Part(h, t) # Part(f, t) + Part(g, t)}
<1>1. SUFFICES ASSUME T # {} PROVE FALSE
    OBVIOUS
<1>2. PICK t \in T : \A u \in T : u \subseteq t => u = t
    <2>1. T \subseteq SUBSET DOMAIN f
        OBVIOUS
    <2> HIDE DEF T
    <2>2. QED BY <1>1, <2>1, SmallestSet
<1>3. t # {}
    <2>1. Part(f, {}) = 0 /\ Part(g, {}) = 0 /\ Part(h, {}) = 0
        BY PartEmpty
    <2>2. Part(h, {}) = Part(f, {}) + Part(g, {})
        BY <2>1
    <2>3. Part(h, t) # Part(f, t) + Part(g, t)
        BY <1>2
    <2>4. QED BY <2>2, <2>3
<1> DEFINE p == Pick(t)
           rest == t \ {p}
<1>4. /\ p \in t
      /\ Part(f, t) = f[p] + Part(f, rest) /\ Part(g, t) = g[p] + Part(g, rest) /\ Part(h, t) = h[p] + Part(h, rest)
    BY <1>3, PartPick
<1>5. Part(h, rest) = Part(f, rest) + Part(g, rest)
    BY <1>2, <1>4
<1>6. /\ f[p] \in Int /\ g[p] \in Int /\ h[p] = f[p] + g[p]
      /\ Part(f, rest) \in Int /\ Part(g, rest) \in Int
    BY <1>4, PartInt
<1>7. Part(h, t) # Part(f, t) + Part(g, t)
    BY <1>2
<1> HIDE DEF p, rest, T
<1>8. QED BY <1>4, <1>5, <1>6, <1>7

\* A factor of every term is a factor of the sum.
LEMMA PartScaled ==
    ASSUME NEW f, IsFiniteSet(DOMAIN f), \A i \in DOMAIN f : f[i] \in Int, NEW c \in Int,
           NEW h, DOMAIN h = DOMAIN f, \A i \in DOMAIN f : h[i] = c * f[i],
           NEW s \in SUBSET DOMAIN f
    PROVE  Part(h, s) = c * Part(f, s)
<1> DEFINE T == {t \in SUBSET DOMAIN f : Part(h, t) # c * Part(f, t)}
<1>1. SUFFICES ASSUME T # {} PROVE FALSE
    OBVIOUS
<1>2. PICK t \in T : \A u \in T : u \subseteq t => u = t
    <2>1. T \subseteq SUBSET DOMAIN f
        OBVIOUS
    <2> HIDE DEF T
    <2>2. QED BY <1>1, <2>1, SmallestSet
<1>3. t # {}
    <2>1. Part(f, {}) = 0 /\ Part(h, {}) = 0
        BY PartEmpty
    <2>2. c * 0 = 0
        OBVIOUS
    <2>3. QED BY <1>2, <2>1, <2>2
<1> DEFINE p == Pick(t)
           rest == t \ {p}
<1>4. p \in t /\ Part(f, t) = f[p] + Part(f, rest) /\ Part(h, t) = h[p] + Part(h, rest)
    BY <1>3, PartPick
<1>5. Part(h, rest) = c * Part(f, rest)
    BY <1>2, <1>4
<1>6. f[p] \in Int /\ h[p] = c * f[p] /\ Part(f, rest) \in Int
    BY <1>4, PartInt
<1>7. Part(h, t) # c * Part(f, t)
    BY <1>2
<1> DEFINE a == f[p]
           b == Part(f, rest)
<1>8. c * (a + b) = c * a + c * b
    BY <1>6
<1> HIDE DEF p, rest, T
<1>9. QED BY <1>4, <1>5, <1>6, <1>7, <1>8

\* Terms that are 0 do not count.
LEMMA PartWithin ==
    ASSUME NEW f, IsFiniteSet(DOMAIN f), \A i \in DOMAIN f : f[i] \in Int,
           NEW D, \A i \in DOMAIN f \ D : f[i] = 0, NEW s \in SUBSET DOMAIN f
    PROVE  Part(f, s) = Part(f, s \cap D)
<1> DEFINE T == {t \in SUBSET DOMAIN f : Part(f, t) # Part(f, t \cap D)}
<1>1. SUFFICES ASSUME T # {} PROVE FALSE
    OBVIOUS
<1>2. PICK t \in T : \A u \in T : u \subseteq t => u = t
    <2>1. T \subseteq SUBSET DOMAIN f
        OBVIOUS
    <2> HIDE DEF T
    <2>2. QED BY <1>1, <2>1, SmallestSet
<1>3. t # {}
    BY <1>2
<1> DEFINE p == Pick(t)
           rest == t \ {p}
<1>4. p \in t /\ Part(f, t) = f[p] + Part(f, rest)
    BY <1>3, PartPick
<1>5. Part(f, rest) = Part(f, rest \cap D)
    BY <1>2, <1>4
<1>6. f[p] \in Int /\ Part(f, rest) \in Int
    BY <1>4, PartInt
<1>7. Part(f, t) # Part(f, t \cap D)
    BY <1>2
<1>8. CASE p \in D
    <2>1. Part(f, t \cap D) = f[p] + Part(f, (t \cap D) \ {p})
        BY <1>4, <1>8, PartRemove
    <2>2. (t \cap D) \ {p} = rest \cap D
        OBVIOUS
    <2> HIDE DEF p, rest, T
    <2>3. QED BY <1>4, <1>5, <1>6, <1>7, <2>1, <2>2
<1>9. CASE p \notin D
    <2>1. f[p] = 0 /\ t \cap D = rest \cap D
        BY <1>4, <1>9
    <2>2. Part(f, t \cap D) = Part(f, rest)
        BY <1>5, <2>1
    <2> HIDE DEF p, rest, T
    <2>3. QED BY <1>4, <1>6, <1>7, <2>1, <2>2
<1>10. QED BY <1>8, <1>9

\* Terms that are all between -c and c.
LEMMA PartBounded ==
    ASSUME NEW f, IsFiniteSet(DOMAIN f), NEW c \in Nat, \A i \in DOMAIN f : f[i] \in Int /\ -c <= f[i] /\ f[i] <= c,
           NEW s \in SUBSET DOMAIN f
    PROVE  -(Cardinality(s) * c) <= Part(f, s) /\ Part(f, s) <= Cardinality(s) * c
<1> DEFINE Bounded(t) == -(Cardinality(t) * c) <= Part(f, t) /\ Part(f, t) <= Cardinality(t) * c
           T == {t \in SUBSET DOMAIN f : ~Bounded(t)}
<1>1. SUFFICES ASSUME T # {} PROVE FALSE
    OBVIOUS
<1>2. PICK t \in T : \A u \in T : u \subseteq t => u = t
    <2>1. T \subseteq SUBSET DOMAIN f
        OBVIOUS
    <2> HIDE DEF T
    <2>2. QED BY <1>1, <2>1, SmallestSet
<1>3. t # {}
    <2>1. Part(f, {}) = 0 /\ Cardinality({}) = 0
        BY PartEmpty, FS_EmptySet
    <2>2. 0 * c = 0
        OBVIOUS
    <2>3. Bounded({})
        BY <2>1, <2>2
    <2> HIDE DEF Bounded
    <2>4. QED BY <1>2, <2>3
<1> DEFINE p == Pick(t)
           rest == t \ {p}
<1>4. p \in t /\ Part(f, t) = f[p] + Part(f, rest)
    BY <1>3, PartPick
<1>5. Bounded(rest)
    BY <1>2, <1>4
<1>6. f[p] \in Int /\ -c <= f[p] /\ f[p] <= c /\ Part(f, rest) \in Int
    BY <1>4, PartInt
<1>7. Cardinality(t) \in Nat /\ Cardinality(rest) \in Nat /\ Cardinality(t) = Cardinality(rest) + 1
    <2>1. IsFiniteSet(t)
        BY FS_Subset
    <2>2. IsFiniteSet(rest) /\ Cardinality(rest) = Cardinality(t) - 1
        BY <1>4, <2>1, FS_RemoveElement
    <2>3. QED BY <2>1, <2>2, FS_CardinalityType
<1>8. ~Bounded(t)
    BY <1>2
<1> DEFINE n == Cardinality(rest)
           q == n * c
<1>9. Cardinality(t) * c = q + c /\ q \in Int
    <2>1. n \in Nat /\ Cardinality(t) = n + 1
        BY <1>7
    <2> HIDE DEF n
    <2>2. (n + 1) * c = n * c + c
        BY <2>1
    <2>3. QED BY <2>1, <2>2
<1>10. -q <= Part(f, rest) /\ Part(f, rest) <= q
    BY <1>5
<1> HIDE DEF q, p, rest
<1>11. Bounded(t)
    BY <1>4, <1>6, <1>9, <1>10
<1>12. QED BY <1>8, <1>11

-----------------------------------------------------------------------------
(* The sum of a function. *)

\* The sum of a function is that of its whole domain.
LEMMA SumIsPart ==
    ASSUME NEW f
    PROVE  SumOf(f) = Part(f, DOMAIN f)
BY DEF SumOf, MapThenSumSet, MapThenFoldSet, Part, Adds, Pick

\* A sum of naturals is a natural number, and a sum over nothing is 0.
THEOREM SumNat ==
    ASSUME NEW f, IsFiniteSet(DOMAIN f), \A i \in DOMAIN f : f[i] \in Nat
    PROVE  SumOf(f) \in Nat /\ (DOMAIN f = {} => SumOf(f) = 0)
BY SumIsPart, PartNat, PartEmpty

\* A sum of integers is an integer.
THEOREM SumInt ==
    ASSUME NEW f, IsFiniteSet(DOMAIN f), \A i \in DOMAIN f : f[i] \in Int
    PROVE  SumOf(f) \in Int
BY SumIsPart, PartInt

\* The terms may be named otherwise, as long as each name is used once.
THEOREM SumRenamed ==
    ASSUME NEW f, IsFiniteSet(DOMAIN f), NEW h, IsFiniteSet(DOMAIN h), \A i \in DOMAIN h : h[i] \in Int,
           NEW name \in Bijection(DOMAIN f, DOMAIN h), \A i \in DOMAIN f : f[i] = h[name[i]]
    PROVE  SumOf(f) = SumOf(h)
<1> DEFINE named(t) == {name[i] : i \in t}
           T == {t \in SUBSET DOMAIN f : Part(f, t) # Part(h, named(t))}
<1>1. /\ \A i \in DOMAIN f : name[i] \in DOMAIN h
      /\ \A i, k \in DOMAIN f : name[i] = name[k] => i = k
      /\ named(DOMAIN f) = DOMAIN h
    BY DEF Bijection, Injection, Surjection, IsInjective
<1>2. T = {}
    <2> SUFFICES ASSUME T # {} PROVE FALSE
        OBVIOUS
    <2>1. PICK t \in T : \A u \in T : u \subseteq t => u = t
        <3>1. T \subseteq SUBSET DOMAIN f
            OBVIOUS
        <3> HIDE DEF T
        <3>2. QED BY <3>1, SmallestSet
    <2>2. t # {}
        <3>1. named({}) = {}
            OBVIOUS
        <3>2. QED BY <3>1, PartEmpty
    <2> DEFINE p == Pick(t)
    <2>3. p \in t /\ Part(f, t) = f[p] + Part(f, t \ {p})
        BY <2>2, PartPick
    <2>4. Part(f, t \ {p}) = Part(h, named(t \ {p}))
        BY <2>1, <2>3
    <2>5. named(t \ {p}) = named(t) \ {name[p]}
        <3>1. \A i \in t : name[i] = name[p] <=> i = p
            BY <1>1, <2>3
        <3>2. QED BY <2>3, <3>1
    <2>6. Part(h, named(t)) = h[name[p]] + Part(h, named(t) \ {name[p]})
        <3>1. named(t) \in SUBSET DOMAIN h /\ name[p] \in named(t)
            BY <1>1, <2>3
        <3> HIDE DEF named
        <3>2. QED BY <3>1, PartRemove
    <2>7. f[p] = h[name[p]] /\ Part(f, t) # Part(h, named(t))
        BY <2>1, <2>3
    <2> HIDE DEF named, p, T
    <2>8. QED BY <2>3, <2>4, <2>5, <2>6, <2>7
<1>3. Part(f, DOMAIN f) = Part(h, named(DOMAIN f))
    BY <1>2
<1>4. QED BY <1>1, <1>3, SumIsPart

\* A change at one place changes the sum by as much.
THEOREM SumExcept ==
    ASSUME NEW f, IsFiniteSet(DOMAIN f), \A i \in DOMAIN f : f[i] \in Nat,
           NEW h, DOMAIN h = DOMAIN f, NEW x \in DOMAIN f, h[x] \in Nat,
           \A i \in DOMAIN f \ {x} : h[i] = f[i]
    PROVE  SumOf(h) = SumOf(f) - f[x] + h[x]
<1> DEFINE rest == DOMAIN f \ {x}
<1>1. Part(f, DOMAIN f) = f[x] + Part(f, rest)
    BY PartRemove
<1>2. Part(h, DOMAIN f) = h[x] + Part(h, rest)
    <2>1. \A i \in DOMAIN h : h[i] \in Nat
        OBVIOUS
    <2>2. QED BY <2>1, PartRemove
<1>3. Part(f, rest) = Part(h, rest)
    BY PartSame
<1>4. Part(f, rest) \in Nat /\ f[x] \in Nat
    BY PartNat
<1>5. QED BY <1>1, <1>2, <1>3, <1>4, SumIsPart

\* One place more adds what it holds.
THEOREM SumExtend ==
    ASSUME NEW f, IsFiniteSet(DOMAIN f), \A i \in DOMAIN f : f[i] \in Nat,
           NEW h, NEW x, x \notin DOMAIN f, DOMAIN h = DOMAIN f \cup {x}, h[x] \in Nat,
           \A i \in DOMAIN f : h[i] = f[i]
    PROVE  SumOf(h) = SumOf(f) + h[x]
<1>1. IsFiniteSet(DOMAIN h)
    BY FS_AddElement
<1>2. Part(h, DOMAIN h) = h[x] + Part(h, DOMAIN f)
    <2>1. \A i \in DOMAIN h : h[i] \in Nat
        OBVIOUS
    <2>2. (DOMAIN h) \ {x} = DOMAIN f
        OBVIOUS
    <2>3. QED BY <1>1, <2>1, <2>2, PartRemove
<1>3. Part(f, DOMAIN f) = Part(h, DOMAIN f)
    BY <1>1, PartSame
<1>4. Part(f, DOMAIN f) \in Nat
    BY PartNat
<1>5. QED BY <1>2, <1>3, <1>4, SumIsPart

\* A part of a sum of naturals is at most the sum: here a single place.
THEOREM SumAtLeast ==
    ASSUME NEW f, IsFiniteSet(DOMAIN f), \A i \in DOMAIN f : f[i] \in Nat, NEW x \in DOMAIN f
    PROVE  f[x] <= SumOf(f)
<1>1. Part(f, DOMAIN f) = f[x] + Part(f, DOMAIN f \ {x})
    BY PartRemove
<1>2. Part(f, DOMAIN f \ {x}) \in Nat
    BY PartNat
<1>3. QED BY <1>1, <1>2, SumIsPart

\* A larger function has a larger sum.
THEOREM SumMonotone ==
    ASSUME NEW f, IsFiniteSet(DOMAIN f), \A i \in DOMAIN f : f[i] \in Nat,
           NEW h, DOMAIN h = DOMAIN f, \A i \in DOMAIN f : h[i] \in Nat /\ f[i] <= h[i]
    PROVE  SumOf(f) <= SumOf(h)
BY SumIsPart, PartMonotone

\* The sum of a constant function is a product.
THEOREM SumConstant ==
    ASSUME NEW f, IsFiniteSet(DOMAIN f), NEW c \in Nat, \A i \in DOMAIN f : f[i] = c
    PROVE  SumOf(f) = Cardinality(DOMAIN f) * c
BY SumIsPart, PartConstant

\* Two sums over one set are one.
THEOREM SumAdd ==
    ASSUME NEW f, IsFiniteSet(DOMAIN f), \A i \in DOMAIN f : f[i] \in Int,
           NEW g, DOMAIN g = DOMAIN f, \A i \in DOMAIN f : g[i] \in Int,
           NEW h, DOMAIN h = DOMAIN f, \A i \in DOMAIN f : h[i] = f[i] + g[i]
    PROVE  SumOf(h) = SumOf(f) + SumOf(g)
BY SumIsPart, PartAdd

\* A factor of every term is a factor of the sum.
THEOREM SumScaled ==
    ASSUME NEW f, IsFiniteSet(DOMAIN f), \A i \in DOMAIN f : f[i] \in Int, NEW c \in Int,
           NEW h, DOMAIN h = DOMAIN f, \A i \in DOMAIN f : h[i] = c * f[i]
    PROVE  SumOf(h) = c * SumOf(f)
BY SumIsPart, PartScaled

\* The sum over a part of the domain outside of which the terms are 0.
THEOREM SumWithin ==
    ASSUME NEW f, IsFiniteSet(DOMAIN f), \A i \in DOMAIN f : f[i] \in Int,
           NEW h, DOMAIN h \subseteq DOMAIN f, \A i \in DOMAIN h : h[i] = f[i],
           \A i \in DOMAIN f \ DOMAIN h : f[i] = 0
    PROVE  SumOf(f) = SumOf(h)
<1>1. Part(f, DOMAIN f) = Part(f, DOMAIN f \cap DOMAIN h)
    BY PartWithin
<1>2. DOMAIN f \cap DOMAIN h = DOMAIN h /\ IsFiniteSet(DOMAIN h)
    BY FS_Subset
<1>3. Part(f, DOMAIN h) = Part(h, DOMAIN h)
    BY <1>2, PartSame
<1>4. QED BY <1>1, <1>2, <1>3, SumIsPart

\* Terms that are all between -c and c.
THEOREM SumBounded ==
    ASSUME NEW f, IsFiniteSet(DOMAIN f), NEW c \in Nat, \A i \in DOMAIN f : f[i] \in Int /\ -c <= f[i] /\ f[i] <= c
    PROVE  -(Cardinality(DOMAIN f) * c) <= SumOf(f) /\ SumOf(f) <= Cardinality(DOMAIN f) * c
BY SumIsPart, PartBounded

\* The sum of two terms.
THEOREM SumOfTwo ==
    ASSUME NEW f, NEW x, NEW y, x # y, DOMAIN f = {x, y}, f[x] \in Int, f[y] \in Int
    PROVE  SumOf(f) = f[x] + f[y]
<1>1. IsFiniteSet({x, y})
    <2>1. IsFiniteSet({x}) BY FS_Singleton
    <2>2. {x, y} = {x} \cup {y} OBVIOUS
    <2>3. QED BY <2>1, <2>2, FS_AddElement
<1>2. Part(f, {x, y}) = f[x] + Part(f, {x, y} \ {x})
    BY <1>1, PartRemove
<1>3. {x, y} \ {x} = {y} /\ {y} \ {y} = {} /\ {y} \in SUBSET {x, y}
    OBVIOUS
<1>4. Part(f, {y}) = f[y] + Part(f, {y} \ {y})
    <2>1. \A i \in DOMAIN f : f[i] \in Int
        OBVIOUS
    <2>2. IsFiniteSet(DOMAIN f) /\ {y} \in SUBSET DOMAIN f /\ y \in {y}
        BY <1>1
    <2>3. QED BY <2>1, <2>2, PartRemove
<1>5. Part(f, {}) = 0
    BY <1>1, PartEmpty
<1>6. Part(f, {x, y}) = f[x] + (f[y] + 0)
    BY Zenon, <1>2, <1>3, <1>4, <1>5
<1>7. SumOf(f) = Part(f, {x, y})
    BY SumIsPart
<1>8. QED BY <1>6, <1>7

\* Terms that lie between others, up to the sign, add up between them.
LEMMA SumBetween ==
    ASSUME NEW f, NEW g, IsFiniteSet(DOMAIN f), DOMAIN g = DOMAIN f,
           \A i \in DOMAIN f : f[i] \in Int /\ g[i] \in Nat /\ -g[i] <= f[i] /\ f[i] <= g[i]
    PROVE  SumOf(g) \in Nat /\ SumOf(f) \in Int /\ -SumOf(g) <= SumOf(f) /\ SumOf(f) <= SumOf(g)
<1> DEFINE up == [i \in DOMAIN f |-> g[i] - f[i]]
           down == [i \in DOMAIN f |-> g[i] + f[i]]
<1>1. SumOf(g) \in Nat /\ SumOf(f) \in Int
    BY SumNat, SumInt
<1>2. /\ DOMAIN up = DOMAIN f /\ DOMAIN down = DOMAIN f
      /\ \A i \in DOMAIN f : up[i] \in Nat /\ down[i] \in Nat /\ f[i] + up[i] = g[i] /\ f[i] + g[i] = down[i]
    OBVIOUS
<1> HIDE DEF up, down
<1>3. SumOf(up) \in Nat /\ SumOf(down) \in Nat
    BY <1>2, SumNat
<1>4. SumOf(g) = SumOf(f) + SumOf(up)
    <2>1. \A i \in DOMAIN f : f[i] \in Int /\ up[i] \in Int /\ g[i] = f[i] + up[i]
        BY <1>2
    <2>2. QED BY <1>2, <2>1, SumAdd
<1>5. SumOf(down) = SumOf(f) + SumOf(g)
    <2>1. \A i \in DOMAIN f : f[i] \in Int /\ g[i] \in Int /\ down[i] = f[i] + g[i]
        BY <1>2
    <2>2. QED BY <1>2, <2>1, SumAdd
<1>6. QED BY <1>1, <1>3, <1>4, <1>5

\* The sums of the rows and of the columns of a table.
Rows(m, A, B) == [a \in A |-> SumOf([b \in B |-> m[a][b]])]
Columns(m, A, B) == [b \in B |-> SumOf([a \in A |-> m[a][b]])]

\* A table of numbers adds up the same by rows and by columns.
THEOREM SumSwapped ==
    ASSUME NEW A, IsFiniteSet(A), NEW B, IsFiniteSet(B), NEW m, \A a \in A, b \in B : m[a][b] \in Int
    PROVE  SumOf(Rows(m, A, B)) = SumOf(Columns(m, A, B))
<1> DEFINE rows == Rows(m, A, B)
           columns == Columns(m, A, B)
           row(a) == [b \in B |-> m[a][b]]
           column(b) == [a \in A |-> m[a][b]]
           cut(t) == [b \in B |-> Part(column(b), t)]
           T == {t \in SUBSET A : Part(rows, t) # SumOf(cut(t))}
<1>1. /\ DOMAIN rows = A /\ \A a \in A : rows[a] = SumOf(row(a))
      /\ \A a \in A : DOMAIN row(a) = B /\ \A b \in B : row(a)[b] = m[a][b] /\ row(a)[b] \in Int
      /\ \A b \in B : DOMAIN column(b) = A /\ \A a \in A : column(b)[a] = m[a][b] /\ column(b)[a] \in Int
    BY DEF Rows
<1>2. columns = [b \in B |-> SumOf(column(b))]
    BY DEF Columns
<1> HIDE DEF row, column, rows, columns
<1>3. \A b \in B : \A t \in SUBSET A : Part(column(b), t) \in Int
    BY <1>1, PartInt
<1>4. \A t \in SUBSET A : /\ DOMAIN cut(t) = B
                          /\ \A b \in B : cut(t)[b] = Part(column(b), t) /\ cut(t)[b] \in Int
    BY <1>3
<1> HIDE DEF cut
<1>5. T = {}
    <2> SUFFICES ASSUME T # {} PROVE FALSE
        OBVIOUS
    <2>1. PICK t \in T : \A u \in T : u \subseteq t => u = t
        <3>1. T \subseteq SUBSET A
            OBVIOUS
        <3> HIDE DEF T
        <3>2. QED BY <3>1, SmallestSet
    <2>2. t # {}
        <3> SUFFICES ASSUME t = {} PROVE FALSE
            OBVIOUS
        <3>1. \A b \in B : cut({})[b] = 0
            BY <1>1, <1>4, PartEmpty
        <3>2. SumOf(cut({})) = Cardinality(DOMAIN cut({})) * 0
            BY <1>4, <3>1, SumConstant
        <3>3. SumOf(cut({})) = 0
            BY <1>4, <3>2, FS_CardinalityType
        <3>4. Part(rows, {}) = 0
            BY <1>1, PartEmpty
        <3>5. QED BY <2>1, <3>3, <3>4
    <2> DEFINE p == Pick(t)
               rest == t \ {p}
    <2>3. p \in t /\ t \in SUBSET A /\ p \in A /\ rest \in SUBSET A /\ Part(rows, t) = SumOf(row(p)) + Part(rows, rest)
        BY <1>1, <2>2, PartPick
    <2>4. \A b \in B : cut(t)[b] = row(p)[b] + cut(rest)[b]
        <3> SUFFICES ASSUME NEW b \in B PROVE cut(t)[b] = row(p)[b] + cut(rest)[b]
            OBVIOUS
        <3>1. Part(column(b), t) = column(b)[p] + Part(column(b), rest)
            BY <1>1, <2>2, PartPick
        <3> HIDE DEF p, rest
        <3>2. QED BY <1>1, <1>4, <2>3, <3>1
    <2>5. Part(rows, rest) = SumOf(cut(rest))
        BY <2>1, <2>3
    <2>6. Part(rows, t) # SumOf(cut(t))
        BY <2>1
    <2> HIDE DEF p, rest, T
    <2>7. SumOf(cut(t)) = SumOf(row(p)) + SumOf(cut(rest))
        <3> DEFINE f == row(p)
                   g == cut(rest)
                   h == cut(t)
        <3>1. /\ DOMAIN f = B /\ DOMAIN g = B /\ DOMAIN h = B
              /\ \A b \in B : f[b] \in Int /\ g[b] \in Int /\ h[b] = f[b] + g[b]
            BY <1>1, <1>4, <2>3, <2>4
        <3> HIDE DEF f, g, h
        <3>2. SumOf(h) = SumOf(f) + SumOf(g)
            BY <3>1, SumAdd
        <3>3. QED BY <3>2 DEF f, g, h
    <2>8. QED BY <2>3, <2>5, <2>6, <2>7
<1>6. Part(rows, A) = SumOf(cut(A))
    BY <1>5
<1>7. cut(A) = columns
    <2>1. \A b \in B : cut(A)[b] = SumOf(column(b))
        BY <1>1, <1>4, SumIsPart
    <2>2. cut(A) = [b \in B |-> cut(A)[b]]
        BY DEF cut
    <2>3. QED BY <1>2, <2>1, <2>2
<1>8. QED BY <1>1, <1>6, <1>7, SumIsPart DEF rows, columns

\* The sum over 1..n is the sum over 1..(n - 1) and the last term.
LEMMA SumPrefix ==
    ASSUME NEW n \in Nat, n # 0, NEW f, \A i \in 1..n : f[i] \in Nat
    PROVE  SumOf([i \in 1..n |-> f[i]]) = SumOf([i \in 1..(n - 1) |-> f[i]]) + f[n]
<1> DEFINE low == [i \in 1..(n - 1) |-> f[i]]
           high == [i \in 1..n |-> f[i]]
<1>1. 1..n = (1..(n - 1)) \cup {n} /\ n \notin 1..(n - 1)
    OBVIOUS
<1>2. n \notin DOMAIN low /\ DOMAIN high = DOMAIN low \cup {n}
    BY <1>1
<1>3. \A i \in DOMAIN low : low[i] \in Nat
    OBVIOUS
<1>4. \A i \in DOMAIN low : high[i] = low[i]
    BY <1>1
<1>5. high[n] = f[n] /\ high[n] \in Nat
    OBVIOUS
<1>6. IsFiniteSet(DOMAIN low)
    BY FS_Interval
<1>7. SumOf(high) = SumOf(low) + high[n]
    <2> HIDE DEF low, high
    <2> QED BY <1>2, <1>3, <1>4, <1>5, <1>6, SumExtend
<1>8. QED BY <1>5, <1>7

\* A sum over 1..k whose terms are, scaled, below the steps of a function is
\* below that function.
THEOREM SumBelow ==
    ASSUME NEW k \in Nat, NEW f \in [1..k -> Nat], NEW g \in [0..k -> Int], g[0] = 0, NEW c \in Nat,
           \A n \in 1..k : c * f[n] <= g[n] - g[n - 1]
    PROVE  c * SumOf(f) <= g[k]
<1> DEFINE upTo(n) == [i \in 1..n |-> f[i]]
           bad == {n \in Nat : n <= k /\ ~(c * SumOf(upTo(n)) <= g[n])}
<1>1. \A n \in 0..k : IsFiniteSet(DOMAIN upTo(n)) /\ DOMAIN upTo(n) = 1..n
    BY FS_Interval
<1>2. \A n \in 0..k : SumOf(upTo(n)) \in Nat
    <2> SUFFICES ASSUME NEW n \in 0..k PROVE SumOf(upTo(n)) \in Nat
        OBVIOUS
    <2>1. \A i \in DOMAIN upTo(n) : upTo(n)[i] \in Nat
        OBVIOUS
    <2> HIDE DEF upTo
    <2>2. QED BY <1>1, <2>1, SumNat
<1>3. bad = {}
    <2> SUFFICES ASSUME bad # {} PROVE FALSE
        OBVIOUS
    <2>1. PICK n \in bad : \A m \in bad : n <= m
        <3>1. bad \subseteq Nat
            OBVIOUS
        <3> HIDE DEF bad
        <3>2. QED BY <3>1, LeastNatural
    <2>2. n # 0
        <3> SUFFICES ASSUME n = 0 PROVE FALSE
            OBVIOUS
        <3>1. SumOf(upTo(0)) = 0
            <4>1. DOMAIN upTo(0) = {} /\ IsFiniteSet(DOMAIN upTo(0))
                BY <1>1
            <4> HIDE DEF upTo
            <4>2. QED BY <4>1, SumNat
        <3>2. c * 0 = 0
            OBVIOUS
        <3> HIDE DEF upTo
        <3>3. QED BY <3>1, <3>2
    <2>3. n \in 1..k /\ n - 1 \in 0..k /\ n - 1 \notin bad
        BY <2>1, <2>2
    <2>4. c * SumOf(upTo(n - 1)) <= g[n - 1]
        BY <2>3
    <2>5. ~(c * SumOf(upTo(n)) <= g[n])
        OBVIOUS
    <2> HIDE DEF bad
    <2>6. SumOf(upTo(n)) = SumOf(upTo(n - 1)) + f[n]
        <3>1. n \in Nat /\ n # 0 /\ \A i \in 1..n : f[i] \in Nat
            BY SMTT(60), <2>3
        <3>2. QED BY <3>1, SumPrefix
    <2> DEFINE s == SumOf(upTo(n - 1))
    <2>7. s \in Nat /\ f[n] \in Nat /\ g[n] \in Int /\ g[n - 1] \in Int
        <3> HIDE DEF upTo
        <3> QED BY <1>2, <2>3
    <2> HIDE DEF s
    <2>8. c * (s + f[n]) = c * s + c * f[n]
        BY <2>7
    <2>9. c * s <= g[n - 1] /\ c * f[n] <= g[n] - g[n - 1]
        BY <2>3, <2>4 DEF s
    <2>10. c * s \in Int /\ c * f[n] \in Int
        BY <2>7
    <2>11. c * (s + f[n]) <= g[n]
        <3> DEFINE p == c * s
                   q == c * f[n]
        <3>1. p \in Int /\ q \in Int /\ p <= g[n - 1] /\ q <= g[n] - g[n - 1]
            BY <2>9, <2>10
        <3> HIDE DEF p, q
        <3>2. p + q <= g[n]
            BY <3>1, <2>7
        <3>3. QED BY <3>2, <2>8 DEF p, q
    <2>12. QED BY <2>5, <2>6, <2>11 DEF s
<1>4. upTo(k) = f
    OBVIOUS
<1>5. k \notin bad
    BY <1>3
<1>6. QED BY <1>4, <1>5

-----------------------------------------------------------------------------
(* Division. *)

\* What division and remainder are.
LEMMA DivIs ==
    ASSUME NEW a \in Nat, NEW t \in Nat \ {0}
    PROVE  /\ a \div t \in Nat /\ a % t \in 0..(t - 1)
           /\ a = t * (a \div t) + (a % t)
OBVIOUS

\* The quotient is the only number that a division can leave.
LEMMA DivUnique ==
    ASSUME NEW a \in Nat, NEW t \in Nat \ {0}, NEW q \in Int, NEW r \in 0..(t - 1), a = t * q + r
    PROVE  a \div t = q
<1>1. /\ a \div t \in Nat /\ a % t \in 0..(t - 1)
      /\ a = t * (a \div t) + (a % t)
    BY DivIs
<1> DEFINE p == a \div t
<1>2. p \in Int /\ t * (p - q) = r - (a % t)
    BY <1>1
<1> HIDE DEF p
<1>3. CASE p > q
    <2>1. p - q >= 1 /\ p - q \in Nat
        BY <1>2, <1>3
    <2>2. t * (p - q) >= t
        BY <2>1
    <2>3. QED BY <2>2, <1>1, <1>2
<1>4. CASE p < q
    <2>1. q - p >= 1 /\ q - p \in Nat
        BY <1>2, <1>4
    <2>2. t * (q - p) >= t
        BY <2>1
    <2>3. t * (p - q) = -(t * (q - p))
        BY <1>2
    <2>4. QED BY <2>2, <2>3, <1>1, <1>2
<1>5. QED BY <1>2, <1>3, <1>4 DEF p

\* A multiple of the divisor comes out of a quotient.
LEMMA DivOfSum ==
    ASSUME NEW q \in Nat, NEW m \in Nat, NEW t \in Nat \ {0}
    PROVE  (q * t + m) \div t = q + m \div t
<1>1. m \div t \in Nat /\ m % t \in 0..(t - 1) /\ m = t * (m \div t) + (m % t)
    BY DivIs
<1>2. q * t + m = t * (q + m \div t) + (m % t)
    BY <1>1
<1>3. q * t + m \in Nat /\ q + m \div t \in Int
    BY <1>1
<1>4. QED BY <1>1, <1>2, <1>3, DivUnique

\* A quotient grows with what is divided.
LEMMA DivMonotone ==
    ASSUME NEW a \in Nat, NEW b \in Nat, a <= b, NEW t \in Nat \ {0}
    PROVE  a \div t <= b \div t
<1> DEFINE p == a \div t
           q == b \div t
<1>1. p \in Nat /\ a % t \in 0..(t - 1) /\ a = t * p + (a % t)
    BY DivIs
<1>2. q \in Nat /\ b % t \in 0..(t - 1) /\ b = t * q + (b % t)
    BY DivIs
<1>3. SUFFICES ASSUME q < p PROVE FALSE
    BY <1>1, <1>2
<1> HIDE DEF p, q
<1>4. p - q >= 1 /\ p - q \in Nat
    BY <1>1, <1>2, <1>3
<1>5. t * (p - q) >= t
    BY <1>4
<1>6. t * (p - q) = t * p - t * q
    BY <1>1, <1>2
<1>7. QED BY <1>1, <1>2, <1>5, <1>6
=============================================================================
