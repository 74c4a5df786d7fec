-------------------------- MODULE VerifiedRunProof --------------------------
(***************************************************************************)
(* Proofs about verified programs.                                         *)
(***************************************************************************)
EXTENDS VerifiedRun, XqvmProof

-----------------------------------------------------------------------------
(* The nesting of loops in the text. *)

\* The openers open at each position of the first n.
Opened(g, n, code) ==
  g = [p \in 0 .. n |-> IF p = 0 THEN <<>> ELSE OpenBehind(code, g[p - 1], p - 1)]

\* The recursion has a solution.
LEMMA OpenedExists ==
  ASSUME NEW code, NEW n \in Nat
  PROVE  \E g : Opened(g, n, code)
<1> DEFINE bad == {m \in Nat : ~ \E g : Opened(g, m, code)}
<1>1. SUFFICES ASSUME bad # {} PROVE FALSE
  OBVIOUS
<1>2. PICK m \in bad : \A k \in bad : m <= k
  <2>1. bad \subseteq Nat
    OBVIOUS
  <2> HIDE DEF bad
  <2> QED  BY <1>1, <2>1, LeastNatural
<1>3. m # 0
  <2>1. Opened([k \in 0 .. 0 |-> <<>>], 0, code)
    BY DEF Opened
  <2> QED  BY <2>1
<1>4. m \in Nat /\ m - 1 \in Nat /\ m - 1 \notin bad
  BY <1>2, <1>3
<1>5. PICK g : Opened(g, m - 1, code)
  BY <1>4
<1> DEFINE h == [k \in 0 .. m |-> IF k = m THEN OpenBehind(code, g[m - 1], m - 1) ELSE g[k]]
<1>6. Opened(h, m, code)
  <2>1. \A k \in 0 .. m : h[k] = IF k = 0 THEN <<>> ELSE OpenBehind(code, h[k - 1], k - 1)
    <3> SUFFICES ASSUME NEW k \in 0 .. m
                 PROVE  h[k] = IF k = 0 THEN <<>> ELSE OpenBehind(code, h[k - 1], k - 1)
      OBVIOUS
    <3>1. CASE k = m
      BY <1>3, <1>4, <3>1
    <3>2. CASE k # m
      <4>1. k \in 0 .. m - 1
        BY <1>4, <3>2
      <4>2. g[k] = IF k = 0 THEN <<>> ELSE OpenBehind(code, g[k - 1], k - 1)
        BY <1>5, <4>1 DEF Opened
      <4>3. k # 0 => h[k - 1] = g[k - 1]
        BY <1>4, <4>1
      <4> QED  BY <3>2, <4>1, <4>2, <4>3
    <3> QED  BY <3>1, <3>2
  <2> HIDE DEF h
  <2>2. DOMAIN h = 0 .. m /\ h = [k \in DOMAIN h |-> h[k]]
    BY DEF h
  <2>3. h = [k \in 0 .. m |-> IF k = 0 THEN <<>> ELSE OpenBehind(code, h[k - 1], k - 1)]
    BY <2>1, <2>2
  <2> QED  BY <2>3 DEF Opened
<1> QED  BY <1>2, <1>6

\* So the openers open before a position are what the position before makes them.
LEMMA OpenLoopsIs ==
  ASSUME NEW code, Len(code) \in Nat
  PROVE  /\ OpenLoops(code)[0] = <<>>
         /\ \A p \in Positions(code) : OpenLoops(code)[p + 1] = OpenBehind(code, OpenLoops(code)[p], p)
<1> DEFINE open == OpenLoops(code)
           n == Len(code)
<1>1. open = CHOOSE g : Opened(g, n, code)
  BY DEF OpenLoops, Opened
<1>2. Opened(open, n, code)
  BY <1>1, OpenedExists
<1> HIDE DEF open
<1>3. \A p \in 0 .. n : open[p] = IF p = 0 THEN <<>> ELSE OpenBehind(code, open[p - 1], p - 1)
  BY <1>2 DEF Opened
<1>4. open[0] = <<>>
  BY <1>3
<1>5. ASSUME NEW p \in Positions(code)
      PROVE  open[p + 1] = OpenBehind(code, open[p], p)
  <2> DEFINE q == p + 1
  <2>1. q \in 0 .. n /\ q # 0 /\ q - 1 = p
    BY DEF Positions
  <2> HIDE DEF q
  <2>2. open[q] = OpenBehind(code, open[p], p)
    BY <1>3, <2>1
  <2> QED  BY <2>2 DEF q
<1> QED  BY <1>4, <1>5 DEF open

\* What pushing and popping do to a sequence.
LEMMA PushedIs ==
  ASSUME NEW S, NEW q \in Seq(S), NEW e \in S
  PROVE  /\ Append(q, e) \in Seq(S) /\ Len(Append(q, e)) = Len(q) + 1
         /\ Append(q, e)[Len(q) + 1] = e
         /\ \A k \in 1 .. Len(q) : Append(q, e)[k] = q[k]
OBVIOUS

\* Popping leaves the elements before the last.
LEMMA PoppedIs ==
  ASSUME NEW S, NEW q \in Seq(S), q # <<>>
  PROVE  LET rest == SubSeq(q, 1, Len(q) - 1)
         IN  /\ rest \in Seq(S) /\ Len(rest) = Len(q) - 1 /\ Len(q) \in Nat \ {0}
             /\ \A k \in 1 .. Len(q) - 1 : rest[k] = q[k]
<1>1. Len(q) \in Nat /\ Len(q) >= 1
  OBVIOUS
<1> QED  BY <1>1, FrontIs DEF Front

Same(s, t, k) == \A i \in 1 .. k : s[i] = t[i]

\* The openers open at a position precede it, and behind each of them it and
\* those around it were open.
OpenStands(code, p) ==
  LET open == OpenLoops(code)[p]
  IN  /\ open \in Seq(Int)
      /\ \A k \in 1 .. Len(open) :
           /\ open[k] \in 0 .. p - 1 /\ OpAt(code, open[k]) \in LoopOpeners
           /\ Len(OpenLoops(code)[open[k] + 1]) = k
           /\ Same(OpenLoops(code)[open[k] + 1], open, k)

\* That is so at every position.
LEMMA LoopsStand ==
  ASSUME NEW code, Len(code) \in Nat, NEW p \in 0 .. Len(code)
  PROVE  OpenStands(code, p)
<1> DEFINE n == Len(code)
           open(q) == OpenLoops(code)[q]
           bad == {q \in 0 .. n : ~OpenStands(code, q)}
<1>1. /\ open(0) = <<>>
      /\ \A q \in 0 .. n - 1 : open(q + 1) = OpenBehind(code, open(q), q)
  BY OpenLoopsIs DEF Positions
<1>2. SUFFICES ASSUME bad # {} PROVE FALSE
  OBVIOUS
<1>3. PICK m \in bad : \A k \in bad : m <= k
  <2>1. bad \subseteq Nat
    OBVIOUS
  <2> HIDE DEF bad
  <2> QED  BY <1>2, <2>1, LeastNatural
<1>4. m # 0
  <2>1. OpenStands(code, 0)
    BY <1>1 DEF OpenStands
  <2> QED  BY <2>1, <1>3
<1> DEFINE q == m - 1
           old == open(q)
           new == open(m)
<1>5. q \in 0 .. n - 1 /\ m = q + 1 /\ m \in 0 .. n /\ q \notin bad /\ OpenStands(code, q)
  BY <1>3, <1>4
<1>6. new = OpenBehind(code, old, q)
  BY <1>1, <1>5
<1>7. /\ old \in Seq(Int) /\ Len(old) \in Nat
      /\ \A k \in 1 .. Len(old) : /\ old[k] \in 0 .. q - 1
                                /\ OpAt(code, old[k]) \in LoopOpeners
                                /\ Len(open(old[k] + 1)) = k
                                /\ \A i \in 1 .. k : open(old[k] + 1)[i] = old[i]
  BY <1>5 DEF OpenStands, Same
<1> HIDE DEF q, old, open
<1>8. CASE OpAt(code, q) \in LoopOpeners
  <2>1. new = Append(old, q)
    BY <1>6, <1>8 DEF OpenBehind
  <2>2. /\ new \in Seq(Int) /\ Len(new) = Len(old) + 1 /\ new[Len(new)] = q
        /\ \A k \in 1 .. Len(old) : new[k] = old[k]
    <3>1. q \in Int
      BY <1>5
    <3> HIDE DEF new
    <3> QED  BY <1>7, <2>1, <3>1, PushedIs
  <2>3. new = open(m)
    OBVIOUS
  <2> HIDE DEF new
  <2>4. ASSUME NEW k \in 1 .. Len(new)
        PROVE  /\ new[k] \in 0 .. m - 1 /\ OpAt(code, new[k]) \in LoopOpeners
               /\ Len(open(new[k] + 1)) = k
               /\ \A i \in 1 .. k : open(new[k] + 1)[i] = new[i]
    <3>1. CASE k = Len(new)
      <4>1. new[k] = q /\ open(new[k] + 1) = new
        BY <1>5, <2>2, <2>3, <3>1
      <4> QED  BY <1>5, <1>8, <3>1, <4>1
    <3>2. CASE k # Len(new)
      <4>1. k \in 1 .. Len(old) /\ new[k] = old[k]
        BY <1>7, <2>2, <3>2
      <4>2. \A i \in 1 .. k : new[i] = old[i]
        BY <1>7, <2>2, <4>1
      <4> QED  BY <1>5, <1>7, <4>1, <4>2
    <3> QED  BY <3>1, <3>2
  <2>5. /\ open(m) \in Seq(Int)
        /\ \A k \in 1 .. Len(open(m)) :
             /\ open(m)[k] \in 0 .. m - 1 /\ OpAt(code, open(m)[k]) \in LoopOpeners
             /\ Len(open(open(m)[k] + 1)) = k
             /\ \A i \in 1 .. k : open(open(m)[k] + 1)[i] = open(m)[i]
    BY <2>2, <2>3, <2>4
  <2>6. OpenStands(code, m)
    BY <2>5 DEF OpenStands, Same, open
  <2> QED  BY <1>3, <2>6
<1>9. CASE OpAt(code, q) \notin LoopOpeners
  <2>1. \/ new = old
        \/ old # <<>> /\ new = SubSeq(old, 1, Len(old) - 1)
    BY <1>6, <1>9 DEF OpenBehind
  <2>2. /\ new \in Seq(Int) /\ Len(new) \in Nat /\ Len(new) <= Len(old)
        /\ \A k \in 1 .. Len(new) : new[k] = old[k] /\ k \in 1 .. Len(old)
    <3> HIDE DEF new
    <3>1. CASE new = old
      BY <1>7, <3>1
    <3>2. CASE old # <<>> /\ new = SubSeq(old, 1, Len(old) - 1)
      <4>1. /\ new \in Seq(Int) /\ Len(new) = Len(old) - 1 /\ Len(old) \in Nat \ {0}
            /\ \A k \in 1 .. Len(old) - 1 : new[k] = old[k]
        BY <1>7, <3>2, PoppedIs
      <4> QED  BY <4>1
    <3> QED  BY <2>1, <3>1, <3>2
  <2>3. new = open(m)
    OBVIOUS
  <2> HIDE DEF new
  <2>4. ASSUME NEW k \in 1 .. Len(new)
        PROVE  /\ new[k] \in 0 .. m - 1 /\ OpAt(code, new[k]) \in LoopOpeners
               /\ Len(open(new[k] + 1)) = k
               /\ \A i \in 1 .. k : open(new[k] + 1)[i] = new[i]
    <3>1. k \in 1 .. Len(old) /\ new[k] = old[k]
      BY <2>2
    <3>2. \A i \in 1 .. k : new[i] = old[i]
      BY <2>2
    <3> QED  BY <1>5, <1>7, <3>1, <3>2
  <2>5. /\ open(m) \in Seq(Int)
        /\ \A k \in 1 .. Len(open(m)) :
             /\ open(m)[k] \in 0 .. m - 1 /\ OpAt(code, open(m)[k]) \in LoopOpeners
             /\ Len(open(open(m)[k] + 1)) = k
             /\ \A i \in 1 .. k : open(open(m)[k] + 1)[i] = open(m)[i]
    BY <2>2, <2>3, <2>4
  <2>6. OpenStands(code, m)
    BY <2>5 DEF OpenStands, Same, open
  <2> QED  BY <1>3, <2>6
<1> QED  BY <1>8, <1>9

\* The openers open at a position are a sequence of positions.
LEMMA OpenType ==
  ASSUME NEW code, Len(code) \in Nat, NEW p \in 0 .. Len(code)
  PROVE  OpenLoops(code)[p] \in Seq(Int) /\ Len(OpenLoops(code)[p]) \in Nat
<1>1. OpenStands(code, p)
  BY LoopsStand
<1>2. OpenLoops(code)[p] \in Seq(Int)
  BY <1>1 DEF OpenStands
<1> QED  BY <1>2

-----------------------------------------------------------------------------
(* The forward scan over a loop that is skipped. *)

\* The instructions of some kind behind a position, up to another.
Between(code, ops, p, q) == {r \in p + 1 .. q : OpAt(code, r) \in ops}
Many(code, ops, p, q) == Cardinality(Between(code, ops, p, q))
One(code, ops, q) == IF OpAt(code, q) \in ops THEN 1 ELSE 0

\* Counting goes on by one.
LEMMA ManyMore ==
  ASSUME NEW code, NEW ops, NEW p \in Int, NEW q \in Int, p < q
  PROVE  /\ Many(code, ops, p, q) \in Nat
         /\ Many(code, ops, p, q) = Many(code, ops, p, q - 1) + One(code, ops, q)
<1> DEFINE here == Between(code, ops, p, q)
           less == Between(code, ops, p, q - 1)
           first == p + 1
           last == q - 1
<1>1. IsFiniteSet(less) /\ Cardinality(less) \in Nat
  <2>1. first \in Int /\ last \in Int
    OBVIOUS
  <2>2. less \subseteq first .. last
    BY DEF Between
  <2> HIDE DEF first, last, less
  <2>3. IsFiniteSet(first .. last)
    BY <2>1, FS_Interval
  <2> QED  BY <2>2, <2>3, FS_Subset, FS_CardinalityType
<1>2. q \notin less /\ here = IF OpAt(code, q) \in ops THEN less \cup {q} ELSE less
  BY DEF Between
<1> HIDE DEF here, less
<1>3. Cardinality(here) = Cardinality(less) + (IF OpAt(code, q) \in ops THEN 1 ELSE 0)
  BY <1>1, <1>2, FS_AddElement
<1>4. Cardinality(here) \in Nat
  BY <1>1, <1>3
<1> QED  BY <1>3, <1>4 DEF Many, One, here, less

\* It begins with none.
LEMMA ManyNone ==
  ASSUME NEW code, NEW ops, NEW p \in Int
  PROVE  Many(code, ops, p, p) = 0
<1>1. Between(code, ops, p, p) = {}
  BY DEF Between
<1> QED  BY <1>1, FS_EmptySet DEF Many

\* The NEXT the scan from an opener at p stops at, and the positions before it.
Closes(code, p, r) ==
  /\ OpAt(code, r) = "NEXT"
  /\ Many(code, {"NEXT"}, p, r) = Many(code, LoopOpeners, p, r) + 1

\* While the scan has not stopped, the loop it skips is still open, and its
\* count is the number of loops open inside it.
Inside(code, p, q) ==
  LET first == OpenLoops(code)[p + 1]
      here == OpenLoops(code)[q]
      begun == Many(code, LoopOpeners, p, q - 1)
      ended == Many(code, {"NEXT"}, p, q - 1)
  IN  /\ begun \in Nat /\ ended \in Nat /\ ended <= begun
      /\ Len(here) = Len(first) + begun - ended
      /\ Same(here, first, Len(first))

\* The scan goes on by one instruction.
LEMMA InsideOnward ==
  ASSUME NEW code, Len(code) \in Nat, NEW p \in Positions(code), OpAt(code, p) \in LoopOpeners,
         NEW q \in p + 1 .. Len(code) - 1, Inside(code, p, q), ~Closes(code, p, q)
  PROVE  Inside(code, p, q + 1)
<1> DEFINE first == OpenLoops(code)[p + 1]
           old == OpenLoops(code)[q]
           new == OpenLoops(code)[q + 1]
           begun == Many(code, LoopOpeners, p, q - 1)
           ended == Many(code, {"NEXT"}, p, q - 1)
           begun1 == Many(code, LoopOpeners, p, q)
           ended1 == Many(code, {"NEXT"}, p, q)
           isOpener == OpAt(code, q) \in LoopOpeners
           isNext == OpAt(code, q) = "NEXT"
<1>1. p + 1 \in 0 .. Len(code) /\ p \in Int /\ q \in Int /\ p < q /\ q \in Positions(code) /\ q \in 0 .. Len(code)
  BY DEF Positions
<1>2. /\ first \in Seq(Int) /\ Len(first) \in Nat
      /\ old \in Seq(Int) /\ Len(old) \in Nat
  BY <1>1, OpenType
<1>3. new = OpenBehind(code, old, q)
  BY <1>1, OpenLoopsIs
<1>4. /\ begun \in Nat /\ ended \in Nat /\ ended <= begun
      /\ Len(old) = Len(first) + begun - ended
      /\ \A i \in 1 .. Len(first) : old[i] = first[i]
  BY DEF Inside, Same
<1> HIDE DEF isOpener, isNext
<1>a. ASSUME NEW ops
      PROVE  /\ Many(code, ops, p, q) \in Nat
             /\ Many(code, ops, p, q) = Many(code, ops, p, q - 1) + One(code, ops, q)
  <2>1. p \in Int /\ q \in Int /\ p < q
    BY <1>1
  <2> QED  BY <2>1, ManyMore, Zenon
<1>5. begun1 \in Nat /\ begun1 = begun + (IF isOpener THEN 1 ELSE 0)
  <2>1. begun1 \in Nat /\ begun1 = begun + One(code, LoopOpeners, q)
    BY <1>a, Zenon
  <2> QED  BY <2>1 DEF One, isOpener
<1>6. ended1 \in Nat /\ ended1 = ended + (IF isNext THEN 1 ELSE 0)
  <2>1. OpAt(code, q) \in {"NEXT"} <=> isNext
    BY DEF isNext
  <2>2. ended1 \in Nat /\ ended1 = ended + One(code, {"NEXT"}, q)
    BY <1>a, Zenon
  <2> QED  BY <2>1, <2>2 DEF One
<1>7. ~(isNext /\ ended1 = begun1 + 1)
  BY DEF Closes, isNext
<1>8. ~(isOpener /\ isNext)
  BY DEF LoopOpeners, isOpener, isNext
<1>9. new = IF isOpener THEN Append(old, q)
            ELSE IF isNext /\ old # <<>> THEN SubSeq(old, 1, Len(old) - 1)
            ELSE old
  BY <1>3 DEF OpenBehind, isOpener, isNext
<1> HIDE DEF first, old, new, begun, ended, begun1, ended1
<1>10. /\ ended1 <= begun1
       /\ Len(new) = Len(first) + begun1 - ended1
       /\ \A i \in 1 .. Len(first) : new[i] = first[i]
  <2>1. CASE isOpener
    <3>1. /\ new = Append(old, q) /\ Len(new) = Len(old) + 1
          /\ \A k \in 1 .. Len(old) : new[k] = old[k]
      BY <1>1, <1>2, <1>9, <2>1, PushedIs
    <3>2. begun1 = begun + 1 /\ ended1 = ended
      BY <1>4, <1>5, <1>6, <1>8, <2>1
    <3> QED  BY <1>2, <1>4, <3>1, <3>2
  <2>2. CASE isNext
    <3>1. begun1 = begun /\ ended1 = ended + 1 /\ ended1 <= begun1
      BY <1>4, <1>5, <1>6, <1>7, <1>8, <2>2
    <3>2. Len(old) >= Len(first) + 1 /\ Len(old) >= 1
      BY <1>2, <1>4, <3>1
    <3>3. old # <<>>
      BY <3>2
    <3>4. /\ new = SubSeq(old, 1, Len(old) - 1) /\ Len(new) = Len(old) - 1
          /\ \A k \in 1 .. Len(old) - 1 : new[k] = old[k]
      BY <1>2, <1>8, <1>9, <2>2, <3>3, PoppedIs
    <3> QED  BY <1>2, <1>4, <3>1, <3>2, <3>4
  <2>3. CASE ~isOpener /\ ~isNext
    BY <1>2, <1>4, <1>5, <1>6, <1>9, <2>3
  <2> QED  BY <2>1, <2>2, <2>3
<1>11. q + 1 - 1 = q
  BY <1>1
<1> QED  BY <1>5, <1>6, <1>10, <1>11 DEF Inside, Same, first, new, begun1, ended1

\* So it holds wherever the scan comes.
LEMMA InsideAll ==
  ASSUME NEW code, Len(code) \in Nat, NEW p \in Positions(code), OpAt(code, p) \in LoopOpeners,
         NEW q \in p + 1 .. Len(code), \A r \in p + 1 .. q - 1 : ~Closes(code, p, r)
  PROVE  Inside(code, p, q)
<1> DEFINE bad == {k \in p + 1 .. q : ~Inside(code, p, k)}
<1>1. p \in Nat /\ p \in Int /\ q \in Int /\ q <= Len(code) /\ p \in 0 .. Len(code)
  BY DEF Positions
<1>2. SUFFICES ASSUME bad # {} PROVE FALSE
  BY <1>1
<1>3. PICK m \in bad : \A k \in bad : m <= k
  <2>1. bad \subseteq Nat
    BY <1>1
  <2> HIDE DEF bad
  <2> QED  BY <1>2, <2>1, LeastNatural
<1>4. m # p + 1
  <2> DEFINE behind == p + 1
             before == behind - 1
             first == OpenLoops(code)[behind]
  <2>1. behind \in 0 .. Len(code) /\ before = p
    BY <1>1
  <2>2. Len(first) \in Nat
    BY <2>1, LoopsStand DEF OpenStands
  <2>3. Many(code, LoopOpeners, p, before) = 0 /\ Many(code, {"NEXT"}, p, before) = 0
    BY <1>1, <2>1, ManyNone
  <2> HIDE DEF before
  <2>4. Len(first) = Len(first) + 0 - 0 /\ Same(first, first, Len(first)) /\ 0 \in Nat /\ 0 <= 0
    BY <2>2 DEF Same
  <2>5. Inside(code, p, behind)
    <3> HIDE DEF behind
    <3> QED  BY <2>3, <2>4 DEF Inside, before, behind
  <2> QED  BY <1>3, <2>5
<1> DEFINE k == m - 1
<1>5. /\ k \in p + 1 .. Len(code) - 1 /\ k \in p + 1 .. q - 1
      /\ k \notin bad /\ Inside(code, p, k) /\ k + 1 = m /\ ~Inside(code, p, m)
  BY <1>1, <1>3, <1>4
<1> HIDE DEF k, bad
<1>6. Inside(code, p, k + 1)
  BY <1>5, InsideOnward
<1> QED  BY <1>5, <1>6

\* The scan from an opener stops where the loop the opener opened is closed;
\* it does stop in a program that leaves no loop open.
LEMMA ScanFindsTheEnd ==
  ASSUME NEW code, Len(code) \in Nat, NEW p \in Positions(code), OpAt(code, p) \in LoopOpeners,
         OpenLoops(code)[Len(code)] = <<>>,
         NEW stops, stops = {r \in p + 1 .. Len(code) - 1 : Closes(code, p, r)}
  PROVE  /\ stops # {}
         /\ Min(stops) \in p + 1 .. Len(code) - 1
         /\ OpAt(code, Min(stops)) = "NEXT"
         /\ OpenLoops(code)[Min(stops)] = OpenLoops(code)[p + 1]
         /\ OpenLoops(code)[Min(stops) + 1] = OpenLoops(code)[p]
         /\ \A r \in p + 1 .. Min(stops) - 1 : ~Closes(code, p, r)
<1> DEFINE n == Len(code)
           outer == OpenLoops(code)[p]
           behind == p + 1
           first == OpenLoops(code)[behind]
<1>1. p \in Nat /\ p \in Int /\ p < n /\ p \in 0 .. n /\ behind \in 0 .. n
  BY DEF Positions
<1>2. outer \in Seq(Int) /\ Len(outer) \in Nat
  BY <1>1, OpenType
<1>a. first \in Seq(Int) /\ Len(first) \in Nat /\ Len(first) = Len(outer) + 1 /\ \A k \in 1 .. Len(outer) : first[k] = outer[k]
  <2>1. first = Append(outer, p)
    BY OpenLoopsIs DEF OpenBehind
  <2> HIDE DEF first, outer
  <2> QED  BY <1>1, <1>2, <2>1, PushedIs
<1>3. stops # {}
  <2> SUFFICES ASSUME stops = {} PROVE FALSE
    OBVIOUS
  <2>1. n \in p + 1 .. n /\ \A r \in p + 1 .. n - 1 : ~Closes(code, p, r)
    BY <1>1
  <2>2. Inside(code, p, n)
    BY <2>1, InsideAll
  <2>3. Len(OpenLoops(code)[n]) >= 1
    BY <1>2, <1>a, <2>2 DEF Inside
  <2> QED  BY <2>3
<1> DEFINE c == Min(stops)
<1>4. c \in stops /\ \A r \in stops : c <= r
  <2>1. stops \subseteq Int
    BY <1>1
  <2>2. IsFiniteSet(stops)
    <3> DEFINE last == n - 1
    <3>1. behind \in Int /\ last \in Int /\ stops \subseteq behind .. last
      BY <1>1
    <3> HIDE DEF behind, last
    <3>2. IsFiniteSet(behind .. last)
      BY <3>1, FS_Interval
    <3> QED  BY <3>1, <3>2, FS_Subset
  <2> QED  BY <1>3, <2>1, <2>2, MinIs
<1> HIDE DEF c
<1>5. /\ c \in p + 1 .. n - 1 /\ Closes(code, p, c) /\ c \in Int /\ p < c
      /\ c \in Positions(code) /\ c \in 0 .. n
      /\ \A r \in p + 1 .. c - 1 : ~Closes(code, p, r)
  BY <1>1, <1>4 DEF Positions
<1>6. Inside(code, p, c)
  <2>1. c \in p + 1 .. n
    BY <1>1, <1>5
  <2> QED  BY <1>5, <2>1, InsideAll
<1> DEFINE old == OpenLoops(code)[c]
           new == OpenLoops(code)[c + 1]
           begun == Many(code, LoopOpeners, p, c - 1)
           ended == Many(code, {"NEXT"}, p, c - 1)
           begun1 == Many(code, LoopOpeners, p, c)
           ended1 == Many(code, {"NEXT"}, p, c)
<1>7. OpAt(code, c) = "NEXT" /\ ended1 = begun1 + 1
  BY <1>5 DEF Closes
<1>8. OpAt(code, c) \notin LoopOpeners
  BY <1>7 DEF LoopOpeners
<1>9. begun1 = begun + 0 /\ ended1 = ended + 1
  <2>a. ASSUME NEW ops
        PROVE  Many(code, ops, p, c) = Many(code, ops, p, c - 1) + One(code, ops, c)
    <3>1. p \in Int /\ c \in Int /\ p < c
      BY <1>1, <1>5
    <3> QED  BY <3>1, ManyMore, Zenon
  <2>1. begun1 = begun + One(code, LoopOpeners, c)
    BY <2>a, Zenon
  <2>2. ended1 = ended + One(code, {"NEXT"}, c)
    BY <2>a, Zenon
  <2> QED  BY <1>7, <1>8, <2>1, <2>2 DEF One
<1>10. /\ begun \in Nat /\ ended \in Nat /\ ended <= begun
       /\ Len(old) = Len(first) + begun - ended
       /\ \A i \in 1 .. Len(first) : old[i] = first[i]
  BY <1>6 DEF Inside, Same
<1>11. old \in Seq(Int)
  BY <1>5, LoopsStand DEF OpenStands
<1>12. new = OpenBehind(code, old, c)
  BY <1>5, OpenLoopsIs
<1> HIDE DEF outer, first, old, begun, ended, begun1, ended1
<1>13. Len(old) = Len(first)
  <2>1. begun = ended
    BY <1>7, <1>9, <1>10
  <2> QED  BY <1>a, <1>10, <2>1
<1>14. old = first /\ old # <<>>
  <2>1. DOMAIN old = 1 .. Len(first) /\ old = [k \in DOMAIN old |-> old[k]]
    BY <1>11, <1>13
  <2>2. DOMAIN first = 1 .. Len(first) /\ first = [k \in DOMAIN first |-> first[k]]
    BY <1>a
  <2>3. old = first
    BY <1>10, <2>1, <2>2
  <2>4. Len(first) >= 1
    BY <1>2, <1>a
  <2> QED  BY <2>3, <2>4
<1>15. new = SubSeq(old, 1, Len(old) - 1)
  BY <1>7, <1>8, <1>12, <1>14 DEF OpenBehind
<1> HIDE DEF new
<1>16. /\ new \in Seq(Int) /\ Len(new) = Len(outer)
       /\ \A k \in 1 .. Len(outer) : new[k] = outer[k]
  <2>1. /\ new \in Seq(Int) /\ Len(new) = Len(old) - 1
        /\ \A k \in 1 .. Len(old) - 1 : new[k] = old[k]
    BY <1>11, <1>14, <1>15, PoppedIs
  <2>2. Len(old) - 1 = Len(outer)
    BY <1>2, <1>a, <1>13
  <2> QED  BY <1>2, <1>a, <1>10, <1>14, <2>1, <2>2
<1>17. new = outer
  <2>1. DOMAIN new = 1 .. Len(outer) /\ new = [k \in DOMAIN new |-> new[k]]
    BY <1>2, <1>16
  <2>2. DOMAIN outer = 1 .. Len(outer) /\ outer = [k \in DOMAIN outer |-> outer[k]]
    BY <1>2
  <2> QED  BY <1>16, <2>1, <2>2
<1> QED  BY <1>3, <1>5, <1>7, <1>14, <1>17 DEF c, old, new, outer, first, behind

-----------------------------------------------------------------------------
(* The machine keeps to the loops of the text. *)

\* The frames on the loop stack are those of the openers open in the text, and
\* each leads back behind its opener.
Matches(frames, open) ==
  /\ \E S : frames \in Seq(S)
  /\ Len(frames) = Len(open)
  /\ \A k \in 1 .. Len(open) : "body" \in DOMAIN frames[k] /\ frames[k].body = open[k] + 1

InText == pc \in 0 .. Len(program) /\ Matches(loops, OpenLoops(program)[pc])

OnTrack ==
  /\ status \notin ControlFaults
  /\ status = "running" => InText

\* What holds of a program that passed the scan and keeps its jumps in the loop.
Sound ==
  /\ Len(program) \in Nat
  /\ ScanAccepts(program)
  /\ JumpsStayInLoop(program)
  /\ status = "running"
  /\ InText

\* The run ends, in no fault of the control flow.
Ended == program' = program /\ status' \notin ControlFaults \cup {"running"}

\* An instruction outside of the loops' own goes on with the next one.
Plain == program' = program /\ pc' = pc + 1 /\ loops' = loops /\ status' = status

\* A charge is paid in full or ends the run.
LEMMA ChargeEnds ==
  ASSUME NEW bytes, NEW units, NEW ACTION work, Charged(bytes, units, work)
  PROVE  Ended \/ (program' = program /\ work)
BY DEF Charged, Raise, Ended, ControlFaults

\* A fault other than those of the control flow ends the run.
LEMMA Raising ==
  ASSUME NEW fault, fault \notin ControlFaults \cup {"running"}, program' = program, Raise(fault)
  PROVE  Ended
BY DEF Raise, Ended

\* A push, the setting of a register and its writing go on or end the run.
LEMMA Pushing ==
  ASSUME NEW value, program' = program, Push(value)
  PROVE  Ended \/ Plain
BY DEF Push, Raise, Advance, Plain, Ended, ControlFaults

\* Setting a register is such an instruction.
LEMMA Setting ==
  ASSUME NEW value, program' = program, Set(value)
  PROVE  Plain
BY DEF Set, Advance, Plain

\* So is writing one.
LEMMA Writing ==
  ASSUME NEW value, program' = program, Write(value)
  PROVE  Plain
BY Setting DEF Write

\* The fault of a register that holds another kind of value.
LEMMA KindFault == WrongKind \notin ControlFaults \cup {"running"}
BY DEF WrongKind, ControlFaults

\* The instructions of the stack.
LEMMA StackSteps ==
  ASSUME Nop \/ PushImmediate \/ Pop \/ ClearStack \/ Swap \/ Copy \/ Arithmetic
  PROVE  Ended \/ Plain
<1>1. CASE Nop
  BY <1>1, ChargeEnds DEF Nop, Free, Done, Advance, Plain
<1>2. CASE PushImmediate
  BY <1>2, ChargeEnds, Pushing DEF PushImmediate, Free
<1>3. CASE Pop
  BY <1>3, ChargeEnds DEF Pop, Free, Done, Advance, Plain
<1>4. CASE ClearStack
  BY <1>4, ChargeEnds DEF ClearStack, Free, Advance, Plain
<1>5. CASE Swap
  BY <1>5, ChargeEnds DEF Swap, Free, Advance, Plain
<1>6. CASE Copy
  <2>1. Ended \/ /\ program' = program
                 /\ IF Len(stack) >= StackLimit
                      THEN status' = "StackOverflow"
                      ELSE UNCHANGED loops /\ Advance
    BY <1>6, ChargeEnds DEF Copy, Free
  <2> QED  BY <2>1 DEF Advance, Plain, Ended, ControlFaults
<1>7. CASE Arithmetic
  <2>1. ASSUME NEW result, PushChecked(result)
        PROVE  Ended \/ Plain
    <3>1. Ended \/ (program' = program /\ IF InRange(result) THEN Push(result) ELSE Raise("ArithmeticOverflow"))
      BY <2>1, ChargeEnds DEF PushChecked, Free
    <3> QED  BY <3>1, Pushing, Raising DEF ControlFaults
  <2> QED  BY <1>7, <2>1 DEF Arithmetic
<1> QED  BY <1>1, <1>2, <1>3, <1>4, <1>5, <1>6, <1>7

\* Registers, calldata and output slots.
LEMMA RegisterSteps ==
  ASSUME Load \/ Stow \/ DropRegister \/ Input \/ Output
  PROVE  Ended \/ Plain
<1>1. CASE Load
  <2>1. Ended \/ /\ program' = program
                 /\ IF Reg.t # "Int" THEN Raise(WrongKind) ELSE Push(Reg.n)
    BY <1>1, ChargeEnds DEF Load, Free
  <2> QED  BY <2>1, Raising, KindFault, Pushing
<1>2. CASE Stow
  BY <1>2, ChargeEnds, Writing DEF Stow, Free
<1>3. CASE DropRegister
  BY <1>3, ChargeEnds, Writing DEF DropRegister, Free
<1>4. CASE Input
  <2> DEFINE i == Operand(1)
  <2>1. CASE ~(0 <= i /\ i < Len(Calldata))
    BY <1>4, <2>1, ChargeEnds, Raising DEF Input, Free, ControlFaults
  <2>2. CASE 0 <= i /\ i < Len(Calldata)
    BY <1>4, <2>2, ChargeEnds, Writing DEF Input
  <2> QED  BY <2>1, <2>2
<1>5. CASE Output
  <2>1. Ended \/ /\ program' = program
                 /\ IF Reg.t = "Unset" THEN Raise("UnsetRegister")
                    ELSE IF ~(0 <= Operand(1) /\ Operand(1) < OutputSlots)
                      THEN Raise("OutputIndex")
                    ELSE pc' = pc + 1 /\ loops' = loops /\ status' = status
    BY <1>5 DEF Output, Charged, Raise, Ended, ControlFaults
  <2> QED  BY <2>1, Raising DEF Plain, ControlFaults
<1> QED  BY <1>1, <1>2, <1>3, <1>4, <1>5

\* Vectors, models and their coefficients.
LEMMA DataSteps ==
  ASSUME NewVec \/ VecPush \/ VecGet \/ VecSet \/ VecLen \/ Allocate \/ GetLine \/ WriteLine
  PROVE  Ended \/ Plain
<1>1. CASE NewVec
  BY <1>1, ChargeEnds, Writing DEF NewVec, Free
<1>2. CASE VecPush
  <2>1. Ended \/ /\ program' = program
                 /\ IF Reg.t # "VecInt" THEN Raise("TypeMismatch")
                    ELSE Write(VecIntVal(Append(Reg.items, Operand(1))))
    BY <1>2, ChargeEnds DEF VecPush
  <2> QED  BY <2>1, Raising, Writing DEF ControlFaults
<1>3. CASE VecGet
  <2>1. Ended \/ /\ program' = program
                 /\ IF Reg.t # "VecInt" THEN Raise("TypeMismatch")
                    ELSE IF ~(0 <= Operand(1) /\ Operand(1) < Len(Reg.items))
                      THEN Raise("IndexOutOfBounds")
                    ELSE Push(Reg.items[Operand(1) + 1])
    BY <1>3, ChargeEnds DEF VecGet, Free
  <2> QED  BY <2>1, Raising, Pushing DEF ControlFaults
<1>4. CASE VecSet
  <2>1. Ended \/ /\ program' = program
                 /\ IF Reg.t # "VecInt" THEN Raise("TypeMismatch")
                    ELSE IF ~(0 <= Operand(2) /\ Operand(2) < Len(Reg.items))
                      THEN Raise("IndexOutOfBounds")
                    ELSE Write(VecIntVal([Reg.items EXCEPT ![Operand(2) + 1] = Operand(1)]))
    BY <1>4, ChargeEnds DEF VecSet, Free
  <2> QED  BY <2>1, Raising, Writing DEF ControlFaults
<1>5. CASE VecLen
  <2>1. Ended \/ /\ program' = program
                 /\ IF Reg.t \notin {"VecInt", "VecXqmx"} THEN Raise("TypeMismatch")
                    ELSE Push(Len(Reg.items))
    BY <1>5, ChargeEnds DEF VecLen, Free
  <2> QED  BY <2>1, Raising, Pushing DEF ControlFaults
<1>6. CASE Allocate
  <2> DEFINE size == Operand(1)
  <2>1. CASE size < 0
    BY <1>6, <2>1, ChargeEnds, Raising DEF Allocate, Free, ControlFaults
  <2>2. CASE ~(size < 0)
    BY <1>6, <2>2, ChargeEnds, Writing DEF Allocate
  <2> QED  BY <2>1, <2>2
<1>7. CASE GetLine
  <2>1. Ended \/ /\ program' = program
                 /\ IF ~IsGrid(Reg) THEN Raise("TypeMismatch")
                    ELSE IF Operand(1) \notin DOMAIN Reg.linear
                      THEN Raise("IndexOutOfBounds")
                    ELSE Push(Reg.linear[Operand(1)])
    BY <1>7, ChargeEnds DEF GetLine, Free
  <2> QED  BY <2>1, Raising, Pushing DEF ControlFaults
<1>8. CASE WriteLine
  <2> DEFINE value == IF Current.op = "SETLINE" THEN Operand(1)
                      ELSE Reg.linear[Operand(2)] + Operand(1)
             isModel == Reg.t = "Model"
  <2>1. Ended \/ /\ program' = program
                 /\ IF ~IsGrid(Reg) THEN Raise("TypeMismatch")
                    ELSE IF Operand(2) \notin DOMAIN Reg.linear
                      THEN Raise("IndexOutOfBounds")
                    ELSE IF ~InRange(value) THEN Raise("ArithmeticOverflow")
                    ELSE IF ~isModel /\ value \notin {0, 1}
                      THEN Raise("ValueOutOfDomain")
                    ELSE /\ Set([Reg EXCEPT !.linear[Operand(2)] = value])
                         /\ UNCHANGED lent
    <3>1. Charged(IF isModel THEN LinearEntryBytes ELSE 0, IF isModel THEN CoeffWriteSteps ELSE 0,
                    IF ~IsGrid(Reg) THEN Raise("TypeMismatch")
                    ELSE IF Operand(2) \notin DOMAIN Reg.linear
                      THEN Raise("IndexOutOfBounds")
                    ELSE IF ~InRange(value) THEN Raise("ArithmeticOverflow")
                    ELSE IF ~isModel /\ value \notin {0, 1}
                      THEN Raise("ValueOutOfDomain")
                    ELSE /\ Set([Reg EXCEPT !.linear[Operand(2)] = value])
                         /\ UNCHANGED lent)
      BY <1>8 DEF WriteLine
    <3> HIDE DEF value, isModel
    <3> QED  BY <3>1 DEF Charged, Raise, Ended, ControlFaults
  <2> HIDE DEF value, isModel
  <2> QED  BY <2>1, Raising, Setting DEF ControlFaults
<1> QED  BY <1>1, <1>2, <1>3, <1>4, <1>5, <1>6, <1>7, <1>8

-----------------------------------------------------------------------------
(* Back in the text: how each kind of step keeps the frames on its loops. *)

InTextNext == status' = "running" /\ InText'
Kept == Ended \/ (program' = program /\ InTextNext)

\* An instruction that opens and closes no loop.
LEMMA PlainKeeps ==
  ASSUME Sound, pc < Len(program), OpAt(program, pc) \notin LoopOpeners \cup {"NEXT"}, Plain
  PROVE  Kept
<1>1. pc \in Positions(program) /\ pc + 1 \in 0 .. Len(program)
  BY DEF Sound, InText, Positions
<1>2. OpenLoops(program)[pc + 1] = OpenLoops(program)[pc]
  BY <1>1, OpenLoopsIs DEF Sound, OpenBehind
<1> QED  BY <1>1, <1>2 DEF Sound, InText, InTextNext, Kept, Plain

\* A jump that stays in its loop.
LEMMA GoToKeeps ==
  ASSUME Sound, pc < Len(program), OpAt(program, pc) \in Jumps,
         program' = program, GoTo(At(program, pc).arg)
  PROVE  Kept
<1> DEFINE label == At(program, pc).arg
           target == TargetOf(program, label)
<1>1. pc \in Positions(program)
  BY DEF Sound, InText, Positions
<1>2. Labelled(program, label) # {}
  BY <1>1 DEF Sound, ScanAccepts
<1>3. target \in 0 .. Len(program)
  <2>1. target \in Labelled(program, label)
    BY <1>2 DEF TargetOf
  <2> QED  BY <2>1 DEF Labelled, Targets, Positions, Sound
<1>4. OpenLoops(program)[pc] = OpenLoops(program)[target]
  BY <1>1, <1>2 DEF Sound, JumpsStayInLoop
<1>5. pc' = target /\ loops' = loops /\ status' = status
  BY <1>2 DEF GoTo
<1> HIDE DEF target
<1> QED  BY <1>3, <1>4, <1>5 DEF Sound, InText, InTextNext, Kept

\* The entry of a loop.
LEMMA EnterKeeps ==
  ASSUME Sound, pc < Len(program), OpAt(program, pc) \in LoopOpeners, program' = program,
         NEW frame, "body" \in DOMAIN frame, frame.body = pc + 1, Enter(frame)
  PROVE  Kept
<1>1. CASE Len(loops) >= LoopLimit
  BY <1>1, Raising DEF Enter, Kept, ControlFaults
<1>2. CASE ~(Len(loops) >= LoopLimit)
  <2> DEFINE open == OpenLoops(program)[pc]
             new == OpenLoops(program)[pc + 1]
  <2>1. pc \in Positions(program) /\ pc + 1 \in 0 .. Len(program) /\ pc \in 0 .. Len(program) /\ pc \in Int
    BY DEF Sound, InText, Positions
  <2>2. new = Append(open, pc)
    BY <2>1, OpenLoopsIs DEF Sound, OpenBehind
  <2>3. pc' = pc + 1 /\ loops' = Append(loops, frame) /\ status' = "running"
    BY <1>2 DEF Enter, Advance, Sound
  <2>4. open \in Seq(Int)
    BY <2>1, LoopsStand DEF OpenStands, Sound
  <2>5. PICK S : loops \in Seq(S)
    BY DEF Sound, InText, Matches
  <2>6. /\ Len(loops) = Len(open)
        /\ \A k \in 1 .. Len(open) : "body" \in DOMAIN loops[k] /\ loops[k].body = open[k] + 1
    BY DEF Sound, InText, Matches
  <2> HIDE DEF open, new
  <2>7. /\ Len(new) = Len(open) + 1 /\ Len(open) \in Nat
        /\ new[Len(open) + 1] = pc /\ \A k \in 1 .. Len(open) : new[k] = open[k]
    BY <2>1, <2>2, <2>4, PushedIs
  <2> DEFINE T == S \cup {frame}
  <2>8. loops \in Seq(T) /\ frame \in T
    BY <2>5, WiderSeq
  <2> HIDE DEF T
  <2>9. /\ loops' \in Seq(T) /\ Len(loops') = Len(loops) + 1
        /\ loops'[Len(loops) + 1] = frame /\ \A k \in 1 .. Len(loops) : loops'[k] = loops[k]
    BY <2>3, <2>8, PushedIs
  <2>10. ASSUME NEW k \in 1 .. Len(new)
         PROVE  "body" \in DOMAIN loops'[k] /\ loops'[k].body = new[k] + 1
    <3>1. CASE k = Len(open) + 1
      BY <2>6, <2>7, <2>9, <3>1
    <3>2. CASE k # Len(open) + 1
      <4>1. k \in 1 .. Len(open)
        BY <2>7, <3>2
      <4> QED  BY <2>6, <2>7, <2>9, <4>1
    <3> QED  BY <3>1, <3>2
  <2>11. Matches(loops', new)
    BY <2>6, <2>7, <2>9, <2>10 DEF Matches
  <2> QED  BY <2>1, <2>3, <2>11 DEF Kept, InText, InTextNext, new
<1> QED  BY <1>1, <1>2

\* The skipping of a loop.
LEMMA SkipKeeps ==
  ASSUME Sound, pc < Len(program), OpAt(program, pc) \in LoopOpeners, SkipLoop
  PROVE  Kept
<1> DEFINE stops == {r \in pc + 1 .. Len(program) - 1 : Closes(program, pc, r)}
<1>1. Closings = stops
  BY DEF Closings, Count, Closes, Many, Between
<1>2. pc \in Positions(program)
  BY DEF Sound, InText, Positions
<1>3. /\ stops # {}
      /\ Min(stops) \in pc + 1 .. Len(program) - 1
      /\ OpenLoops(program)[Min(stops) + 1] = OpenLoops(program)[pc]
  <2>1. OpenLoops(program)[Len(program)] = <<>> /\ Len(program) \in Nat
    BY DEF Sound, ScanAccepts
  <2> QED  BY <1>2, <2>1, ScanFindsTheEnd
<1> HIDE DEF stops
<1>a. Min(stops) + 1 \in 0 .. Len(program)
  BY <1>2, <1>3 DEF Positions
<1>4. program' = program
  BY DEF SkipLoop
<1>5. Ended \/ (pc' = Min(stops) + 1 /\ loops' = loops /\ status' = status)
  BY <1>1, <1>3, <1>4, Raising DEF SkipLoop, ControlFaults
<1> QED  BY <1>a, <1>3, <1>4, <1>5 DEF Sound, InText, InTextNext, Kept

\* The end of a body: back behind the opener, or out of the loop.
LEMMA EndKeeps ==
  ASSUME Sound, pc < Len(program), OpAt(program, pc) = "NEXT", EndOfBody
  PROVE  Kept
<1> DEFINE open == OpenLoops(program)[pc]
           n == Len(open)
           outer == SubSeq(loops, 1, Len(loops) - 1)
           frame == Advanced(Top)
           behind == open[n] + 1
           back == OpenLoops(program)[behind]
           next == OpenLoops(program)[pc + 1]
<1>1. pc \in Positions(program) /\ pc + 1 \in 0 .. Len(program) /\ pc \in 0 .. Len(program) /\ pc \in Int
  BY DEF Sound, InText, Positions
<1>2. open # <<>>
  BY <1>1 DEF Sound, ScanAccepts
<1>3. OpenStands(program, pc)
  BY <1>1, LoopsStand DEF Sound
<1>4. /\ open \in Seq(Int) /\ n \in Nat \ {0}
      /\ open[n] \in 0 .. pc - 1 /\ Len(back) = n
      /\ \A i \in 1 .. n : back[i] = open[i]
  <2>1. /\ open \in Seq(Int)
        /\ \A k \in 1 .. n : /\ open[k] \in 0 .. pc - 1
                             /\ Len(OpenLoops(program)[open[k] + 1]) = k
                             /\ \A i \in 1 .. k : OpenLoops(program)[open[k] + 1][i] = open[i]
    BY <1>3 DEF OpenStands, Same
  <2>2. n \in Nat \ {0} /\ n \in 1 .. n
    <3> HIDE DEF open
    <3> QED  BY <1>2, <2>1
  <2> HIDE DEF open, n
  <2> QED  BY <2>1, <2>2
<1>5. /\ Len(loops) = n
      /\ \A k \in 1 .. n : "body" \in DOMAIN loops[k] /\ loops[k].body = open[k] + 1
  BY DEF Sound, InText, Matches
<1>6. PICK S : loops \in Seq(S)
  BY DEF Sound, InText, Matches
<1>7. next = SubSeq(open, 1, n - 1)
  <2>1. next = OpenBehind(program, open, pc)
    BY <1>1, OpenLoopsIs DEF Sound
  <2>2. OpAt(program, pc) \notin LoopOpeners
    BY DEF LoopOpeners
  <2> HIDE DEF next, open
  <2> QED  BY <1>2, <2>1, <2>2 DEF OpenBehind
<1>8. Ended \/ /\ program' = program
               /\ IF loops = <<>> THEN Raise("NoActiveLoop")
                  ELSE IF frame.kind = "range" /\ ~InRange(frame.current)
                    THEN Raise("ArithmeticOverflow")
                  ELSE /\ status' = status
                       /\ IF More(frame)
                            THEN loops' = Append(outer, frame) /\ pc' = frame.body
                            ELSE loops' = outer /\ pc' = pc + 1
  BY DEF EndOfBody, Free, Charged, Raise, Ended, ControlFaults
<1>9. "body" \in DOMAIN frame /\ frame.body = behind
  <2> DEFINE top == loops[n]
  <2>1. Top = top /\ "body" \in DOMAIN top /\ top.body = behind
    BY <1>4, <1>5 DEF Top
  <2>2. frame = Advanced(top)
    BY <2>1
  <2> HIDE DEF top, frame, behind
  <2> QED  BY <2>1, <2>2 DEF Advanced
<1> HIDE DEF open, n, frame, behind, back, next
<1>10. loops # <<>>
  BY <1>4, <1>5
<1>11. /\ outer \in Seq(S) /\ Len(outer) = n - 1
       /\ \A k \in 1 .. n - 1 : outer[k] = loops[k]
  BY <1>5, <1>6, <1>10, PoppedIs
<1>12. /\ Len(next) = n - 1
       /\ \A k \in 1 .. n - 1 : next[k] = open[k]
  BY <1>2, <1>4, <1>7, PoppedIs DEF n
<1>13. Matches(outer, next)
  <2> HIDE DEF outer
  <2>1. ASSUME NEW k \in 1 .. n - 1
        PROVE  "body" \in DOMAIN outer[k] /\ outer[k].body = next[k] + 1
    <3>1. k \in 1 .. n
      BY <1>4
    <3> QED  BY <1>5, <1>11, <1>12, <3>1
  <2> QED  BY <1>11, <1>12, <2>1 DEF Matches
<1>14. Matches(Append(outer, frame), back) /\ behind \in 0 .. Len(program)
  <2> DEFINE T == S \cup {frame}
             turned == Append(outer, frame)
  <2>1. outer \in Seq(T) /\ frame \in T
    BY <1>11, WiderSeq
  <2> HIDE DEF outer, T
  <2>2. /\ turned \in Seq(T) /\ Len(turned) = n - 1 + 1
        /\ turned[n - 1 + 1] = frame /\ \A k \in 1 .. n - 1 : turned[k] = loops[k]
    BY <1>11, <2>1, PushedIs
  <2> HIDE DEF turned
  <2>3. ASSUME NEW k \in 1 .. n
        PROVE  "body" \in DOMAIN turned[k] /\ turned[k].body = back[k] + 1
    <3>1. CASE k = n
      BY <1>4, <1>9, <2>2, <3>1 DEF behind
    <3>2. CASE k # n
      <4>1. k \in 1 .. n - 1
        BY <1>4, <3>2
      <4> QED  BY <1>4, <1>5, <2>2, <4>1
    <3> QED  BY <3>1, <3>2
  <2>4. Matches(turned, back)
    BY <1>4, <2>2, <2>3 DEF Matches
  <2>5. behind \in 0 .. Len(program)
    BY <1>1, <1>4 DEF behind
  <2> QED  BY <2>4, <2>5 DEF turned
<1> HIDE DEF outer
<1>15. \/ Ended
       \/ /\ program' = program /\ status' = "running"
          /\ \/ loops' = Append(outer, frame) /\ pc' = behind
             \/ loops' = outer /\ pc' = pc + 1
  <2>1. Raise("ArithmeticOverflow") /\ program' = program => Ended
    BY Raising DEF ControlFaults
  <2> QED  BY <1>8, <1>9, <1>10, <2>1 DEF Sound
<1>16. CASE program' = program /\ status' = "running" /\ loops' = Append(outer, frame) /\ pc' = behind
  BY <1>14, <1>16 DEF Kept, InTextNext, InText, back
<1>17. CASE program' = program /\ status' = "running" /\ loops' = outer /\ pc' = pc + 1
  BY <1>1, <1>13, <1>17 DEF Kept, InTextNext, InText, next
<1> QED  BY <1>15, <1>16, <1>17 DEF Kept

\* LIDX and LVAL find a loop to read.
LEMMA LoopReadSteps ==
  ASSUME Sound, pc < Len(program), OpAt(program, pc) \in LoopReads, LoopIndex \/ LoopValue
  PROVE  Ended \/ Plain
<1>1. loops # <<>>
  <2> DEFINE open == OpenLoops(program)[pc]
  <2>1. pc \in Positions(program) /\ pc \in 0 .. Len(program)
    BY DEF Sound, InText, Positions
  <2>2. open # <<>>
    BY <2>1 DEF Sound, ScanAccepts
  <2>3. open \in Seq(Int)
    BY <2>1, LoopsStand DEF Sound, OpenStands
  <2>4. Len(loops) = Len(open)
    BY DEF Sound, InText, Matches
  <2> HIDE DEF open
  <2> QED  BY <2>2, <2>3, <2>4
<1>2. CASE LoopIndex
  <2>1. Ended \/ (program' = program /\ Write(IntVal(IF Top.kind = "range" THEN Top.current
                                                        ELSE Top.offset + Top.index)))
    BY <1>1, <1>2, ChargeEnds DEF LoopIndex, Free
  <2> QED  BY <2>1, Writing
<1>3. CASE LoopValue
  <2>1. CASE Top.kind = "range"
    BY <1>1, <1>3, <2>1, ChargeEnds, Writing DEF LoopValue, Free
  <2>2. CASE Top.kind # "range" /\ Top.index >= Len(Top.items)
    BY <1>1, <1>3, <2>2, ChargeEnds, Raising DEF LoopValue, Free, ControlFaults
  <2>3. CASE Top.kind # "range" /\ ~(Top.index >= Len(Top.items))
    <3> DEFINE item == Top.items[Top.index + 1]
    <3>1. Ended \/ /\ program' = program
                   /\ IF item.t = "Int" THEN Write(item)
                      ELSE Set(item) /\ lent' = lent \cup {Current.regs[1]}
      <4>1. Charged(0, ValueCopySteps(item),
                      IF item.t = "Int" THEN Write(item)
                      ELSE Set(item) /\ lent' = lent \cup {Current.regs[1]})
        BY <1>1, <1>3, <2>3 DEF LoopValue
      <4> HIDE DEF item
      <4> QED  BY <4>1 DEF Charged, Raise, Ended, ControlFaults
    <3> HIDE DEF item
    <3> QED  BY <3>1, Setting, Writing
  <2> QED  BY <2>1, <2>2, <2>3
<1> QED  BY <1>2, <1>3

\* An instruction that is ready is the one at the position.
LEMMA ReadyAt ==
  ASSUME NEW ops, Ready(ops)
  PROVE  /\ pc < Len(program) /\ OpAt(program, pc) \in ops
         /\ Current = At(program, pc)
BY DEF Ready, AtInstruction, Current, At, OpAt

\* The jumps.
LEMMA JumpKeeps ==
  ASSUME Sound, Jump \/ JumpIf
  PROVE  Kept
<1> DEFINE label == At(program, pc).arg
<1>1. CASE Jump
  <2>1. pc < Len(program) /\ OpAt(program, pc) \in Jumps /\ Current.arg = label
    BY <1>1, ReadyAt DEF Jump, Jumps
  <2>2. Ended \/ (program' = program /\ GoTo(Current.arg))
    BY <1>1, ChargeEnds DEF Jump, Free
  <2> QED  BY <2>1, <2>2, GoToKeeps DEF Kept
<1>2. CASE JumpIf
  <2>1. pc < Len(program) /\ OpAt(program, pc) = "JUMPI" /\ Current.arg = label
    BY <1>2, ReadyAt DEF JumpIf
  <2>2. OpAt(program, pc) \in Jumps /\ OpAt(program, pc) \notin LoopOpeners \cup {"NEXT"}
    BY <2>1 DEF Jumps, LoopOpeners
  <2>3. Ended \/ /\ program' = program
                 /\ IF Operand(1) # 0 THEN GoTo(Current.arg) ELSE Done
    BY <1>2, ChargeEnds DEF JumpIf, Free
  <2>4. program' = program /\ Done => Plain
    BY DEF Done, Advance, Plain
  <2> QED  BY <2>1, <2>2, <2>3, <2>4, GoToKeeps, PlainKeeps DEF Kept
<1> QED  BY <1>1, <1>2

\* The openers.
LEMMA OpenKeeps ==
  ASSUME Sound, OpenRange \/ OpenIter
  PROVE  Kept
<1>1. CASE OpenRange
  <2> DEFINE count == Operand(1)
             start == Operand(2)
             frame == RangeFrame(start, start + count)
  <2>1. pc < Len(program) /\ OpAt(program, pc) \in LoopOpeners
    BY <1>1, ReadyAt DEF OpenRange, LoopOpeners
  <2>2. \/ SkipLoop
        \/ Free(IF ~InRange(start + count) THEN Raise("ArithmeticOverflow") ELSE Enter(frame))
    BY <1>1 DEF OpenRange
  <2>3. "body" \in DOMAIN frame /\ frame.body = pc + 1
    BY DEF RangeFrame
  <2> HIDE DEF frame
  <2>4. CASE SkipLoop
    BY <2>1, <2>4, SkipKeeps
  <2>5. CASE Free(IF ~InRange(start + count) THEN Raise("ArithmeticOverflow") ELSE Enter(frame))
    <3>1. Ended \/ /\ program' = program
                   /\ IF ~InRange(start + count) THEN Raise("ArithmeticOverflow") ELSE Enter(frame)
      BY <2>5, ChargeEnds DEF Free
    <3>2. program' = program /\ Raise("ArithmeticOverflow") => Ended
      BY Raising DEF ControlFaults
    <3>3. program' = program /\ Enter(frame) => Kept
      BY <2>1, <2>3, EnterKeeps
    <3> QED  BY <3>1, <3>2, <3>3 DEF Kept
  <2> QED  BY <2>2, <2>4, <2>5
<1>2. CASE OpenIter
  <2> DEFINE end == Operand(1)
             start == Operand(2)
             slice == [Reg EXCEPT !.items = SubSeq(@, start + 1, end)]
             bytes == IF Reg.t = "VecInt" THEN (end - start) * VariableBytes ELSE ValueBytes(slice)
             frame == IterFrame(slice, start)
  <2>1. pc < Len(program) /\ OpAt(program, pc) \in LoopOpeners
    BY <1>2, ReadyAt DEF OpenIter, LoopOpeners
  <2>2. \/ Free(Raise(WrongKind))
        \/ SkipLoop
        \/ Free(Raise("IndexOutOfBounds"))
        \/ Charged(bytes, ValueCopySteps(slice), Enter(frame))
    BY <1>2 DEF OpenIter
  <2>3. "body" \in DOMAIN frame /\ frame.body = pc + 1
    BY DEF IterFrame
  <2> HIDE DEF frame, slice, bytes
  <2>4. CASE Free(Raise(WrongKind))
    BY <2>4, ChargeEnds, Raising, KindFault DEF Free, Kept
  <2>5. CASE SkipLoop
    BY <2>1, <2>5, SkipKeeps
  <2>6. CASE Free(Raise("IndexOutOfBounds"))
    BY <2>6, ChargeEnds, Raising DEF Free, Kept, ControlFaults
  <2>7. CASE Charged(bytes, ValueCopySteps(slice), Enter(frame))
    <3>1. Ended \/ (program' = program /\ Enter(frame))
      BY <2>7, ChargeEnds
    <3> QED  BY <2>1, <2>3, <3>1, EnterKeeps DEF Kept
  <2> QED  BY <2>2, <2>4, <2>5, <2>6, <2>7
<1> QED  BY <1>1, <1>2

\* The instructions that go on are neither openers nor ends of a loop.
LEMMA PlainSteps ==
  ASSUME Sound, \/ Nop \/ PushImmediate \/ Pop \/ ClearStack \/ Swap \/ Copy \/ Arithmetic
                \/ Load \/ Stow \/ DropRegister \/ Input \/ Output
                \/ NewVec \/ VecPush \/ VecGet \/ VecSet \/ VecLen \/ Allocate
                \/ GetLine \/ WriteLine \/ LoopIndex \/ LoopValue
  PROVE  Kept
<1>1. pc < Len(program) /\ OpAt(program, pc) \notin LoopOpeners \cup {"NEXT"}
  <2>1. ASSUME NEW ops, Ready(ops), ops \cap (LoopOpeners \cup {"NEXT"}) = {}
        PROVE  pc < Len(program) /\ OpAt(program, pc) \notin LoopOpeners \cup {"NEXT"}
    BY <2>1, ReadyAt
  <2>2. CASE Nop \/ PushImmediate \/ Pop \/ ClearStack \/ Swap \/ Copy \/ Arithmetic
    BY <2>1, <2>2 DEF Nop, PushImmediate, Pop, ClearStack, Swap, Copy, Arithmetic, LoopOpeners
  <2>3. CASE Load \/ Stow \/ DropRegister \/ Input \/ Output \/ LoopIndex \/ LoopValue
    BY <2>1, <2>3 DEF Load, Stow, DropRegister, Input, Output, LoopIndex, LoopValue, LoopOpeners
  <2>4. CASE NewVec \/ VecPush \/ VecGet \/ VecSet \/ VecLen \/ Allocate \/ GetLine \/ WriteLine
    BY <2>1, <2>4 DEF NewVec, VecPush, VecGet, VecSet, VecLen, Allocate, GetLine, WriteLine, LoopOpeners
  <2> QED  BY <2>2, <2>3, <2>4
<1>2. CASE LoopIndex \/ LoopValue
  <2>1. OpAt(program, pc) \in LoopReads
    BY <1>2, ReadyAt DEF LoopIndex, LoopValue, LoopReads
  <2> QED  BY <1>1, <1>2, <2>1, LoopReadSteps, PlainKeeps DEF Kept
<1>3. CASE ~(LoopIndex \/ LoopValue)
  BY <1>1, <1>3, StackSteps, RegisterSteps, DataSteps, PlainKeeps DEF Kept
<1> QED  BY <1>2, <1>3

\* Only a running machine takes a step, and it keeps its program.
LEMMA MachineRuns ==
  ASSUME Next
  PROVE  program' = program /\ status = "running"
<1>1. CASE OutOfSteps \/ OutOfOperands \/ EndOfStream
  BY <1>1 DEF OutOfSteps, OutOfOperands, EndOfStream, AtInstruction
<1>2. CASE Nop \/ PushImmediate \/ Pop \/ ClearStack \/ Swap \/ Copy \/ Arithmetic
  BY <1>2 DEF Nop, PushImmediate, Pop, ClearStack, Swap, Copy, Arithmetic, PushChecked,
              Free, Charged, Ready, AtInstruction
<1>3. CASE Load \/ Stow \/ DropRegister \/ Input \/ Output \/ LoopIndex \/ LoopValue
  BY <1>3 DEF Load, Stow, DropRegister, Input, Output, LoopIndex, LoopValue,
              Free, Charged, Ready, AtInstruction
<1>4. CASE NewVec \/ VecPush \/ VecGet \/ VecSet \/ VecLen \/ Allocate \/ GetLine \/ WriteLine
  BY <1>4 DEF NewVec, VecPush, VecGet, VecSet, VecLen, Allocate, GetLine, WriteLine,
              Free, Charged, Ready, AtInstruction
<1>5. CASE Halt \/ Jump \/ JumpIf \/ OpenRange \/ OpenIter \/ EndOfBody
  BY <1>5 DEF Halt, Jump, JumpIf, OpenRange, OpenIter, EndOfBody, SkipLoop,
              Free, Charged, Ready, AtInstruction
<1> QED  BY <1>1, <1>2, <1>3, <1>4, <1>5 DEF Next

\* Every step of the machine keeps to the loops of the text, or ends the run
\* in another fault than those of the control flow.
LEMMA MachineKeeps ==
  ASSUME Sound, Next
  PROVE  Kept
<1>1. CASE OutOfSteps
  BY <1>1 DEF OutOfSteps, Kept, Ended, ControlFaults
<1>2. CASE OutOfOperands
  BY <1>2 DEF OutOfOperands, Kept, Ended, ControlFaults
<1>3. CASE EndOfStream
  BY <1>3 DEF EndOfStream, Kept, Ended, ControlFaults
<1>4. CASE Halt
  <2>1. Ended \/ (program' = program /\ status' = "done")
    BY <1>4 DEF Halt, Free, Charged, Raise, Ended, ControlFaults
  <2> QED  BY <2>1 DEF Kept, Ended, ControlFaults
<1>5. CASE Jump \/ JumpIf
  BY <1>5, JumpKeeps
<1>6. CASE OpenRange \/ OpenIter
  BY <1>6, OpenKeeps
<1>7. CASE EndOfBody
  <2>1. pc < Len(program) /\ OpAt(program, pc) = "NEXT"
    BY <1>7, ReadyAt DEF EndOfBody
  <2> QED  BY <1>7, <2>1, EndKeeps
<1>8. CASE ~(OutOfSteps \/ OutOfOperands \/ EndOfStream \/ Halt
             \/ Jump \/ JumpIf \/ OpenRange \/ OpenIter \/ EndOfBody)
  BY <1>8, PlainSteps DEF Next
<1> QED  BY <1>1, <1>2, <1>3, <1>4, <1>5, <1>6, <1>7, <1>8

-----------------------------------------------------------------------------
(* The verifier in front of the machine. *)

Admitted ==
  /\ program \in Programs
  /\ phase \in {"types", "init", "depth", "accepted"} => ScanAccepts(program)
  /\ JumpsStayInLoop(program) => OnTrack

\* It holds at the start.
LEMMA AdmittedInit == ASSUME VerifiedInit PROVE Admitted
<1>1. Len(program) \in Nat
  BY XqvmAssumption DEF VerifiedInit, VerifierInit, IsProgram, IsSeq
<1>2. OpenLoops(program)[0] = <<>>
  BY <1>1, OpenLoopsIs
<1>3. InText
  <2>1. <<>> \in Seq({}) /\ Len(<<>>) = 0
    OBVIOUS
  <2>2. Matches(<<>>, <<>>)
    BY <2>1 DEF Matches
  <2> QED  BY <1>1, <1>2, <2>2 DEF VerifiedInit, MachineInit, InText
<1> QED  BY <1>3 DEF Admitted, OnTrack, VerifiedInit, VerifierInit, MachineInit, ControlFaults

\* The verifier runs the analyses on what the scan accepted, and admits no more.
LEMMA VerifyKeepsAdmitted == ASSUME Admitted, Verify PROVE Admitted'
<1>1. program' = program /\ pc' = pc /\ loops' = loops /\ status' = status
  BY DEF Verify, file, VerifierNext, Scan, Solve, FinishTypes, FinishInit, FinishDepth
<1>2. phase' \in {"types", "init", "depth", "accepted"} => ScanAccepts(program)
  <2>1. CASE Scan
    BY <2>1 DEF Scan, Conclude
  <2>2. CASE Solve
    BY <2>2 DEF Solve, Admitted
  <2>3. CASE FinishTypes \/ FinishInit \/ FinishDepth
    BY <2>3 DEF FinishTypes, FinishInit, FinishDepth, Admitted
  <2> QED  BY <2>1, <2>2, <2>3 DEF Verify, VerifierNext
<1> QED  BY <1>1, <1>2 DEF Admitted, OnTrack, InText

\* The machine runs what was accepted.
LEMMA RunKeepsAdmitted == ASSUME Admitted, Run PROVE Admitted'
<1>1. ScanAccepts(program) /\ phase' = phase
  BY DEF Admitted, Run
<1>2. Len(program) \in Nat
  BY XqvmAssumption DEF Admitted, IsProgram, IsSeq
<1>3. program' = program /\ status = "running"
  BY MachineRuns DEF Run
<1>4. CASE JumpsStayInLoop(program)
  <2>2. Sound
    BY <1>1, <1>2, <1>3, <1>4 DEF Sound, Admitted, OnTrack
  <2>3. Kept
    BY <2>2, MachineKeeps DEF Run
  <2> QED  BY <1>1, <1>3, <2>3 DEF Kept, Ended, InTextNext, Admitted, OnTrack, InText
<1>5. CASE ~JumpsStayInLoop(program)
  BY <1>1, <1>3, <1>5 DEF Admitted
<1> QED  BY <1>4, <1>5

\* An admitted program never jumps to a label that is not there, never reads
\* a loop that is not open and never runs off the end of a skipped one.
THEOREM AdmittedKeepsControl == VerifiedSpec => []NoControlFault
<1>1. VerifiedInit => Admitted
  BY AdmittedInit
<1>2. Admitted /\ [VerifiedNext]_vars => Admitted'
  <2> SUFFICES ASSUME Admitted, [VerifiedNext]_vars PROVE Admitted'
    OBVIOUS
  <2>1. CASE Verify
    BY <2>1, VerifyKeepsAdmitted
  <2>2. CASE Run
    BY <2>2, RunKeepsAdmitted
  <2>3. CASE UNCHANGED vars
    BY <2>3 DEF vars, machineVars, Admitted, OnTrack, InText
  <2> QED  BY <2>1, <2>2, <2>3 DEF VerifiedNext
<1>3. Admitted => NoControlFault
  BY DEF Admitted, OnTrack, NoControlFault, WellStructured
<1> QED  BY <1>1, <1>2, <1>3, PTL DEF VerifiedSpec

\* A pair of the text is a NEXT and the innermost opener open at it.
LEMMA PairIs ==
  ASSUME NEW code, Len(code) \in Nat, NEW pair \in LoopPairs(code)
  PROVE  \E q \in Positions(code) :
           LET open == OpenLoops(code)[q]
           IN  /\ OpAt(code, q) = "NEXT" /\ pair = <<open[Len(open)], q>>
               /\ Len(open) \in 1 .. Len(open) /\ open[Len(open)] \in 0 .. q - 1
               /\ OpAt(code, open[Len(open)]) \in LoopOpeners
               /\ Len(OpenLoops(code)[open[Len(open)] + 1]) = Len(open)
<1>1. PICK q \in Positions(code) : /\ OpAt(code, q) = "NEXT" /\ OpenLoops(code)[q] # <<>>
                                   /\ pair = <<OpenLoops(code)[q][Len(OpenLoops(code)[q])], q>>
  BY DEF LoopPairs
<1> DEFINE open == OpenLoops(code)[q]
<1>2. q \in 0 .. Len(code)
  BY DEF Positions
<1>3. open \in Seq(Int) /\ open # <<>>
  BY <1>1, <1>2, OpenType
<1>4. OpenStands(code, q)
  BY <1>2, LoopsStand
<1>5. Len(open) \in 1 .. Len(open)
  <2> HIDE DEF open
  <2> QED  BY <1>3
<1>6. /\ open[Len(open)] \in 0 .. q - 1 /\ OpAt(code, open[Len(open)]) \in LoopOpeners
      /\ Len(OpenLoops(code)[open[Len(open)] + 1]) = Len(open)
  BY <1>4, <1>5 DEF OpenStands
<1> QED  BY <1>1, <1>5, <1>6

\* The pair of a NEXT.
LEMMA PairOfNext ==
  ASSUME NEW code, Len(code) \in Nat, NEW p \in Positions(code), OpAt(code, p) = "NEXT",
         OpenLoops(code)[p] # <<>>
  PROVE  LET closing == CHOOSE pair \in LoopPairs(code) : p \in {pair[1], pair[2]}
         IN  closing[1] = OpenLoops(code)[p][Len(OpenLoops(code)[p])]
<1> DEFINE closing == CHOOSE pair \in LoopPairs(code) : p \in {pair[1], pair[2]}
           here == <<OpenLoops(code)[p][Len(OpenLoops(code)[p])], p>>
<1>1. here \in LoopPairs(code) /\ here[2] = p
  BY DEF LoopPairs
<1>2. closing \in LoopPairs(code) /\ p \in {closing[1], closing[2]}
  BY <1>1
<1> HIDE DEF closing
<1>3. PICK q \in Positions(code) :
           /\ OpAt(code, q) = "NEXT"
           /\ closing = <<OpenLoops(code)[q][Len(OpenLoops(code)[q])], q>>
           /\ OpAt(code, OpenLoops(code)[q][Len(OpenLoops(code)[q])]) \in LoopOpeners
  BY <1>2, PairIs
<1>4. OpAt(code, closing[1]) \in LoopOpeners /\ closing[2] = q
  BY <1>3
<1>5. p = q
  BY <1>2, <1>4 DEF LoopOpeners
<1>6. closing[1] = OpenLoops(code)[p][Len(OpenLoops(code)[p])]
  BY <1>3, <1>5
<1> QED  BY <1>6 DEF closing

\* The pair of an opener: no other NEXT than the one the scan stops at closes it.
LEMMA PairOfOpener ==
  ASSUME NEW code, Len(code) \in Nat, NEW p \in Positions(code), OpAt(code, p) \in LoopOpeners,
         OpenLoops(code)[Len(code)] = <<>>,
         NEW stops, stops = {r \in p + 1 .. Len(code) - 1 : Closes(code, p, r)}
  PROVE  LET closing == CHOOSE pair \in LoopPairs(code) : p \in {pair[1], pair[2]}
         IN  closing[2] = Min(stops)
<1> DEFINE closing == CHOOSE pair \in LoopPairs(code) : p \in {pair[1], pair[2]}
           n == Len(code)
           c == Min(stops)
           outer == OpenLoops(code)[p]
           here == OpenLoops(code)[c]
<1>1. /\ c \in p + 1 .. n - 1 /\ OpAt(code, c) = "NEXT" /\ here = OpenLoops(code)[p + 1]
      /\ OpenLoops(code)[c + 1] = outer
      /\ \A r \in p + 1 .. c - 1 : ~Closes(code, p, r)
  BY ScanFindsTheEnd
<1>2. p \in Nat /\ p \in 0 .. n
  BY DEF Positions
<1> HIDE DEF c
<1>3. here # <<>> /\ here[Len(here)] = p
  <2>1. OpenLoops(code)[p + 1] = Append(outer, p)
    BY OpenLoopsIs DEF OpenBehind
  <2>2. outer \in Seq(Int)
    BY <1>2, OpenType
  <2>3. here = Append(outer, p)
    BY <1>1, <2>1
  <2> HIDE DEF outer, here
  <2>4. p \in Int
    BY <1>2
  <2>5. Len(here) = Len(outer) + 1 /\ here[Len(outer) + 1] = p
    BY <2>2, <2>3, <2>4, PushedIs
  <2> QED  BY <2>2, <2>3, <2>5
<1>4. c \in Positions(code)
  BY <1>1, <1>2 DEF Positions
<1>5. <<p, c>> \in LoopPairs(code) /\ <<p, c>>[1] = p
  <2>1. <<here[Len(here)], c>> \in LoopPairs(code)
    BY <1>1, <1>3, <1>4 DEF LoopPairs
  <2> QED  BY <1>3, <2>1
<1>6. closing \in LoopPairs(code) /\ p \in {closing[1], closing[2]}
  BY <1>5
<1> HIDE DEF closing, here
<1>7. PICK q \in Positions(code) :
           LET open == OpenLoops(code)[q]
           IN  /\ OpAt(code, q) = "NEXT" /\ closing = <<open[Len(open)], q>>
               /\ Len(open) \in 1 .. Len(open) /\ open[Len(open)] \in 0 .. q - 1
               /\ Len(OpenLoops(code)[open[Len(open)] + 1]) = Len(open)
  BY <1>6, PairIs
<1> DEFINE open(r) == OpenLoops(code)[r]
<1>8. p # q
  BY <1>7 DEF LoopOpeners
<1>9. /\ closing[2] = q /\ open(q)[Len(open(q))] = p /\ p < q /\ Len(open(p + 1)) = Len(open(q))
      /\ Len(open(q)) \in 1 .. Len(open(q))
  BY <1>2, <1>6, <1>7, <1>8
<1>10. q \in p + 1 .. n /\ q \in Int
  BY <1>2, <1>9 DEF Positions
<1>11. ~(q < c)
  <2> SUFFICES ASSUME q < c PROVE FALSE
    OBVIOUS
  <2>1. ~Closes(code, p, q) /\ \A r \in p + 1 .. q - 1 : ~Closes(code, p, r)
    BY <1>1, <1>10
  <2>2. Inside(code, p, q)
    BY <1>10, <2>1, InsideAll
  <2> DEFINE begun == Many(code, LoopOpeners, p, q - 1)
             ended == Many(code, {"NEXT"}, p, q - 1)
  <2>3. begun \in Nat /\ ended \in Nat /\ Len(open(q)) = Len(open(p + 1)) + begun - ended
    BY <2>2 DEF Inside
  <2>4. begun = ended
    <3>1. Len(open(q)) \in Nat
      BY <1>10, OpenType
    <3> HIDE DEF open, begun, ended
    <3> QED  BY <1>9, <2>3, <3>1
  <2>5. /\ Many(code, LoopOpeners, p, q) = begun + One(code, LoopOpeners, q)
        /\ Many(code, {"NEXT"}, p, q) = ended + One(code, {"NEXT"}, q)
    <3>1. ASSUME NEW ops
          PROVE  Many(code, ops, p, q) = Many(code, ops, p, q - 1) + One(code, ops, q)
      <4>1. p \in Int /\ q \in Int /\ p < q
        BY <1>2, <1>9, <1>10
      <4> QED  BY <4>1, ManyMore, Zenon
    <3> QED  BY <3>1, Zenon
  <2>6. One(code, LoopOpeners, q) = 0 /\ One(code, {"NEXT"}, q) = 1
    BY <1>7 DEF One, LoopOpeners
  <2> HIDE DEF begun, ended
  <2>7. Many(code, {"NEXT"}, p, q) = Many(code, LoopOpeners, p, q) + 1
    BY <2>3, <2>4, <2>5, <2>6
  <2> QED  BY <1>7, <2>1, <2>7 DEF Closes
<1>12. ~(c < q)
  <2> SUFFICES ASSUME c < q PROVE FALSE
    OBVIOUS
  <2> DEFINE Q == {r \in c + 1 .. n : \A k \in 1 .. Len(open(r)) : open(r)[k] # p}
  <2>1. c + 1 \in Q
    <3>1. OpenStands(code, p)
      BY <1>2, LoopsStand
    <3>2. \A k \in 1 .. Len(outer) : outer[k] \in 0 .. p - 1
      BY <3>1 DEF OpenStands
    <3>3. open(c + 1) = outer
      BY <1>1
    <3>4. \A k \in 1 .. Len(open(c + 1)) : open(c + 1)[k] # p
      BY <1>2, <3>2, <3>3
    <3> QED  BY <1>1, <1>2, <3>4
  <2>2. ASSUME NEW r \in c + 1 .. n - 1, r \in Q
        PROVE  r + 1 \in Q
    <3>1. r \in Positions(code) /\ r \in 0 .. n /\ r + 1 \in c + 1 .. n /\ r # p /\ r \in Int
      BY <1>1, <1>2 DEF Positions
    <3>2. open(r + 1) = OpenBehind(code, open(r), r)
      BY <3>1, OpenLoopsIs
    <3>3. open(r) \in Seq(Int) /\ Len(open(r)) \in Nat
      BY <3>1, OpenType
    <3>4. \A k \in 1 .. Len(open(r)) : open(r)[k] # p
      BY <2>2
    <3> DEFINE new == open(r + 1)
               old == open(r)
    <3>5. \A k \in 1 .. Len(new) : new[k] # p
      <4> HIDE DEF new, old, open
      <4>1. CASE new = old
        BY <3>4, <4>1 DEF old
      <4>2. CASE new = Append(old, r)
        <5>1. Len(new) = Len(old) + 1 /\ new[Len(old) + 1] = r /\ \A k \in 1 .. Len(old) : new[k] = old[k]
          BY <3>1, <3>3, <4>2, PushedIs DEF old
        <5>2. ASSUME NEW k \in 1 .. Len(new) PROVE new[k] # p
          <6>1. k = Len(old) + 1 \/ k \in 1 .. Len(old)
            BY <3>3, <5>1 DEF old
          <6>2. k = Len(old) + 1 => new[k] = r
            BY <5>1
          <6> QED  BY <3>1, <3>4, <5>1, <6>1, <6>2 DEF old
        <5> QED  BY <5>2
      <4>3. CASE old # <<>> /\ new = SubSeq(old, 1, Len(old) - 1)
        <5>1. Len(new) = Len(old) - 1 /\ \A k \in 1 .. Len(old) - 1 : new[k] = old[k]
          BY <3>3, <4>3, PoppedIs DEF old
        <5> QED  BY <3>3, <3>4, <5>1 DEF old
      <4> QED  BY <3>2, <4>1, <4>2, <4>3 DEF OpenBehind, new, old
    <3> QED  BY <3>1, <3>5
  <2> HIDE DEF Q
  <2>3. c + 1 \in Int /\ n \in Int
    BY <1>1, <1>2
  <2>4. \A r \in c + 1 .. n : r \in Q
    BY <2>1, <2>2, <2>3, Upward
  <2>5. q \in Q
    BY <1>1, <1>2, <1>10, <2>4
  <2> QED  BY <1>9, <2>5 DEF Q
<1> QED  BY <1>1, <1>2, <1>9, <1>10, <1>11, <1>12 DEF c, closing

-----------------------------------------------------------------------------
(* The blocks, and the edges between them. *)

\* Where the scan from an opener stops.
Stops(code, p) == {r \in p + 1 .. Len(code) - 1 : Closes(code, p, r)}

\* Where control may go from an instruction.
Follows(code, p, q) ==
  \/ OpAt(code, p) \notin {"JUMP", "HALT"} /\ q = p + 1
  \/ OpAt(code, p) \in Jumps /\ q = TargetOf(code, At(code, p).arg)
  \/ OpAt(code, p) \in LoopOpeners /\ q = Min(Stops(code, p)) + 1
  \/ OpAt(code, p) = "NEXT" /\ q = OpenLoops(code)[p][Len(OpenLoops(code)[p])] + 1

\* Leaders are positions, or the end.
LEMMA LeadersType ==
  ASSUME NEW code, Len(code) \in Nat
  PROVE  /\ Leaders(code) \subseteq 0 .. Len(code) /\ IsFiniteSet(Leaders(code)) /\ 0 \in Leaders(code)
         /\ \A p \in Positions(code) : OpAt(code, p) \in Terminators => p + 1 \in Leaders(code)
<1> DEFINE n == Len(code)
           zero == 0
<1>1. Leaders(code) \subseteq 0 .. n
  BY DEF Leaders, Targets, Positions
<1>2. IsFiniteSet(zero .. n)
  <2>1. zero \in Int /\ n \in Int
    OBVIOUS
  <2> HIDE DEF zero, n
  <2> QED  BY <2>1, FS_Interval
<1>3. IsFiniteSet(Leaders(code))
  BY <1>1, <1>2, FS_Subset
<1>4. 0 \in Leaders(code) /\ \A p \in Positions(code) : OpAt(code, p) \in Terminators => p + 1 \in Leaders(code)
  BY DEF Leaders
<1> QED  BY <1>1, <1>3, <1>4

\* A block reaches to the next leader.
LEMMA BlockIs ==
  ASSUME NEW code, Len(code) \in Nat, NEW b \in Leaders(code)
  PROVE  /\ b \in 0 .. Len(code) /\ BlockEnd(code, b) \in b .. Len(code)
         /\ b < Len(code) => b < BlockEnd(code, b)
         /\ BlockEnd(code, b) \in Leaders(code) \cup {Len(code)}
         /\ \A l \in Leaders(code) : b < l => BlockEnd(code, b) <= l
         /\ \A p \in b .. BlockEnd(code, b) - 2 : OpAt(code, p) \notin Terminators
<1> DEFINE after == {l \in Leaders(code) : l > b} \cup {Len(code)}
           e == BlockEnd(code, b)
<1>1. b \in 0 .. Len(code) /\ after \subseteq b .. Len(code) /\ IsFiniteSet(Leaders(code))
  BY LeadersType
<1>2. IsFiniteSet(after) /\ after # {} /\ after \subseteq Int
  <2>1. IsFiniteSet({l \in Leaders(code) : l > b})
    BY <1>1, FS_Subset
  <2>2. IsFiniteSet(after)
    BY <2>1, FS_AddElement
  <2> QED  BY <1>1, <2>2
<1>3. e \in after /\ \A l \in after : e <= l
  BY <1>2, MinIs DEF BlockEnd
<1> HIDE DEF e
<1>4. e \in b .. Len(code) /\ (b < Len(code) => b < e) /\ e \in Leaders(code) \cup {Len(code)}
      /\ \A l \in Leaders(code) : b < l => e <= l
  BY <1>1, <1>3
<1>5. ASSUME NEW p \in b .. e - 2, OpAt(code, p) \in Terminators
      PROVE  FALSE
  <2>1. p \in Positions(code)
    BY <1>1, <1>4 DEF Positions
  <2>2. p + 1 \in Leaders(code)
    BY <1>5, <2>1, LeadersType
  <2> QED  BY <1>1, <1>4, <2>2
<1> QED  BY <1>1, <1>4, <1>5 DEF e

\* The terminator of a block that ends in one, or has none.
LEMMA TerminatorIs ==
  ASSUME NEW code, Len(code) \in Nat, NEW b \in Leaders(code)
  PROVE  /\ TerminatorOf(code, b) = -1 \/ /\ TerminatorOf(code, b) \in b .. BlockEnd(code, b) - 1
                                          /\ OpAt(code, TerminatorOf(code, b)) \in Terminators \cup {"HALT"}
         /\ \A p \in b .. BlockEnd(code, b) - 1 :
              OpAt(code, p) \in Terminators \cup {"HALT"} => p <= TerminatorOf(code, b)
<1> DEFINE ends == {p \in b .. BlockEnd(code, b) - 1 : OpAt(code, p) \in Terminators \cup {"HALT"}}
           S == {-1} \cup ends
           t == TerminatorOf(code, b)
<1>1. b \in Int /\ BlockEnd(code, b) \in Int
  BY BlockIs
<1>2. \E x \in S : \A y \in S : x >= y
  <2> DEFINE e == BlockEnd(code, b)
             T == {e - y : y \in S}
  <2>1. T \subseteq Nat /\ T # {}
    BY BlockIs
  <2>2. PICK m \in T : \A k \in T : m <= k
    <3> HIDE DEF T
    <3> QED  BY <2>1, LeastNatural
  <2>3. PICK x \in S : m = e - x
    BY <2>2
  <2>4. \A y \in S : e - x <= e - y /\ y \in Int
    BY <1>1, <2>2, <2>3
  <2>5. \A y \in S : x >= y
    BY <1>1, <2>4
  <2> QED  BY <2>5
<1>3. t \in S /\ \A y \in S : t >= y
  BY <1>2 DEF TerminatorOf, Max
<1> HIDE DEF t
<1>4. \A y \in S : y <= t
  BY <1>1, <1>3
<1> QED  BY <1>3, <1>4 DEF t

\* What the scan accepted finds every label, pairs every NEXT and closes every loop.
LEMMA ScanGives ==
  ASSUME NEW code, Len(code) \in Nat, ScanAccepts(code)
  PROVE  /\ OpenLoops(code)[Len(code)] = <<>>
         /\ \A p \in Positions(code) : OpAt(code, p) \in LoopReads \cup {"NEXT"} => OpenLoops(code)[p] # <<>>
         /\ \A p \in Positions(code) : OpAt(code, p) \in Jumps =>
              /\ TargetOf(code, At(code, p).arg) \in Targets(code)
              /\ TargetOf(code, At(code, p).arg) \in Leaders(code)
         /\ \A p \in Positions(code) : OpAt(code, p) \in LoopOpeners =>
              /\ Min(Stops(code, p)) \in Positions(code)
              /\ Min(Stops(code, p)) + 1 \in Leaders(code)
         /\ \A p \in Positions(code) : OpAt(code, p) = "NEXT" =>
              /\ OpenLoops(code)[p][Len(OpenLoops(code)[p])] \in Positions(code)
              /\ OpenLoops(code)[p][Len(OpenLoops(code)[p])] + 1 \in Leaders(code)
<1>1. /\ OpenLoops(code)[Len(code)] = <<>>
      /\ \A p \in Positions(code) : OpAt(code, p) \in LoopReads \cup {"NEXT"} => OpenLoops(code)[p] # <<>>
      /\ \A p \in Positions(code) : OpAt(code, p) \in Jumps => Labelled(code, At(code, p).arg) # {}
  BY DEF ScanAccepts
<1>2. ASSUME NEW p \in Positions(code), OpAt(code, p) \in Jumps
      PROVE  /\ TargetOf(code, At(code, p).arg) \in Targets(code)
             /\ TargetOf(code, At(code, p).arg) \in Leaders(code)
  <2>1. TargetOf(code, At(code, p).arg) \in Labelled(code, At(code, p).arg)
    BY <1>1, <1>2 DEF TargetOf
  <2> QED  BY <2>1 DEF Labelled, Leaders
<1>3. ASSUME NEW p \in Positions(code), OpAt(code, p) \in LoopOpeners
      PROVE  /\ Min(Stops(code, p)) \in Positions(code)
             /\ Min(Stops(code, p)) + 1 \in Leaders(code)
  <2> DEFINE stops == Stops(code, p)
  <2>1. stops = {r \in p + 1 .. Len(code) - 1 : Closes(code, p, r)}
    BY DEF Stops
  <2> HIDE DEF stops
  <2>2. Min(stops) \in p + 1 .. Len(code) - 1 /\ OpAt(code, Min(stops)) = "NEXT"
    BY <1>1, <1>3, <2>1, ScanFindsTheEnd
  <2>3. Min(stops) \in Positions(code)
    BY <2>2 DEF Positions
  <2> QED  BY <2>2, <2>3, LeadersType DEF stops, Terminators
<1>4. ASSUME NEW p \in Positions(code), OpAt(code, p) = "NEXT"
      PROVE  /\ OpenLoops(code)[p][Len(OpenLoops(code)[p])] \in Positions(code)
             /\ OpenLoops(code)[p][Len(OpenLoops(code)[p])] + 1 \in Leaders(code)
  <2> DEFINE open == OpenLoops(code)[p]
             opener == open[Len(open)]
  <2>1. open # <<>> /\ p \in 0 .. Len(code)
    BY <1>1, <1>4 DEF Positions
  <2>2. <<opener, p>> \in LoopPairs(code)
    BY <1>4, <2>1 DEF LoopPairs
  <2>3. PICK q \in Positions(code) :
             LET inner == OpenLoops(code)[q]
             IN  /\ <<opener, p>> = <<inner[Len(inner)], q>>
                 /\ inner[Len(inner)] \in 0 .. q - 1
                 /\ OpAt(code, inner[Len(inner)]) \in LoopOpeners
    BY <2>2, PairIs
  <2> HIDE DEF opener
  <2>4. opener \in 0 .. p - 1 /\ OpAt(code, opener) \in LoopOpeners
    BY <2>3
  <2>5. opener \in Positions(code)
    BY <2>4 DEF Positions
  <2> QED  BY <2>4, <2>5, LeadersType DEF opener, Terminators
<1> QED  BY <1>1, <1>2, <1>3, <1>4

\* The blocks a block leads to, by its terminator.
LEMMA TargetsAre ==
  ASSUME NEW code, Len(code) \in Nat, ScanAccepts(code), NEW b \in Leaders(code), NEW t, t = TerminatorOf(code, b)
  PROVE  LET targets == BlockTargets(code, b)
             fallthrough == IF BlockEnd(code, b) < Len(code) THEN {BlockEnd(code, b)} ELSE {}
             open == OpenLoops(code)[t]
         IN  /\ targets \in Seq(Leaders(code))
             /\ t = -1 => ToSet(targets) = fallthrough
             /\ t # -1 =>
                  /\ OpAt(code, t) = "JUMP" => ToSet(targets) = {TargetOf(code, At(code, t).arg)}
                  /\ OpAt(code, t) = "JUMPI" => ToSet(targets) = {TargetOf(code, At(code, t).arg)} \cup fallthrough
                  /\ OpAt(code, t) \in LoopOpeners => ToSet(targets) = {t + 1, Min(Stops(code, t)) + 1}
                  /\ OpAt(code, t) = "NEXT" => ToSet(targets) = {open[Len(open)] + 1} \cup fallthrough
<1> DEFINE e == BlockEnd(code, b)
           L == Leaders(code)
           fall == IF e < Len(code) THEN <<e>> ELSE <<>>
           fallthrough == IF e < Len(code) THEN {e} ELSE {}
           closing == CHOOSE pair \in LoopPairs(code) : t \in {pair[1], pair[2]}
           targets == BlockTargets(code, b)
           op == OpAt(code, t)
<1>1. /\ t = -1 => targets = fall
      /\ t # -1 =>
           /\ op = "JUMP" => targets = <<TargetOf(code, At(code, t).arg)>>
           /\ op = "JUMPI" => targets = <<TargetOf(code, At(code, t).arg)>> \o fall
           /\ op \in {"RANGE", "ITER"} => targets = <<t + 1, closing[2] + 1>>
           /\ op = "NEXT" => targets = <<closing[1] + 1>> \o fall
           /\ op = "HALT" => targets = <<>>
  <2> DEFINE to == <<TargetOf(code, At(code, t).arg)>>
             loop == <<t + 1, closing[2] + 1>>
             back == <<closing[1] + 1>>
  <2>1. targets = CASE t = -1 -> fall
                    [] OTHER -> CASE op = "JUMP" -> to
                                  [] op = "JUMPI" -> to \o fall
                                  [] op \in LoopOpeners -> loop
                                  [] op = "NEXT" -> back \o fall
                                  [] op = "HALT" -> <<>>
    BY Zenon DEF BlockTargets
  <2> HIDE DEF to, loop, back, fall, targets, op, closing
  <2> QED  BY <2>1 DEF LoopOpeners, to, loop, back
<1>2. /\ b \in 0 .. Len(code) /\ e \in b .. Len(code) /\ e \in L \cup {Len(code)}
  BY BlockIs
<1>3. t = -1 \/ (t \in b .. e - 1 /\ op \in Terminators \cup {"HALT"})
  BY TerminatorIs
<1>4. t # -1 => t \in Positions(code)
  BY <1>2, <1>3 DEF Positions
<1> HIDE DEF closing, targets, e, op
<1>5. fall \in Seq(L) /\ ToSet(fall) = fallthrough
  <2>1. CASE e < Len(code)
    BY <1>2, <2>1 DEF ToSet
  <2>2. CASE ~(e < Len(code))
    BY <2>2 DEF ToSet
  <2> QED  BY <2>1, <2>2
<1> HIDE DEF fall, fallthrough
<1>6. ASSUME NEW x \in L
      PROVE  /\ <<x>> \in Seq(L) /\ ToSet(<<x>>) = {x}
             /\ <<x>> \o fall \in Seq(L) /\ ToSet(<<x>> \o fall) = {x} \cup fallthrough
  <2>1. <<x>> \in Seq(L) /\ ToSet(<<x>>) = {x} /\ Len(<<x>>) = 1 /\ <<x>>[1] = x
    BY DEF ToSet
  <2> DEFINE both == <<x>> \o fall
             n == Len(fall)
  <2>2. n \in Nat /\ DOMAIN fall = 1 .. n
    BY <1>5
  <2>3. /\ both \in Seq(L) /\ Len(both) = 1 + n
        /\ both[1] = x /\ \A i \in 1 .. n : both[1 + i] = fall[i]
    BY <1>5, <2>1, ConcatIs
  <2>4. DOMAIN both = 1 .. 1 + n
    BY <2>3
  <2> HIDE DEF both, n
  <2>5. ToSet(both) \subseteq {x} \cup ToSet(fall)
    <3> SUFFICES ASSUME NEW i \in 1 .. 1 + n PROVE both[i] \in {x} \cup ToSet(fall)
      BY <2>4 DEF ToSet
    <3>1. CASE i = 1
      BY <2>3, <3>1
    <3>2. CASE i # 1
      <4>1. i - 1 \in 1 .. n /\ 1 + (i - 1) = i
        BY <2>2, <3>2
      <4> QED  BY <2>2, <2>3, <4>1 DEF ToSet
    <3> QED  BY <3>1, <3>2
  <2>6. {x} \cup ToSet(fall) \subseteq ToSet(both)
    <3>1. 1 \in DOMAIN both /\ \A i \in 1 .. n : 1 + i \in DOMAIN both
      BY <2>2, <2>4
    <3> QED  BY <2>2, <2>3, <3>1 DEF ToSet
  <2> QED  BY <1>5, <2>1, <2>3, <2>5, <2>6 DEF both
<1>7. CASE t = -1
  BY <1>1, <1>5, <1>7 DEF e, fallthrough, targets
<1>8. CASE t # -1 /\ op \in Jumps
  <2>1. TargetOf(code, At(code, t).arg) \in L
    BY <1>4, <1>8, ScanGives DEF op
  <2>2. op \in {"JUMP", "JUMPI"}
    BY <1>8 DEF Jumps
  <2> QED  BY <1>1, <1>6, <1>8, <2>1, <2>2 DEF LoopOpeners, e, fallthrough, targets, op
<1>9. CASE t # -1 /\ op \in LoopOpeners
  <2> DEFINE stops == Stops(code, t)
  <2>1. stops = {r \in t + 1 .. Len(code) - 1 : Closes(code, t, r)}
    BY DEF Stops
  <2> HIDE DEF stops
  <2>2. closing[2] = Min(stops)
    BY <1>4, <1>9, <2>1, PairOfOpener, ScanGives DEF closing, op
  <2>3. t + 1 \in L /\ Min(stops) + 1 \in L
    BY <1>4, <1>9, ScanGives, LeadersType DEF op, stops, Terminators
  <2>4. targets = <<t + 1, Min(stops) + 1>>
    BY <1>1, <1>9, <2>2 DEF LoopOpeners
  <2>5. ToSet(targets) = {t + 1, Min(stops) + 1} /\ targets \in Seq(L)
    BY <2>3, <2>4 DEF ToSet
  <2> QED  BY <1>9, <2>5 DEF LoopOpeners, targets, op, stops
<1>10. CASE t # -1 /\ op = "NEXT"
  <2> DEFINE open == OpenLoops(code)[t]
             opener == open[Len(open)]
  <2>1. open # <<>> /\ opener + 1 \in L
    BY <1>4, <1>10, ScanGives DEF op
  <2>2. closing[1] = opener
    BY <1>4, <1>10, <2>1, PairOfNext DEF closing, op
  <2>3. targets = <<opener + 1>> \o fall
    BY <1>1, <1>10, <2>2 DEF LoopOpeners
  <2> HIDE DEF opener
  <2>4. ToSet(targets) = {opener + 1} \cup fallthrough /\ targets \in Seq(L)
    BY <1>6, <2>1, <2>3
  <2> QED  BY <1>10, <2>4 DEF LoopOpeners, targets, op, opener, e, fallthrough
<1>11. CASE t # -1 /\ op = "HALT"
  <2>1. targets = <<>>
    BY <1>1, <1>11 DEF LoopOpeners
  <2> QED  BY <1>11, <2>1 DEF LoopOpeners, targets, op
<1> QED  BY <1>3, <1>7, <1>8, <1>9, <1>10, <1>11 DEF Terminators

\* An instruction goes on to the next one of its block, or ends the block and
\* takes one of its edges, unless it ends the program.
LEMMA StaysOrTakesEdge ==
  ASSUME NEW code, Len(code) \in Nat, ScanAccepts(code), NEW b \in Leaders(code),
         NEW p \in b .. BlockEnd(code, b) - 1, \A r \in b .. p - 1 : OpAt(code, r) # "HALT",
         NEW q \in 0 .. Len(code) - 1, Follows(code, p, q)
  PROVE  \/ q = p + 1 /\ q < BlockEnd(code, b)
         \/ p = BlockEnd(code, b) - 1 /\ q \in ToSet(BlockTargets(code, b))
<1> DEFINE e == BlockEnd(code, b)
           t == TerminatorOf(code, b)
<1>1. /\ b \in 0 .. Len(code) /\ e \in b .. Len(code) /\ b \in Int /\ e \in Int /\ p \in Int
      /\ \A r \in b .. e - 2 : OpAt(code, r) \notin Terminators
  BY BlockIs
<1>2. /\ t = -1 \/ (t \in b .. e - 1 /\ OpAt(code, t) \in Terminators \cup {"HALT"})
      /\ \A r \in b .. e - 1 : OpAt(code, r) \in Terminators \cup {"HALT"} => r <= t
  BY TerminatorIs
<1>3. OpAt(code, p) # "HALT"
  BY DEF Follows, Jumps, LoopOpeners
<1>4. CASE OpAt(code, p) \notin Terminators
  <2>1. q = p + 1
    BY <1>4 DEF Follows, Terminators
  <2>2. CASE q < e
    BY <2>1, <2>2
  <2>3. CASE ~(q < e)
    <3>1. p = e - 1 /\ q = e
      BY <1>1, <2>1, <2>3
    <3>2. t = -1
      <4> SUFFICES ASSUME t # -1 PROVE FALSE
        OBVIOUS
      <4>1. t \in b .. e - 1 /\ OpAt(code, t) \in Terminators \cup {"HALT"}
        BY <1>2
      <4>2. t = p \/ t \in b .. p - 1
        BY <1>1, <3>1, <4>1
      <4>3. t \in b .. p - 1
        BY <1>3, <1>4, <4>1, <4>2
      <4>4. t \in b .. e - 2
        BY <1>1, <3>1, <4>3
      <4> QED  BY <1>1, <4>1, <4>3, <4>4
    <3>3. ToSet(BlockTargets(code, b)) = IF e < Len(code) THEN {e} ELSE {}
      BY <3>2, TargetsAre
    <3> QED  BY <1>1, <3>1, <3>3
  <2> QED  BY <2>2, <2>3
<1>5. CASE OpAt(code, p) \in Terminators
  <2>1. p = e - 1
    BY <1>1, <1>5
  <2>2. t = p
    <3>1. p <= t
      BY <1>2, <1>5
    <3> QED  BY <1>1, <1>2, <2>1, <3>1
  <2>3. t # -1 /\ OpAt(code, t) \in Jumps \cup LoopOpeners \cup {"NEXT"}
    BY <1>1, <1>5, <2>2 DEF Terminators
  <2>4. p + 1 = e
    BY <1>1, <2>1
  <2> HIDE DEF e, t
  <2>5. q \in ToSet(BlockTargets(code, b))
    <3> DEFINE targets == BlockTargets(code, b)
               fallthrough == IF e < Len(code) THEN {e} ELSE {}
               open == OpenLoops(code)[t]
    <3>1. /\ OpAt(code, t) = "JUMP" => ToSet(targets) = {TargetOf(code, At(code, t).arg)}
          /\ OpAt(code, t) = "JUMPI" => ToSet(targets) = {TargetOf(code, At(code, t).arg)} \cup fallthrough
          /\ OpAt(code, t) \in LoopOpeners => ToSet(targets) = {t + 1, Min(Stops(code, t)) + 1}
          /\ OpAt(code, t) = "NEXT" => ToSet(targets) = {open[Len(open)] + 1} \cup fallthrough
      BY <2>3, TargetsAre DEF e, t
    <3> HIDE DEF targets
    <3>2. q = e => q \in fallthrough
      OBVIOUS
    <3> HIDE DEF fallthrough, open
    <3> QED  BY <2>2, <2>3, <2>4, <3>1, <3>2 DEF Follows, Jumps, LoopOpeners, targets, open
  <2> QED  BY <2>1, <2>5 DEF e
<1> QED  BY <1>4, <1>5

\* The solver of the three analyses, with what is proved of it.
Queue ==
  INSTANCE DataflowProof WITH Jobs <- {}, Top <- JobTop, Boundary <- JobBoundary,
                              Meet <- JobMeet, Transfer <- JobTransfer

\* The sequence without repetitions has the same elements.
LEMMA FirstOccurrencesAre ==
  ASSUME NEW S, NEW s \in Seq(S)
  PROVE  /\ FirstOccurrences(s) \in Seq(S) /\ Queue!NoRepeats(FirstOccurrences(s))
         /\ ToSet(FirstOccurrences(s)) = ToSet(s)
         /\ s # <<>> => FirstOccurrences(s) # <<>> /\ FirstOccurrences(s)[1] = s[1]
<1> DEFINE n == Len(s)
           seqs == Seq(S)
           in(before, x) == \E k \in 1 .. Len(before) : before[k] = x
           step == [a \in (1 .. n) \X seqs |-> IF in(a[2], s[a[1]]) THEN a[2] ELSE Append(a[2], s[a[1]])]
           Solves(g) == g = [i \in 0 .. n |-> IF i = 0 THEN <<>>
                                              ELSE LET before == g[i - 1]
                                                   IN  IF \E k \in 1 .. Len(before) : before[k] = s[i]
                                                         THEN before ELSE Append(before, s[i])]
           kept == CHOOSE g : Solves(g)
<1>1. n \in Nat /\ \A i \in 1 .. n : s[i] \in S
  OBVIOUS
<1>2. <<>> \in seqs /\ step \in Steps(0, n, seqs)
  <2>1. \A q \in seqs, x \in S : Append(q, x) \in seqs
    OBVIOUS
  <2> HIDE DEF in, seqs, n
  <2>2. \A a \in (1 .. n) \X seqs : a[2] \in seqs /\ Append(a[2], s[a[1]]) \in seqs
    BY <1>1, <2>1
  <2>3. \A i \in (0 + 1) .. n : i \in 1 .. n
    BY <1>1
  <2> QED  BY <2>2, <2>3 DEF seqs, Steps
<1>3. PICK f \in [0 .. n -> seqs] :
           f[0] = <<>> /\ \A i \in 1 .. n : f[i - 1] \in seqs /\ f[i] = step[<<i, f[i - 1]>>]
  <2> HIDE DEF step, seqs, n
  <2>1. PICK f : Iterates(f, 0, n, seqs, <<>>, step)
    BY <1>1, <1>2, Recursion
  <2> QED  BY <1>1, <2>1 DEF Iterates
<1>4. Solves(f)
  <2>1. ASSUME NEW i \in 1 .. n
        PROVE  f[i] = IF in(f[i - 1], s[i]) THEN f[i - 1] ELSE Append(f[i - 1], s[i])
    <3>1. f[i - 1] \in seqs /\ f[i] = step[<<i, f[i - 1]>>]
      BY <1>3
    <3> HIDE DEF in, seqs, n
    <3> QED  BY <3>1
  <2> HIDE DEF seqs
  <2>2. f = [i \in 0 .. n |-> f[i]] /\ \A i \in 0 .. n : i = 0 \/ i \in 1 .. n
    BY <1>1, <1>3
  <2>3. \A i \in 0 .. n : f[i] = IF i = 0 THEN <<>>
                                  ELSE IF in(f[i - 1], s[i]) THEN f[i - 1] ELSE Append(f[i - 1], s[i])
    <3> HIDE DEF in, seqs, n
    <3> QED  BY <1>3, <2>1, <2>2
  <2> HIDE DEF n
  <2> QED  BY <2>2, <2>3
<1>5. Solves(kept)
  <2> HIDE DEF Solves
  <2> QED  BY <1>4
<1>6. FirstOccurrences(s) = kept[n]
  BY Zenon DEF FirstOccurrences
<1> HIDE DEF kept
<1>7. kept[0] = <<>> /\ \A i \in 1 .. n : kept[i] = IF in(kept[i - 1], s[i]) THEN kept[i - 1] ELSE Append(kept[i - 1], s[i])
  <2>1. \A i \in 0 .. n : kept[i] = IF i = 0 THEN <<>> ELSE IF in(kept[i - 1], s[i]) THEN kept[i - 1] ELSE Append(kept[i - 1], s[i])
    BY <1>5
  <2>2. 0 \in 0 .. n /\ \A i \in 1 .. n : i \in 0 .. n /\ i # 0
    BY <1>1
  <2> HIDE DEF in, n
  <2> QED  BY <2>1, <2>2
<1> DEFINE Q == {i \in 0 .. n : /\ kept[i] \in seqs /\ Queue!NoRepeats(kept[i])
                                /\ ToSet(kept[i]) = {s[k] : k \in 1 .. i}
                                /\ i # 0 => kept[i] # <<>> /\ kept[i][1] = s[1]}
<1>8. 0 \in Q
  <2>1. <<>> \in seqs /\ Queue!NoRepeats(<<>>) /\ ToSet(<<>>) = {} /\ {s[k] : k \in 1 .. 0} = {} /\ 0 \in 0 .. n
    BY <1>1 DEF Queue!NoRepeats, ToSet
  <2> HIDE DEF seqs, n
  <2> QED  BY <1>7, <2>1
<1>9. ASSUME NEW i \in 0 .. n - 1, i \in Q
      PROVE  i + 1 \in Q
  <2> DEFINE before == kept[i]
             x == s[i + 1]
  <2>1. i + 1 \in 1 .. n /\ (i + 1) - 1 = i
    BY <1>1
  <2>2. kept[i + 1] = IF in(before, x) THEN before ELSE Append(before, x)
    BY <1>7, <2>1
  <2>3. before \in Seq(S) /\ Queue!NoRepeats(before) /\ ToSet(before) = {s[k] : k \in 1 .. i} /\ x \in S
    BY <1>1, <1>9, <2>1
  <2>4. in(before, x) <=> x \in ToSet(before)
    <3> HIDE DEF before, x
    <3>1. DOMAIN before = 1 .. Len(before)
      BY <2>3
    <3> QED  BY <3>1 DEF ToSet
  <2>5. {s[k] : k \in 1 .. i + 1} = {s[k] : k \in 1 .. i} \cup {x}
    BY <2>1
  <2> HIDE DEF before, in
  <2>6. /\ Append(before, x) \in Seq(S) /\ ToSet(Append(before, x)) = ToSet(before) \cup {x}
        /\ x \notin ToSet(before) => Queue!NoRepeats(Append(before, x))
    <3>1. \A q : Queue!Elements(q) = ToSet(q)
      BY DEF Queue!Elements, ToSet
    <3> HIDE DEF x
    <3>2. /\ Append(before, x) \in Seq(S) /\ Queue!Elements(Append(before, x)) = Queue!Elements(before) \cup {x}
          /\ Queue!NoRepeats(before) /\ x \notin Queue!Elements(before) => Queue!NoRepeats(Append(before, x))
      BY <2>3, Queue!AppendNew
    <3> QED  BY <2>3, <3>1, <3>2
  <2>7. kept[i + 1] \in Seq(S) /\ Queue!NoRepeats(kept[i + 1]) /\ ToSet(kept[i + 1]) = {s[k] : k \in 1 .. i + 1}
    BY <2>2, <2>3, <2>4, <2>5, <2>6
  <2>8. kept[i + 1] # <<>> /\ kept[i + 1][1] = s[1]
    <3>1. CASE i = 0
      <4>1. before = <<>> /\ x = s[1]
        BY <1>7, <3>1 DEF before, x
      <4>2. ~in(before, x)
        BY <4>1 DEF in
      <4>3. kept[i + 1] = Append(<<>>, s[1])
        BY <2>2, <4>1, <4>2
      <4> QED  BY <4>3
    <3>2. CASE i # 0
      <4>1. before # <<>> /\ before[1] = s[1]
        BY <1>9, <3>2 DEF before
      <4> HIDE DEF x
      <4>2. Append(before, x) # <<>> /\ Append(before, x)[1] = before[1]
        BY <2>3, <4>1
      <4> QED  BY <2>2, <4>1, <4>2
    <3> QED  BY <3>1, <3>2
  <2> HIDE DEF x, seqs, n
  <2>9. i + 1 \in 0 .. n /\ i + 1 # 0
    BY <1>1, <2>1
  <2> QED  BY <2>7, <2>8, <2>9 DEF seqs
<1>10. n \in Q
  <2> HIDE DEF Q, n
  <2>1. 0 \in Int /\ n \in Int /\ n \in 0 .. n
    BY <1>1
  <2>2. \A i \in 0 .. (n - 1) : i \in Q => i + 1 \in Q
    BY <1>9
  <2>3. \A i \in 0 .. n : i \in Q
    BY <1>8, <2>1, <2>2, Upward, Zenon
  <2> QED  BY <2>1, <2>3
<1>11. ToSet(s) = {s[k] : k \in 1 .. n}
  BY DEF ToSet
<1>12. s # <<>> => n # 0
  BY <1>1
<1> QED  BY <1>6, <1>10, <1>11, <1>12

\* The elements of two sequences laid end to end.
LEMMA ConcatElements ==
  ASSUME NEW S, NEW s \in Seq(S), NEW t \in Seq(S)
  PROVE  s \o t \in Seq(S) /\ ToSet(s \o t) = ToSet(s) \cup ToSet(t)
<1> DEFINE m == Len(s)
           n == Len(t)
           both == s \o t
<1>1. m \in Nat /\ n \in Nat /\ DOMAIN s = 1 .. m /\ DOMAIN t = 1 .. n
  OBVIOUS
<1>2. /\ both \in Seq(S) /\ Len(both) = m + n
      /\ \A i \in 1 .. m : both[i] = s[i]
      /\ \A i \in 1 .. n : both[m + i] = t[i]
  BY ConcatIs
<1>3. DOMAIN both = 1 .. m + n
  BY <1>2
<1> HIDE DEF m, n, both
<1>4. \A i \in 1 .. m + n : i \in 1 .. m \/ (i - m \in 1 .. n /\ m + (i - m) = i)
  BY <1>1
<1>5. (\A i \in 1 .. m : i \in 1 .. m + n) /\ (\A i \in 1 .. n : m + i \in 1 .. m + n)
  BY <1>1
<1>6. ToSet(both) \subseteq ToSet(s) \cup ToSet(t)
  <2> SUFFICES ASSUME NEW i \in 1 .. m + n PROVE both[i] \in ToSet(s) \cup ToSet(t)
    BY <1>3 DEF ToSet
  <2> QED  BY <1>1, <1>2, <1>4 DEF ToSet
<1>7. ToSet(s) \cup ToSet(t) \subseteq ToSet(both)
  BY <1>1, <1>2, <1>3, <1>5 DEF ToSet
<1> QED  BY <1>2, <1>6, <1>7 DEF both

\* A sequence of sequences, laid end to end.
LEMMA FlattenIs ==
  ASSUME NEW S, NEW seqs \in Seq(Seq(S))
  PROVE  /\ FlattenSeq(seqs) \in Seq(S)
         /\ ToSet(FlattenSeq(seqs)) = UNION {ToSet(seqs[i]) : i \in DOMAIN seqs}
<1> DEFINE n == Len(seqs)
           flat == Seq(S)
           step == [a \in (2 .. n) \X flat |-> a[2] \o seqs[a[1]]]
           Solves(g) == g = [i \in 1 .. n |-> IF i = 1 THEN seqs[i] ELSE g[i - 1] \o seqs[i]]
           flatten == CHOOSE g : Solves(g)
<1>1. n \in Nat /\ DOMAIN seqs = 1 .. n /\ \A i \in 1 .. n : seqs[i] \in flat
  OBVIOUS
<1>2. CASE n = 0
  <2>1. FlattenSeq(seqs) = seqs /\ seqs = <<>>
    BY <1>1, <1>2 DEF FlattenSeq
  <2>2. DOMAIN seqs = {} /\ ToSet(seqs) = {}
    BY <2>1 DEF ToSet
  <2> QED  BY <2>1, <2>2
<1>3. CASE n # 0
  <2>1. n \in Nat /\ 1 \in 1 .. n /\ 1 <= n
    BY <1>1, <1>3
  <2>2. seqs[1] \in flat /\ step \in Steps(1, n, flat)
    <3>1. \A p, q \in flat : p \o q \in flat
      OBVIOUS
    <3>2. \A i \in (1 + 1) .. n : i \in 2 .. n
      OBVIOUS
    <3>3. \A i \in 2 .. n : seqs[i] \in flat
      BY <1>1
    <3>4. (1 + 1) .. n = 2 .. n
      OBVIOUS
    <3>5. seqs[1] \in flat
      BY <1>1, <2>1
    <3> HIDE DEF flat, n
    <3> QED  BY <3>1, <3>3, <3>4, <3>5 DEF Steps
  <2>3. PICK f : Iterates(f, 1, n, flat, seqs[1], step)
    <3> HIDE DEF flat, n, step
    <3> QED  BY <2>1, <2>2, Recursion
  <2>4. /\ f \in [1 .. n -> flat] /\ f[1] = seqs[1]
        /\ \A i \in 2 .. n : f[i - 1] \in flat /\ f[i] = step[<<i, f[i - 1]>>]
    <3>1. (1 + 1) .. n = 2 .. n
      OBVIOUS
    <3> HIDE DEF flat, n, step
    <3> QED  BY <2>3, <3>1 DEF Iterates
  <2>5. Solves(f)
    <3>1. \A i \in 2 .. n : f[i] = f[i - 1] \o seqs[i]
      <4> HIDE DEF flat, n
      <4> QED  BY <2>4
    <3>2. f = [i \in 1 .. n |-> f[i]] /\ \A i \in 1 .. n : i = 1 \/ i \in 2 .. n
      BY <1>1, <2>4
    <3> QED  BY <2>4, <3>1, <3>2
  <2>6. Solves(flatten)
    <3> HIDE DEF Solves
    <3> QED  BY <2>5
  <2>7. FlattenSeq(seqs) = flatten[n]
    BY <1>3, Zenon DEF FlattenSeq
  <2> HIDE DEF flatten
  <2>8. flatten[1] = seqs[1] /\ \A i \in 2 .. n : flatten[i] = flatten[i - 1] \o seqs[i]
    <3>1. \A i \in 1 .. n : flatten[i] = IF i = 1 THEN seqs[i] ELSE flatten[i - 1] \o seqs[i]
      BY <2>6
    <3>2. \A i \in 2 .. n : i \in 1 .. n /\ i # 1
      BY <1>1
    <3> HIDE DEF n
    <3> QED  BY <2>1, <3>1, <3>2
  <2> DEFINE parts(i) == {ToSet(seqs[k]) : k \in 1 .. i}
             Q == {i \in 1 .. n : flatten[i] \in flat /\ ToSet(flatten[i]) = UNION parts(i)}
  <2>9. 1 \in Q
    <3>1. UNION parts(1) = ToSet(seqs[1])
      OBVIOUS
    <3> HIDE DEF parts, flat, n
    <3> QED  BY <2>1, <2>2, <2>8, <3>1
  <2>10. ASSUME NEW i \in 1 .. (n - 1), i \in Q
         PROVE  i + 1 \in Q
    <3> DEFINE last == seqs[i + 1]
               before == flatten[i]
    <3>1. i + 1 \in 1 .. n /\ i + 1 \in 2 .. n /\ (i + 1) - 1 = i
      BY <1>1
    <3>2. flatten[i + 1] = before \o last
      BY <2>8, <3>1
    <3>3. before \in Seq(S) /\ last \in Seq(S) /\ ToSet(before) = UNION parts(i)
      BY <1>1, <2>10, <3>1
    <3>4. UNION parts(i + 1) = (UNION parts(i)) \cup ToSet(last)
      <4>1. (1 .. i + 1) = (1 .. i) \cup {i + 1}
        BY <3>1
      <4>2. parts(i + 1) = parts(i) \cup {ToSet(last)}
        BY <3>1, <4>1
      <4> HIDE DEF parts, last
      <4> QED  BY <4>2
    <3> HIDE DEF parts, before, last
    <3>5. before \o last \in Seq(S) /\ ToSet(before \o last) = ToSet(before) \cup ToSet(last)
      BY <3>3, ConcatElements
    <3>6. flatten[i + 1] \in Seq(S) /\ ToSet(flatten[i + 1]) = UNION parts(i + 1)
      BY <3>2, <3>3, <3>4, <3>5
    <3> QED  BY <3>1, <3>6
  <2>11. n \in Q
    <3>1. 1 \in Int /\ n \in Int /\ n \in 1 .. n
      BY <2>1
    <3>2. \A i \in 1 .. (n - 1) : i \in Q => i + 1 \in Q
      BY <2>10
    <3> HIDE DEF Q, n
    <3>3. \A i \in 1 .. n : i \in Q
      BY <2>9, <3>1, <3>2, Upward, Zenon
    <3> QED  BY <3>1, <3>3
  <2> QED  BY <1>1, <2>7, <2>11
<1> QED  BY <1>2, <1>3

\* The leaders with fewer leaders before them than there are, in order.
Below(code, l) == {m \in Leaders(code) : m < l}

\* Sorting the leaders loses none.
LEMMA SortedLeadersAre ==
  ASSUME NEW code, Len(code) \in Nat
  PROVE  SortedLeaders(code) \in Seq(Leaders(code)) /\ ToSet(SortedLeaders(code)) = Leaders(code)
<1> DEFINE L == Leaders(code)
           n == Cardinality(L)
           below(l) == Below(code, l)
           at(i) == CHOOSE l \in L : Cardinality(below(l)) = i - 1
<1>1. IsFiniteSet(L) /\ L \subseteq Nat /\ 0 \in L /\ n \in Nat
  <2>1. IsFiniteSet(L) /\ L \subseteq Nat /\ 0 \in L
    BY LeadersType
  <2> QED  BY <2>1, FS_CardinalityType
<1>2. SortedLeaders(code) = [i \in 1 .. n |-> at(i)]
  BY DEF SortedLeaders, Below
<1>3. ASSUME NEW l \in L
      PROVE  IsFiniteSet(below(l)) /\ Cardinality(below(l)) \in 0 .. n - 1
  <2>1. below(l) \subseteq L /\ l \notin below(l)
    BY <1>1 DEF Below
  <2> HIDE DEF below, L
  <2>2. IsFiniteSet(below(l)) /\ Cardinality(below(l)) <= Cardinality(L) /\ Cardinality(below(l)) # Cardinality(L)
    BY <1>1, <1>3, <2>1, FS_Subset
  <2>3. Cardinality(below(l)) \in Nat
    BY <2>2, FS_CardinalityType
  <2> QED  BY <1>1, <2>2, <2>3
<1> HIDE DEF at
<1>4. n \in Nat /\ 1 <= n
  BY <1>1, <1>3
<1> DEFINE Q == {i \in 1 .. n : \E l \in L : Cardinality(below(l)) = i - 1}
<1>5. 1 \in Q
  <2>1. below(0) = {}
    BY <1>1 DEF Below
  <2> HIDE DEF below, L, n
  <2>2. Cardinality(below(0)) = 0
    BY <2>1, FS_EmptySet
  <2> QED  BY <1>1, <1>4, <2>2
<1>6. ASSUME NEW i \in 1 .. (n - 1), i \in Q
      PROVE  i + 1 \in Q
  <2>1. PICK l \in L : Cardinality(below(l)) = i - 1
    BY <1>6
  <2> DEFINE above == {m \in L : m > l}
  <2>2. l \notin below(l) /\ IsFiniteSet(below(l)) /\ Cardinality(below(l) \cup {l}) = i
    <3>1. l \notin below(l) /\ i \in Int
      BY <1>1, <1>4 DEF Below
    <3> HIDE DEF below, L
    <3>2. IsFiniteSet(below(l))
      BY <1>3
    <3>3. Cardinality(below(l) \cup {l}) = Cardinality(below(l)) + 1
      BY <3>1, <3>2, FS_AddElement
    <3> QED  BY <2>1, <3>1, <3>2, <3>3
  <2>3. above # {}
    <3> SUFFICES ASSUME above = {} PROVE FALSE
      OBVIOUS
    <3>1. below(l) \cup {l} = L
      BY <1>1 DEF Below
    <3> HIDE DEF below, L
    <3>2. n = i
      BY <2>2, <3>1
    <3> HIDE DEF n
    <3> QED  BY <1>4, <3>2
  <2>4. PICK h \in above : \A m \in above : h <= m
    <3>1. above \subseteq Nat
      BY <1>1
    <3> HIDE DEF above
    <3> QED  BY <2>3, <3>1, LeastNatural
  <2>5. below(h) = below(l) \cup {l}
    BY <1>1, <2>4 DEF Below
  <2>6. h \in L /\ i + 1 \in 1 .. n /\ (i + 1) - 1 = i
    BY <1>4, <2>4
  <2> HIDE DEF below, L, n
  <2> QED  BY <2>2, <2>5, <2>6
<1>7. \A i \in 1 .. n : i \in Q
  <2>1. 1 \in Int /\ n \in Int /\ \A i \in 1 .. (n - 1) : i \in Q => i + 1 \in Q
    BY <1>4, <1>6
  <2> HIDE DEF Q, n
  <2> QED  BY <1>5, <2>1, Upward, Zenon
<1>8. \A i \in 1 .. n : at(i) \in L /\ Cardinality(below(at(i))) = i - 1
  <2> HIDE DEF L, below, n
  <2> QED  BY <1>7 DEF at
<1>9. ASSUME NEW l \in L
      PROVE  \E i \in 1 .. n : at(i) = l
  <2> DEFINE i == Cardinality(below(l)) + 1
             h == at(i)
  <2>1. i \in 1 .. n /\ i - 1 = Cardinality(below(l))
    BY <1>3, <1>4
  <2>2. h \in L /\ Cardinality(below(h)) = Cardinality(below(l))
    BY <1>8, <2>1
  <2>3. ASSUME NEW x \in L, NEW y \in L, x < y
        PROVE  Cardinality(below(x)) # Cardinality(below(y))
    <3>1. below(x) \in SUBSET below(y) /\ x \in below(y) /\ x \notin below(x)
      BY <1>1, <2>3 DEF Below
    <3> HIDE DEF below, L
    <3> QED  BY <1>3, <3>1, FS_Subset
  <2> HIDE DEF h, i
  <2>4. h = l
    <3>1. h \in Nat /\ l \in Nat
      BY <1>1, <2>2
    <3>2. ~(h < l) /\ ~(l < h)
      BY <2>2, <2>3
    <3> QED  BY <3>1, <3>2
  <2> QED  BY <2>1, <2>4 DEF h
<1> HIDE DEF L, n, below
<1>10. SortedLeaders(code) \in Seq(L) /\ DOMAIN SortedLeaders(code) = 1 .. n
  BY <1>2, <1>4, <1>8
<1>11. ToSet(SortedLeaders(code)) = L
  BY <1>2, <1>8, <1>9 DEF ToSet
<1> QED  BY <1>10, <1>11 DEF L

\* The edges are between leaders, and every target of every block is one.
LEMMA EdgeListIs ==
  ASSUME NEW code, Len(code) \in Nat, ScanAccepts(code)
  PROVE  /\ EdgeList(code) \in Seq(Leaders(code) \X Leaders(code))
         /\ \A b \in Leaders(code) : \A t \in ToSet(BlockTargets(code, b)) :
              <<b, t>> \in ToSet(EdgeList(code))
<1> DEFINE L == Leaders(code)
           pairs == L \X L
           leaders == SortedLeaders(code)
           from == [i \in DOMAIN leaders |-> EdgesFrom(code, leaders[i])]
<1>1. /\ leaders \in Seq(L) /\ Len(leaders) \in Nat /\ DOMAIN leaders = 1 .. Len(leaders)
      /\ ToSet(leaders) = L
  <2>1. leaders \in Seq(L) /\ ToSet(leaders) = L
    BY SortedLeadersAre
  <2> HIDE DEF leaders, L
  <2> QED  BY <2>1
<1>2. ASSUME NEW b \in L
      PROVE  /\ EdgesFrom(code, b) \in Seq(pairs)
             /\ \A t \in ToSet(BlockTargets(code, b)) : <<b, t>> \in ToSet(EdgesFrom(code, b))
  <2> DEFINE targets == BlockTargets(code, b)
             k == Len(targets)
  <2>1. targets \in Seq(L)
    BY TargetsAre
  <2> HIDE DEF targets, L
  <2>2. k \in Nat /\ DOMAIN targets = 1 .. k /\ \A i \in 1 .. k : targets[i] \in L
    BY <2>1
  <2>3. EdgesFrom(code, b) = [i \in 1 .. k |-> <<b, targets[i]>>]
    BY <2>2 DEF EdgesFrom, targets
  <2> HIDE DEF k
  <2> QED  BY <1>2, <2>2, <2>3 DEF ToSet, targets
<1> HIDE DEF leaders, L
<1>3. from \in Seq(Seq(pairs)) /\ DOMAIN from = DOMAIN leaders
  <2>1. \A i \in DOMAIN leaders : leaders[i] \in L
    BY <1>1
  <2> HIDE DEF pairs
  <2>2. from \in [1 .. Len(leaders) -> Seq(pairs)]
    BY <1>1, <1>2, <2>1
  <2> QED  BY <1>1, <2>2
<1>4. /\ FlattenSeq(from) \in Seq(pairs)
      /\ ToSet(FlattenSeq(from)) = UNION {ToSet(from[i]) : i \in DOMAIN from}
  <2> HIDE DEF from, pairs
  <2> QED  BY <1>3, FlattenIs
<1>5. EdgeList(code) = FirstOccurrences(FlattenSeq(from))
  BY DEF EdgeList, leaders
<1>6. EdgeList(code) \in Seq(pairs) /\ ToSet(EdgeList(code)) = ToSet(FlattenSeq(from))
  <2> HIDE DEF from, pairs
  <2> QED  BY <1>4, <1>5, FirstOccurrencesAre
<1>7. ASSUME NEW b \in L, NEW t \in ToSet(BlockTargets(code, b))
      PROVE  <<b, t>> \in ToSet(EdgeList(code))
  <2>1. PICK i \in DOMAIN leaders : leaders[i] = b
    BY <1>1 DEF ToSet
  <2>2. from[i] = EdgesFrom(code, b)
    BY <2>1
  <2>3. <<b, t>> \in ToSet(from[i])
    BY <1>2, <2>2
  <2> QED  BY <1>3, <1>4, <1>6, <2>3
<1> QED  BY <1>6, <1>7 DEF L

\* The nodes met across the edges of a node.
LEMMA NeighboursAre ==
  ASSUME NEW L, NEW edges \in Seq(L \X L), NEW n, NEW here \in {1, 2}, NEW across \in {1, 2}
  PROVE  /\ Neighbours(edges, n, here, across) \in Seq(L)
         /\ \A m : m \in ToSet(Neighbours(edges, n, here, across))
                     <=> \E e \in ToSet(edges) : e[here] = n /\ e[across] = m
<1> DEFINE met == [i \in DOMAIN edges |-> IF edges[i][here] = n THEN <<edges[i][across]>> ELSE <<>>]
<1>1. \A i \in DOMAIN edges : edges[i] \in L \X L
  OBVIOUS
<1>2. ASSUME NEW i \in DOMAIN edges
      PROVE  met[i] \in Seq(L) /\ ToSet(met[i]) = IF edges[i][here] = n THEN {edges[i][across]} ELSE {}
  <2> DEFINE m == edges[i][across]
  <2>1. m \in L
    BY <1>1, <1>2
  <2> HIDE DEF m
  <2>2. <<m>> \in Seq(L) /\ ToSet(<<m>>) = {m} /\ <<>> \in Seq(L) /\ ToSet(<<>>) = {}
    BY <2>1 DEF ToSet
  <2> QED  BY <2>2 DEF m
<1>3. met \in Seq(Seq(L)) /\ DOMAIN met = DOMAIN edges
  <2>1. Len(edges) \in Nat /\ DOMAIN edges = 1 .. Len(edges)
    OBVIOUS
  <2>2. met \in [1 .. Len(edges) -> Seq(L)]
    BY <1>2, <2>1
  <2> QED  BY <2>1, <2>2
<1>4. FlattenSeq(met) \in Seq(L) /\ ToSet(FlattenSeq(met)) = UNION {ToSet(met[i]) : i \in DOMAIN met}
  <2> HIDE DEF met
  <2> QED  BY <1>3, FlattenIs
<1>5. Neighbours(edges, n, here, across) = FlattenSeq(met)
  BY DEF Neighbours
<1> HIDE DEF met
<1>6. ASSUME NEW m
      PROVE  m \in ToSet(FlattenSeq(met)) <=> \E e \in ToSet(edges) : e[here] = n /\ e[across] = m
  <2>1. m \in ToSet(FlattenSeq(met)) <=> \E i \in DOMAIN edges : m \in ToSet(met[i])
    BY <1>3, <1>4
  <2>2. \A i \in DOMAIN edges : m \in ToSet(met[i]) <=> edges[i][here] = n /\ edges[i][across] = m
    BY <1>2
  <2> QED  BY <2>1, <2>2 DEF ToSet
<1> QED  BY <1>4, <1>5, <1>6

\* The exit is put on a block.
LEMMA ExitBlockIs ==
  ASSUME NEW code, Len(code) \in Nat
  PROVE  ExitBlock(code) \in Leaders(code)
<1> DEFINE L == Leaders(code)
           halts == {p \in Positions(code) : OpAt(code, p) = "HALT"}
           started == {l \in L : l = 0 \/ OpAt(code, l - 1) \in Terminators}
           upto == {l \in started : l <= Max(halts)}
<1>1. IsFiniteSet(L) /\ L \subseteq Int /\ 0 \in L
  BY LeadersType
<1>2. CASE halts = {}
  <2>1. Max(L) \in L
    <3> HIDE DEF L
    <3> QED  BY <1>1, MaxIs
  <2> QED  BY <1>2, <2>1 DEF ExitBlock
<1>3. CASE halts # {}
  <2>1. halts \subseteq Nat /\ halts \subseteq Int /\ IsFiniteSet(halts)
    <3> DEFINE n == Len(code) - 1
    <3>1. halts \subseteq 0 .. n /\ n \in Int
      BY DEF Positions
    <3>2. IsFiniteSet(0 .. n)
      <4> HIDE DEF n
      <4> QED  BY <3>1, FS_Interval
    <3>3. halts \subseteq Nat /\ halts \subseteq Int
      BY <3>1
    <3> HIDE DEF halts, n
    <3> QED  BY <3>1, <3>2, <3>3, FS_Subset
  <2>2. Max(halts) \in Nat
    <3> HIDE DEF halts
    <3>1. Max(halts) \in halts
      BY <1>3, <2>1, MaxIs
    <3> QED  BY <2>1, <3>1
  <2>3. 0 \in upto /\ upto \subseteq L
    <3> HIDE DEF halts
    <3> QED  BY <1>1, <2>2
  <2>4. upto \subseteq Int /\ IsFiniteSet(upto)
    <3> HIDE DEF upto
    <3> QED  BY <1>1, <2>3, FS_Subset
  <2>5. Max(upto) \in upto
    <3> HIDE DEF upto
    <3> QED  BY <2>3, <2>4, MaxIs
  <2>6. ExitBlock(code) = Max(upto)
    BY <1>3 DEF ExitBlock
  <2> QED  BY <2>3, <2>5, <2>6
<1> QED  BY <1>2, <1>3

\* The graph is one the solver can serve; its nodes are leaders, all of them
\* when every block is in the graph; and every edge of a block is in it.
LEMMA GraphIs ==
  ASSUME NEW code, Len(code) \in Nat, ScanAccepts(code), NEW g, g = Graph(code),
         NEW blocks, blocks = ToSet(g.nodes)
  PROVE  /\ g.entry = 0 /\ 0 \in blocks /\ blocks \subseteq Leaders(code)
         /\ g.nodes \in Seq(blocks) /\ Queue!NoRepeats(g.nodes)
         /\ g.succs \in [blocks -> Seq(blocks)] /\ g.preds \in [blocks -> Seq(blocks)]
         /\ \A m, n \in blocks : m \in ToSet(g.preds[n]) <=> n \in ToSet(g.succs[m])
         /\ \A b \in Leaders(code) : \A t \in ToSet(BlockTargets(code, b)) :
              b \in blocks /\ t \in blocks /\ b \in ToSet(g.preds[t])
         /\ BlocksInGraph(code) /\ code # <<>> => blocks = Leaders(code)
         /\ g.nodes # <<>> /\ g.nodes[1] = 0
<1> DEFINE L == Leaders(code)
           edges == EdgeList(code)
           exit == ExitBlock(code)
           ends == FlattenSeq(edges)
           all == <<0, exit>> \o ends
<1>1. /\ edges \in Seq(L \X L)
      /\ \A b \in L : \A t \in ToSet(BlockTargets(code, b)) : <<b, t>> \in ToSet(edges)
  BY EdgeListIs
<1>2. 0 \in L /\ exit \in L
  BY LeadersType, ExitBlockIs
<1> HIDE DEF L, edges, exit
<1>3. DOMAIN edges = 1 .. Len(edges) /\ Len(edges) \in Nat /\ \A i \in DOMAIN edges : edges[i] \in L \X L
  BY <1>1
<1>4. ends \in Seq(L) /\ ToSet(ends) = UNION {ToSet(edges[i]) : i \in DOMAIN edges}
  <2>1. \A e \in L \X L : e \in Seq(L)
    <3>1. ASSUME NEW e \in L \X L PROVE e \in Seq(L)
      <4>1. PICK a \in L, b \in L : e = <<a, b>>
        OBVIOUS
      <4> QED  BY <4>1
    <3> QED  BY <3>1
  <2>2. edges \in Seq(Seq(L))
    <3> HIDE DEF ends
    <3>1. edges \in [1 .. Len(edges) -> Seq(L)]
      BY <1>1, <1>3, <2>1
    <3> QED  BY <1>3, <3>1
  <2> QED  BY <2>2, FlattenIs
<1>5. \A e \in L \X L : ToSet(e) = {e[1], e[2]}
  <2> SUFFICES ASSUME NEW a \in L, NEW b \in L PROVE ToSet(<<a, b>>) = {a, b}
    OBVIOUS
  <2>1. DOMAIN <<a, b>> = {1, 2}
    OBVIOUS
  <2> QED  BY <2>1 DEF ToSet
<1>6. all \in Seq(L) /\ ToSet(all) = {0, exit} \cup ToSet(ends) /\ all # <<>> /\ all[1] = 0
  <2> DEFINE pair == <<0, exit>>
  <2>1. pair \in Seq(L) /\ pair \in L \X L
    BY <1>2
  <2>2. ToSet(pair) = {0, exit}
    BY <1>5, <2>1
  <2>3. all = pair \o ends
    OBVIOUS
  <2> HIDE DEF ends, pair, all
  <2>4. pair \o ends \in Seq(L) /\ ToSet(pair \o ends) = ToSet(pair) \cup ToSet(ends)
    BY <1>4, <2>1, ConcatElements
  <2>5. Len(pair) = 2 /\ pair[1] = 0
    BY DEF pair
  <2>6. Len(pair \o ends) = 2 + Len(ends) /\ (pair \o ends)[1] = 0 /\ Len(ends) \in Nat
    <3>1. PICK p \in Seq(L), q \in Seq(L) : p = pair /\ q = ends
      BY <1>4, <2>1
    <3>2. PICK m : m = Len(p)
      OBVIOUS
    <3>3. PICK n : n = Len(q)
      OBVIOUS
    <3>4. Len(p \o q) = m + n /\ \A i \in 1 .. m : (p \o q)[i] = p[i]
      BY <3>2, <3>3, ConcatIs
    <3>5. 1 \in 1 .. m /\ m = 2 /\ n \in Nat
      BY <2>5, <3>1, <3>2, <3>3
    <3> QED  BY <2>5, <3>1, <3>3, <3>4, <3>5
  <2>7. pair \o ends # <<>>
    BY <2>4, <2>6
  <2> QED  BY <1>4, <2>2, <2>3, <2>4, <2>6, <2>7
<1>7. g.nodes = FirstOccurrences(all)
  BY DEF Graph, edges, exit
<1>8. /\ g.nodes \in Seq(L) /\ Queue!NoRepeats(g.nodes) /\ blocks = ToSet(all)
      /\ g.nodes # <<>> /\ g.nodes[1] = 0
  <2> HIDE DEF all
  <2> QED  BY <1>6, <1>7, FirstOccurrencesAre
<1> HIDE DEF all, ends
<1>9. /\ 0 \in blocks /\ exit \in blocks /\ blocks \subseteq L
      /\ \A i \in DOMAIN edges : edges[i] \in blocks \X blocks
  <2>1. blocks \subseteq L
    BY <1>6, <1>8 DEF ToSet
  <2>2. \A i \in DOMAIN edges : edges[i][1] \in blocks /\ edges[i][2] \in blocks
    BY <1>3, <1>4, <1>5, <1>6, <1>8
  <2> QED  BY <1>3, <1>6, <1>8, <2>1, <2>2
<1>10. g.nodes \in Seq(blocks)
  <2>1. DOMAIN g.nodes = 1 .. Len(g.nodes) /\ Len(g.nodes) \in Nat
    BY <1>8
  <2>2. g.nodes \in [1 .. Len(g.nodes) -> blocks]
    BY <1>8, <2>1 DEF ToSet
  <2> QED  BY <2>1, <2>2
<1>11. edges \in Seq(blocks \X blocks)
  <2>1. edges \in [1 .. Len(edges) -> blocks \X blocks]
    BY <1>1, <1>3, <1>9
  <2> QED  BY <1>3, <2>1
<1>12. /\ g.entry = 0
       /\ g.succs = [n \in blocks |-> Neighbours(edges, n, 1, 2)]
       /\ g.preds = [n \in blocks |-> Neighbours(edges, n, 2, 1)]
  <2>1. g = [nodes |-> FirstOccurrences(all),
             entry |-> 0,
             succs |-> [n \in ToSet(FirstOccurrences(all)) |-> Neighbours(edges, n, 1, 2)],
             preds |-> [n \in ToSet(FirstOccurrences(all)) |-> Neighbours(edges, n, 2, 1)]]
    BY Zenon DEF Graph, edges, exit, all, ends
  <2> QED  BY <1>7, <2>1
<1>13. ASSUME NEW n \in blocks
       PROVE  /\ g.succs[n] \in Seq(blocks) /\ g.preds[n] \in Seq(blocks)
              /\ \A m : m \in ToSet(g.succs[n]) <=> \E e \in ToSet(edges) : e[1] = n /\ e[2] = m
              /\ \A m : m \in ToSet(g.preds[n]) <=> \E e \in ToSet(edges) : e[1] = m /\ e[2] = n
  <2>1. /\ Neighbours(edges, n, 1, 2) \in Seq(blocks)
        /\ \A m : m \in ToSet(Neighbours(edges, n, 1, 2)) <=> \E e \in ToSet(edges) : e[1] = n /\ e[2] = m
    BY <1>11, NeighboursAre
  <2>2. /\ Neighbours(edges, n, 2, 1) \in Seq(blocks)
        /\ \A m : m \in ToSet(Neighbours(edges, n, 2, 1)) <=> \E e \in ToSet(edges) : e[2] = n /\ e[1] = m
    BY <1>11, NeighboursAre
  <2>3. g.succs[n] = Neighbours(edges, n, 1, 2) /\ g.preds[n] = Neighbours(edges, n, 2, 1)
    BY <1>12
  <2>4. \A m : (\E e \in ToSet(edges) : e[2] = n /\ e[1] = m) <=> (\E e \in ToSet(edges) : e[1] = m /\ e[2] = n)
    OBVIOUS
  <2> QED  BY <2>1, <2>2, <2>3, <2>4
<1>14. g.succs \in [blocks -> Seq(blocks)] /\ g.preds \in [blocks -> Seq(blocks)]
  <2>1. g.succs = [n \in blocks |-> g.succs[n]] /\ g.preds = [n \in blocks |-> g.preds[n]]
    BY <1>12
  <2> QED  BY <1>13, <2>1
<1>15. \A m, n \in blocks : m \in ToSet(g.preds[n]) <=> n \in ToSet(g.succs[m])
  <2> SUFFICES ASSUME NEW m \in blocks, NEW n \in blocks
               PROVE  m \in ToSet(g.preds[n]) <=> n \in ToSet(g.succs[m])
    OBVIOUS
  <2> DEFINE Edge(a, b) == \E e \in ToSet(edges) : e[1] = a /\ e[2] = b
  <2>1. n \in ToSet(g.succs[m]) <=> Edge(m, n)
    <3>1. \A l : l \in ToSet(g.succs[m]) <=> \E e \in ToSet(edges) : e[1] = m /\ e[2] = l
      BY <1>13
    <3> QED  BY <3>1
  <2>2. m \in ToSet(g.preds[n]) <=> Edge(m, n)
    <3>1. \A l : l \in ToSet(g.preds[n]) <=> \E e \in ToSet(edges) : e[1] = l /\ e[2] = n
      BY <1>13
    <3> QED  BY <3>1
  <2> QED  BY <2>1, <2>2
<1>16. ASSUME NEW b \in L, NEW t \in ToSet(BlockTargets(code, b))
       PROVE  b \in blocks /\ t \in blocks /\ b \in ToSet(g.preds[t])
  <2>1. <<b, t>> \in ToSet(edges)
    BY <1>1
  <2>2. PICK i \in DOMAIN edges : edges[i] = <<b, t>>
    BY <2>1 DEF ToSet
  <2>3. edges[i] \in blocks \X blocks
    BY <1>9
  <2>4. b \in blocks /\ t \in blocks
    BY <2>2, <2>3
  <2>5. <<b, t>>[2] = t /\ <<b, t>>[1] = b
    OBVIOUS
  <2> QED  BY <1>13, <2>1, <2>4, <2>5
<1>17. ASSUME BlocksInGraph(code), code # <<>>
       PROVE  blocks = L
  <2> SUFFICES ASSUME NEW b \in L, b # 0, b # exit PROVE b \in blocks
    BY <1>9
  <2>1. PICK e \in Range(edges) : b \in {e[1], e[2]}
    BY <1>17 DEF BlocksInGraph, L, exit, edges
  <2>2. PICK i \in DOMAIN edges : edges[i] = e
    BY <2>1 DEF Range
  <2> QED  BY <1>9, <2>1, <2>2
<1> QED  BY <1>8, <1>9, <1>10, <1>12, <1>14, <1>15, <1>16, <1>17 DEF L

-----------------------------------------------------------------------------
(* The solver, called by the verifier. *)

\* The call of the solver for one analysis of a program.
Task(kind, code) == JobFor(kind, code, Graph(code))

\* The values before the nodes are the same to the solver's own theorems.
LEMMA SameBefore ==
  ASSUME NEW j, NEW st, NEW n
  PROVE  Queue!Before(j, st, n) = Solver!Before(j, st, n)
BY DEF Queue!Before, Queue!MeetAll, Queue!Arriving, Solver!Before, Solver!MeetAll, Solver!Arriving

\* Its graph is one the solver is made for.
LEMMA TaskIs ==
  ASSUME NEW code, Len(code) \in Nat, ScanAccepts(code), NEW kind, NEW j, j = Task(kind, code),
         NEW blocks, blocks = ToSet(Graph(code).nodes)
  PROVE  /\ Queue!WellFormed(j) /\ Queue!Nodes(j) = blocks /\ j.kind = kind /\ j.entry = 0
         /\ Solver!Nodes(j) = blocks /\ DOMAIN j.succs = blocks /\ 0 \in blocks
         /\ j.preds \in [blocks -> Seq(blocks)]
         /\ \A b \in Leaders(code) : \A t \in ToSet(BlockTargets(code, b)) :
              b \in blocks /\ t \in blocks /\ \E i \in DOMAIN j.preds[t] : j.preds[t][i] = b
         /\ BlocksInGraph(code) /\ code # <<>> => blocks = Leaders(code)
         /\ \A n \in blocks : kind = "depth" => j.body[n] = BlockEffect(code, n)
         /\ \A n \in blocks : kind # "depth" => j.body[n] = SubSeq(code, n + 1, SpanEnd(code, Graph(code), n))
<1> DEFINE g == Graph(code)
<1>1. /\ g.entry = 0 /\ 0 \in blocks
      /\ g.nodes \in Seq(blocks) /\ Queue!NoRepeats(g.nodes)
      /\ g.succs \in [blocks -> Seq(blocks)] /\ g.preds \in [blocks -> Seq(blocks)]
      /\ \A m, n \in blocks : m \in ToSet(g.preds[n]) <=> n \in ToSet(g.succs[m])
      /\ \A b \in Leaders(code) : \A t \in ToSet(BlockTargets(code, b)) :
           b \in blocks /\ t \in blocks /\ b \in ToSet(g.preds[t])
      /\ BlocksInGraph(code) /\ code # <<>> => blocks = Leaders(code)
  BY GraphIs
<1>2. /\ j.nodes = g.nodes /\ j.entry = g.entry /\ j.preds = g.preds /\ j.succs = g.succs /\ j.kind = kind
      /\ j.body = [n \in DOMAIN g.succs |->
                     IF kind = "depth" THEN BlockEffect(code, n)
                     ELSE SubSeq(code, n + 1, SpanEnd(code, g, n))]
  BY DEF Task, JobFor
<1>3. blocks = ToSet(g.nodes)
  OBVIOUS
<1> HIDE DEF g
<1>a. \A s : Queue!Elements(s) = ToSet(s) /\ Solver!Elements(s) = ToSet(s)
  BY DEF Queue!Elements, Solver!Elements, ToSet
<1>4. Queue!Nodes(j) = blocks /\ Solver!Nodes(j) = blocks
  BY <1>2, <1>3, <1>a DEF Queue!Nodes, Solver!Nodes
<1>5. \A m, n \in blocks : m \in Queue!Elements(j.preds[n]) => n \in Queue!Elements(j.succs[m])
  BY <1>1, <1>2, <1>a
<1>6. Queue!WellFormed(j)
  BY <1>1, <1>2, <1>4, <1>5 DEF Queue!WellFormed
<1>7. ASSUME NEW b \in Leaders(code), NEW t \in ToSet(BlockTargets(code, b))
      PROVE  b \in blocks /\ t \in blocks /\ \E i \in DOMAIN j.preds[t] : j.preds[t][i] = b
  <2>1. b \in blocks /\ t \in blocks /\ b \in ToSet(j.preds[t])
    BY <1>1, <1>2
  <2>2. \E i \in DOMAIN j.preds[t] : j.preds[t][i] = b
    <3> DEFINE s == j.preds[t]
    <3>1. b \in ToSet(s)
      BY <2>1
    <3> HIDE DEF s
    <3>2. \E i \in DOMAIN s : s[i] = b
      BY <3>1 DEF ToSet
    <3> QED  BY <3>2 DEF s
  <2> QED  BY <2>1, <2>2
<1>8. DOMAIN g.succs = blocks
  BY <1>1
<1>9. \A n \in blocks : j.body[n] = IF kind = "depth" THEN BlockEffect(code, n) ELSE SubSeq(code, n + 1, SpanEnd(code, g, n))
  BY <1>2, <1>8
<1> QED  BY <1>1, <1>2, <1>4, <1>6, <1>7, <1>8, <1>9 DEF g

\* The answers of the solver.
Fixed(j, st) ==
  /\ DOMAIN st = Solver!Nodes(j)
  /\ \A n \in Solver!Nodes(j) : st[n] = JobTransfer(j, n, Solver!Before(j, st, n))

\* A phase of the verifier serves its own call, and its solver is in order.
Serving(kind) == phase = kind => job = Task(kind, program) /\ Queue!Inv
Working == Serving("types") /\ Serving("init") /\ Serving("depth")

\* A step of the solver is one of the solver whose queue forgets nothing.
LEMMA SolverKeeps == Queue!Inv /\ Solver!Next => Queue!Inv' /\ job' = job
<1>1. Solver!Enqueue => Queue!Enqueue
  BY DEF Solver!Enqueue, Queue!Enqueue
<1>2. Solver!Recompute => Queue!Recompute
  BY SameBefore, Zenon DEF Solver!Recompute, Queue!Recompute
<1>3. Solver!Next => job' = job
  BY DEF Solver!Next, Solver!Enqueue, Solver!Recompute
<1> QED BY <1>1, <1>2, <1>3, Queue!InvRecompute, Queue!InvEnqueue DEF Solver!Next

\* A call begins with every node on the queue.
LEMMA CallStarts ==
  ASSUME Len(program) \in Nat, ScanAccepts(program), NEW kind, Call(kind), program' = program
  PROVE  /\ phase' = kind /\ job' = Task(kind, program) /\ Queue!Inv'
         /\ worklist' = Graph(program).nodes /\ pending' = <<>>
         /\ state' = Solver!InitialState(Task(kind, program))
<1> DEFINE j == Task(kind, program)
           blocks == ToSet(Graph(program).nodes)
<1>1. /\ phase' = kind /\ job' = j /\ worklist' = j.nodes /\ inWorklist' = Solver!Nodes(j)
      /\ state' = Solver!InitialState(j) /\ pending' = <<>>
  BY DEF Call, Task
<1>2. Queue!WellFormed(j) /\ Queue!Nodes(j) = blocks /\ Solver!Nodes(j) = blocks
  BY TaskIs
<1>3. j.nodes = Graph(program).nodes
  BY DEF Task, JobFor
<1>4. DOMAIN state' = blocks
  BY <1>1, <1>2 DEF Solver!InitialState
<1> HIDE DEF j, blocks
<1>5. j.nodes \in Seq(Queue!Nodes(j)) /\ Queue!NoRepeats(j.nodes)
  BY <1>2 DEF Queue!WellFormed
<1>6. inWorklist' = Queue!Elements(j.nodes)
  BY <1>1, <1>2 DEF Queue!Nodes
<1>7. Queue!QueueOK'
  BY <1>1, <1>2, <1>4, <1>5, <1>6 DEF Queue!QueueOK
<1>8. Queue!NothingForgotten'
  BY <1>1, <1>2 DEF Queue!NothingForgotten, Queue!Owed
<1> QED  BY <1>1, <1>3, <1>7, <1>8 DEF Queue!Inv, j

\* When it has converged, its state is an answer.
LEMMA ConvergedIsFixed == ASSUME Queue!Inv, Solver!Converged PROVE Fixed(job, state)
<1>1. worklist = <<>> /\ pending = <<>>
  BY DEF Solver!Converged
<1>2. Queue!Owed = {}
  BY <1>1 DEF Queue!Inv, Queue!QueueOK, Queue!Owed, Queue!Elements
<1>3. Queue!Nodes(job) = Solver!Nodes(job)
  BY DEF Queue!Nodes, Queue!Elements, Solver!Nodes, Solver!Elements
<1>4. \A n \in Queue!Nodes(job) : Queue!Settled(n)
  BY <1>2 DEF Queue!Inv, Queue!NothingForgotten
<1> QED  BY <1>3, <1>4, SameBefore, Zenon DEF Fixed, Queue!Settled, Queue!Inv, Queue!QueueOK

-----------------------------------------------------------------------------
(* The stack along a block. *)

Effects == [depth : Int, fixed : BOOLEAN, needs : Nat, underflow : BOOLEAN]
NoEffect == [depth |-> 0, fixed |-> FALSE, needs |-> 0, underflow |-> FALSE]

\* The effect of a block up to each of its positions.
EffectAlong(code, b) ==
  LET run[p \in b .. BlockEnd(code, b)] ==
        IF p = b THEN NoEffect ELSE StackStep(OpAt(code, p - 1), run[p - 1])
  IN  run

\* The tables of the stack give numbers.
LEMMA PopsType == ASSUME NEW op PROVE Pops(op) \in Nat /\ Pushes(op) \in Nat
<1>1. Pops(op) \in Nat
  BY DEF Pops
<1>2. Pushes(op) \in Nat
  BY DEF Pushes
<1> QED  BY <1>1, <1>2

\* Emptying the stack forgets how deep it was.
LEMMA ClearedIs ==
  ASSUME NEW s \in Effects, NEW r, r = [s EXCEPT !.fixed = TRUE, !.depth = 0]
  PROVE  r \in Effects /\ r.depth = 0 /\ r.fixed = TRUE /\ r.needs = s.needs /\ r.underflow = s.underflow
<1>1. PICK d \in Int, f \in BOOLEAN, n \in Nat, u \in BOOLEAN :
        s = [depth |-> d, fixed |-> f, needs |-> n, underflow |-> u]
  BY Zenon DEF Effects
<1>2. r = [depth |-> 0, fixed |-> TRUE, needs |-> n, underflow |-> u]
  BY <1>1
<1>3. 0 \in Int /\ TRUE \in BOOLEAN
  OBVIOUS
<1>4. r \in Effects
  BY <1>2, <1>3, Zenon DEF Effects
<1>5. r.depth = 0
  BY <1>2, Zenon
<1>6. r.fixed = TRUE
  BY <1>2, Zenon
<1>7. r.needs = s.needs
  BY <1>1, <1>2, Zenon
<1>8. r.underflow = s.underflow
  BY <1>1, <1>2, Zenon
<1> QED  BY <1>4, <1>5, <1>6, <1>7, <1>8

\* An instruction turns the effect so far into another one.
LEMMA StackStepType == ASSUME NEW op, NEW s \in Effects PROVE StackStep(op, s) \in Effects
<1>1. CASE op = "SCLR"
  BY <1>1, ClearedIs DEF StackStep
<1>2. CASE op # "SCLR"
  <2> DEFINE low == s.depth - Pops(op)
             needs == IF ~s.fixed /\ -low > s.needs THEN -low ELSE s.needs
             underflow == s.underflow \/ (s.fixed /\ low < 0)
  <2>1. StackStep(op, s) = [depth |-> low + Pushes(op), fixed |-> s.fixed, needs |-> needs, underflow |-> underflow]
    BY <1>2 DEF StackStep
  <2>2. s.depth \in Int /\ s.fixed \in BOOLEAN /\ s.needs \in Nat /\ s.underflow \in BOOLEAN
    BY DEF Effects
  <2>3. low \in Int /\ low + Pushes(op) \in Int
    BY <2>2, PopsType
  <2>4. needs \in Nat /\ underflow \in BOOLEAN
    <3> HIDE DEF low
    <3> QED  BY <2>2, <2>3
  <2> HIDE DEF low, needs, underflow
  <2> QED  BY <2>1, <2>2, <2>3, <2>4 DEF Effects
<1> QED  BY <1>1, <1>2

\* The effects are what the positions make of each other.
LEMMA EffectAlongIs ==
  ASSUME NEW code, Len(code) \in Nat, NEW b \in Leaders(code)
  PROVE  LET run == EffectAlong(code, b)
             e == BlockEnd(code, b)
         IN  /\ run \in [b .. e -> Effects] /\ run[b] = NoEffect /\ BlockEffect(code, b) = run[e]
             /\ \A p \in b .. e - 1 : run[p + 1] = StackStep(OpAt(code, p), run[p])
<1> DEFINE e == BlockEnd(code, b)
           step == [a \in ((b + 1) .. e) \X Effects |-> StackStep(OpAt(code, a[1] - 1), a[2])]
           Solves(g) == g = [p \in b .. e |-> IF p = b THEN NoEffect ELSE StackStep(OpAt(code, p - 1), g[p - 1])]
           run == CHOOSE g : Solves(g)
<1>1. b \in Int /\ e \in Int /\ b <= e
  BY BlockIs
<1>2. NoEffect \in Effects /\ step \in Steps(b, e, Effects)
  BY StackStepType DEF Steps, NoEffect, Effects
<1>3. PICK f : Iterates(f, b, e, Effects, NoEffect, step)
  <2> HIDE DEF e, step
  <2> QED  BY <1>1, <1>2, Recursion
<1>4. /\ f \in [b .. e -> Effects] /\ f[b] = NoEffect
      /\ \A p \in (b + 1) .. e : f[p - 1] \in Effects /\ f[p] = step[<<p, f[p - 1]>>]
  <2> HIDE DEF e, step
  <2> QED  BY <1>3 DEF Iterates
<1> HIDE DEF e
<1>5. Solves(f)
  <2>1. \A p \in (b + 1) .. e : f[p] = StackStep(OpAt(code, p - 1), f[p - 1])
    BY <1>4
  <2>2. f = [p \in b .. e |-> f[p]] /\ \A p \in b .. e : p = b \/ p \in (b + 1) .. e
    BY <1>1, <1>4
  <2> QED  BY <1>4, <2>1, <2>2
<1>6. Solves(run)
  <2> HIDE DEF Solves
  <2> QED  BY <1>5
<1>7. EffectAlong(code, b) = run /\ BlockEffect(code, b) = run[e]
  BY Zenon DEF EffectAlong, BlockEffect, NoEffect, e
<1> HIDE DEF run, step
<1>8. run[b] = NoEffect /\ \A p \in b .. e - 1 : run[p + 1] = StackStep(OpAt(code, p), run[p])
  <2>1. \A p \in b .. e : run[p] = IF p = b THEN NoEffect ELSE StackStep(OpAt(code, p - 1), run[p - 1])
    BY <1>6
  <2>2. \A p \in b .. e - 1 : p + 1 \in b .. e /\ p + 1 # b /\ (p + 1) - 1 = p
    BY <1>1
  <2>3. b \in b .. e
    BY <1>1
  <2> QED  BY <2>1, <2>2, <2>3
<1> DEFINE Q == {p \in b .. e : run[p] \in Effects}
<1>9. \A p \in b .. e : run[p] \in Effects
  <2>1. b \in Q
    BY <1>1, <1>2, <1>8
  <2>2. \A p \in b .. (e - 1) : p \in Q => p + 1 \in Q
    <3> SUFFICES ASSUME NEW p \in b .. (e - 1), p \in Q PROVE p + 1 \in Q
      OBVIOUS
    <3>1. run[p + 1] \in Effects
      BY <1>8, StackStepType
    <3> QED  BY <1>1, <3>1
  <2> HIDE DEF Q
  <2>3. \A p \in b .. e : p \in Q
    BY <1>1, <2>1, <2>2, Upward, Zenon
  <2> QED  BY <2>3 DEF Q
<1>10. run \in [b .. e -> Effects]
  <2>1. run = [p \in b .. e |-> run[p]]
    BY <1>6
  <2> QED  BY <1>9, <2>1
<1> QED  BY <1>7, <1>8, <1>10, Zenon DEF e

\* What a position needs, the block needs.
LEMMA NeedsGrow ==
  ASSUME NEW code, Len(code) \in Nat, NEW b \in Leaders(code), NEW p \in b .. BlockEnd(code, b)
  PROVE  /\ EffectAlong(code, b)[p].needs <= BlockEffect(code, b).needs
         /\ EffectAlong(code, b)[p].underflow => BlockEffect(code, b).underflow
<1> DEFINE e == BlockEnd(code, b)
           run == EffectAlong(code, b)
           Q == {k \in p .. e : run[p].needs <= run[k].needs /\ (run[p].underflow => run[k].underflow)}
<1>1. b \in Int /\ e \in Int /\ b <= p /\ p <= e /\ p \in Int /\ e \in p .. e
  BY BlockIs
<1>2. /\ \A k \in b .. e : run[k] \in Effects
      /\ BlockEffect(code, b) = run[e]
      /\ \A k \in b .. e - 1 : run[k + 1] = StackStep(OpAt(code, k), run[k])
  BY EffectAlongIs
<1> HIDE DEF e, run
<1>3. p \in Q
  <2>1. run[p].needs \in Nat
    BY <1>1, <1>2 DEF Effects
  <2> QED  BY <1>1, <2>1
<1>4. \A k \in p .. (e - 1) : k \in Q => k + 1 \in Q
  <2> SUFFICES ASSUME NEW k \in p .. (e - 1), k \in Q PROVE k + 1 \in Q
    OBVIOUS
  <2>1. k \in b .. e - 1 /\ k \in b .. e /\ k + 1 \in p .. e /\ p \in b .. e
    BY <1>1
  <2>2. run[k] \in Effects /\ run[p] \in Effects /\ run[k + 1] = StackStep(OpAt(code, k), run[k])
    BY <1>2, <2>1
  <2>3. run[k].needs \in Nat /\ run[p].needs \in Nat /\ run[k].depth \in Int
    BY <2>2 DEF Effects
  <2>4. run[k + 1].needs >= run[k].needs /\ (run[k].underflow => run[k + 1].underflow)
    <3>1. CASE OpAt(code, k) = "SCLR"
      <4>1. run[k + 1] = [run[k] EXCEPT !.fixed = TRUE, !.depth = 0]
        BY <2>2, <3>1 DEF StackStep
      <4>2. run[k + 1].needs = run[k].needs /\ run[k + 1].underflow = run[k].underflow
        BY <2>2, <4>1, ClearedIs
      <4>3. run[k + 1].needs >= run[k].needs
        BY <2>3, <4>2
      <4>4. run[k].underflow => run[k + 1].underflow
        BY <4>2, Zenon
      <4> QED  BY <4>3, <4>4
    <3>2. CASE OpAt(code, k) # "SCLR"
      <4> DEFINE low == run[k].depth - Pops(OpAt(code, k))
      <4>1. low \in Int
        BY <2>3, PopsType
      <4> HIDE DEF low
      <4>2. /\ run[k + 1].needs = (IF ~run[k].fixed /\ -low > run[k].needs THEN -low ELSE run[k].needs)
            /\ run[k + 1].underflow = (run[k].underflow \/ (run[k].fixed /\ low < 0))
        BY <2>2, <3>2 DEF StackStep, low
      <4>3. run[k + 1].needs >= run[k].needs
        BY <2>3, <4>1, <4>2
      <4>4. run[k].underflow => run[k + 1].underflow
        BY <4>2, Zenon
      <4> QED  BY <4>3, <4>4
    <3> QED  BY <3>1, <3>2
  <2>5. run[k + 1].needs \in Nat
    BY <2>2, StackStepType DEF Effects
  <2> QED  BY <2>1, <2>3, <2>4, <2>5
<1>5. e \in Q
  <2> HIDE DEF Q
  <2>1. \A k \in p .. e : k \in Q
    BY <1>1, <1>3, <1>4, Upward, Zenon
  <2> QED  BY <1>1, <2>1
<1>6. \A k \in p .. e : run[p].needs <= run[e].needs /\ (run[p].underflow => run[e].underflow)
  BY <1>5
<1> QED  BY <1>1, <1>2, <1>6 DEF run, e

\* The depth at a position of a block entered at depth d.
DepthAt(code, b, d, p) ==
  LET s == EffectAlong(code, b)[p] IN IF s.fixed THEN s.depth ELSE d + s.depth

\* An instruction finds its operands in a block entered as deep as it needs.
LEMMA DepthStep ==
  ASSUME NEW code, Len(code) \in Nat, NEW b \in Leaders(code), NEW p \in b .. BlockEnd(code, b) - 1,
         NEW d \in Int, d >= BlockEffect(code, b).needs, ~BlockEffect(code, b).underflow,
         NEW op, op = OpAt(code, p)
  PROVE  /\ DepthAt(code, b, d, p) \in Int
         /\ op = "SCLR" => Pops(op) = 0 /\ DepthAt(code, b, d, p + 1) = 0
         /\ op # "SCLR" => /\ DepthAt(code, b, d, p) >= Pops(op)
                           /\ DepthAt(code, b, d, p + 1) = DepthAt(code, b, d, p) - Pops(op) + Pushes(op)
<1> DEFINE e == BlockEnd(code, b)
           s == EffectAlong(code, b)[p]
           t == EffectAlong(code, b)[p + 1]
           low == s.depth - Pops(op)
<1>1. b \in Int /\ e \in Int /\ p \in b .. e /\ p + 1 \in b .. e
  BY BlockIs
<1>2. s \in Effects /\ t \in Effects /\ t = StackStep(op, s)
  <2>1. /\ EffectAlong(code, b) \in [b .. e -> Effects]
        /\ \A k \in b .. e - 1 : EffectAlong(code, b)[k + 1] = StackStep(OpAt(code, k), EffectAlong(code, b)[k])
    BY EffectAlongIs
  <2> QED  BY <1>1, <2>1
<1>3. t.needs <= BlockEffect(code, b).needs /\ (t.underflow => BlockEffect(code, b).underflow)
  BY <1>1, NeedsGrow
<1>4. s.depth \in Int /\ s.fixed \in BOOLEAN /\ t.needs \in Nat
  BY <1>2 DEF Effects
<1>5. Pops(op) \in Nat /\ Pushes(op) \in Nat
  BY PopsType
<1>6. BlockEffect(code, b).needs \in Nat
  <2>1. BlockEffect(code, b) \in Effects
    BY <1>1, EffectAlongIs
  <2> QED  BY <2>1 DEF Effects
<1>7. /\ DepthAt(code, b, d, p) = IF s.fixed THEN s.depth ELSE d + s.depth
      /\ DepthAt(code, b, d, p + 1) = IF t.fixed THEN t.depth ELSE d + t.depth
  BY DEF DepthAt
<1> HIDE DEF s, t, e
<1>8. DepthAt(code, b, d, p) \in Int
  BY <1>4, <1>7
<1>9. CASE op = "SCLR"
  <2>1. t = [s EXCEPT !.fixed = TRUE, !.depth = 0]
    BY <1>2, <1>9 DEF StackStep
  <2>2. t.fixed = TRUE /\ t.depth = 0
    BY <1>2, <2>1, ClearedIs
  <2>3. Pops("SCLR") = 0
    BY DEF Pops, Binary, Unary, LoopOpeners
  <2>4. DepthAt(code, b, d, p + 1) = 0
    BY <1>7, <2>2
  <2> QED  BY <1>8, <1>9, <2>3, <2>4
<1>10. CASE op # "SCLR"
  <2>1. low \in Int
    BY <1>4, <1>5
  <2>2. t = [depth |-> low + Pushes(op), fixed |-> s.fixed,
             needs |-> IF ~s.fixed /\ -low > s.needs THEN -low ELSE s.needs,
             underflow |-> s.underflow \/ (s.fixed /\ low < 0)]
    BY <1>2, <1>10 DEF StackStep
  <2>3. t.depth = low + Pushes(op) /\ t.fixed = s.fixed
        /\ t.needs = (IF ~s.fixed /\ -low > s.needs THEN -low ELSE s.needs)
    BY <2>2, Zenon
  <2>4. t.underflow = (s.underflow \/ (s.fixed /\ low < 0))
    BY <2>2, Zenon
  <2>5. ~(s.fixed /\ low < 0)
    BY <1>3, <2>4, Zenon
  <2>6. CASE s.fixed
    BY <1>4, <1>5, <1>7, <1>8, <1>10, <2>1, <2>3, <2>5, <2>6
  <2>7. CASE ~s.fixed
    <3>1. d + low >= 0
      <4>1. s.needs \in Nat
        BY <1>2 DEF Effects
      <4> HIDE DEF low
      <4> QED  BY <1>3, <1>4, <1>6, <2>1, <2>3, <2>7, <4>1
    <3>2. DepthAt(code, b, d, p) = d + s.depth /\ DepthAt(code, b, d, p + 1) = d + (low + Pushes(op))
      BY <1>7, <2>3, <2>7
    <3>3. s.depth = low + Pops(op)
      BY <1>4, <1>5
    <3>4. DepthAt(code, b, d, p) >= Pops(op)
      <4> HIDE DEF low
      <4> QED  BY <1>4, <1>5, <2>1, <3>1, <3>2, <3>3
    <3>5. DepthAt(code, b, d, p + 1) = DepthAt(code, b, d, p) - Pops(op) + Pushes(op)
      <4> HIDE DEF low
      <4> QED  BY <1>4, <1>5, <2>1, <3>2, <3>3
    <3> QED  BY <1>8, <1>10, <3>4, <3>5
  <2> QED  BY <2>6, <2>7
<1> QED  BY <1>8, <1>9, <1>10

-----------------------------------------------------------------------------
(* What meets at a join. *)

\* The meet is folded over what arrives.
Folds(j, arriving, n, S, f) ==
  /\ f \in [0 .. n -> S] /\ f[0] = JobTop(j)
  /\ \A i \in 1 .. n : f[i] = JobMeet(j, f[i - 1], arriving[i])

\* So the meet of what arrives is the last value of such a fold.
LEMMA MeetAllIs ==
  ASSUME NEW j, NEW S, NEW n \in Nat, NEW arriving, Len(arriving) = n,
         JobTop(j) \in S, \A a \in S : \A i \in 1 .. n : JobMeet(j, a, arriving[i]) \in S
  PROVE  \E f : Folds(j, arriving, n, S, f) /\ Solver!MeetAll(j, arriving) = f[n]
<1> DEFINE step == [a \in (1 .. n) \X S |-> JobMeet(j, a[2], arriving[a[1]])]
           Solves(g) == g = [i \in 0 .. n |-> IF i = 0 THEN JobTop(j) ELSE JobMeet(j, g[i - 1], arriving[i])]
           fold == CHOOSE g : Solves(g)
           top == JobTop(j)
<1>1. 0 \in Int /\ n \in Int /\ 0 <= n /\ 0 + 1 = 1
  OBVIOUS
<1>2. step \in Steps(0, n, S)
  <2>1. step \in [(1 .. n) \X S -> S]
    OBVIOUS
  <2> HIDE DEF step
  <2> QED  BY <1>1, <2>1 DEF Steps
<1>3. PICK f : Iterates(f, 0, n, S, top, step)
  <2> HIDE DEF step
  <2> QED  BY <1>1, <1>2, Recursion
<1>4. /\ f \in [0 .. n -> S] /\ f[0] = top
      /\ \A i \in 1 .. n : f[i - 1] \in S /\ f[i] = step[<<i, f[i - 1]>>]
  <2> HIDE DEF step, top
  <2> QED  BY <1>1, <1>3 DEF Iterates
<1>5. \A i \in 1 .. n : f[i] = JobMeet(j, f[i - 1], arriving[i])
  BY <1>4
<1>6. Solves(f)
  <2>1. f = [i \in 0 .. n |-> f[i]] /\ \A i \in 0 .. n : i = 0 \/ i \in 1 .. n
    BY <1>4
  <2> QED  BY <1>4, <1>5, <2>1
<1>7. Solves(fold)
  <2> HIDE DEF Solves
  <2> QED  BY <1>6
<1>8. Solver!MeetAll(j, arriving) = fold[n]
  BY Zenon DEF Solver!MeetAll
<1> HIDE DEF fold, step
<1>9. \A i \in 0 .. n : fold[i] = IF i = 0 THEN top ELSE JobMeet(j, fold[i - 1], arriving[i])
  BY <1>7
<1> DEFINE Q == {i \in 0 .. n : fold[i] \in S}
<1>10. \A i \in 0 .. n : fold[i] \in S
  <2>1. 0 \in Q
    BY <1>9
  <2>2. \A i \in 0 .. (n - 1) : i \in Q => i + 1 \in Q
    <3> SUFFICES ASSUME NEW i \in 0 .. (n - 1), i \in Q PROVE i + 1 \in Q
      OBVIOUS
    <3>1. i + 1 \in 0 .. n /\ i + 1 \in 1 .. n /\ i + 1 # 0 /\ (i + 1) - 1 = i
      OBVIOUS
    <3> QED  BY <1>9, <3>1
  <2> HIDE DEF Q
  <2>3. \A i \in 0 .. n : i \in Q
    BY <1>1, <2>1, <2>2, Upward, Zenon
  <2> QED  BY <2>3 DEF Q
<1>11. fold = [i \in 0 .. n |-> fold[i]]
  BY <1>7
<1>12. Folds(j, arriving, n, S, fold)
  <2>1. fold \in [0 .. n -> S]
    BY <1>10, <1>11
  <2>2. 0 \in 0 .. n /\ \A i \in 1 .. n : i \in 0 .. n /\ i # 0
    OBVIOUS
  <2> QED  BY <1>9, <2>1, <2>2 DEF Folds
<1> QED  BY <1>8, <1>12


\* A sequence has finitely many elements.
LEMMA ElementsFinite ==
  ASSUME NEW n \in Nat, NEW f, DOMAIN f = 1 .. n
  PROVE  IsFiniteSet({f[i] : i \in 1 .. n})
<1> DEFINE T == {f[i] : i \in 1 .. n}
           g == [i \in 1 .. n |-> f[i]]
<1>1. g \in Surjection(1 .. n, T)
  BY DEF Surjection
<1>2. IsFiniteSet(1 .. n)
  BY FirstNumbers
<1> QED  BY <1>1, <1>2, FS_Surjection

\* Two members of a set of one are the same.
LEMMA OneAtMost ==
  ASSUME NEW S, IsFiniteSet(S), Cardinality(S) <= 1, NEW x \in S, NEW y \in S
  PROVE  x = y
<1>1. {x} \subseteq S /\ IsFiniteSet({x}) /\ Cardinality({x}) = 1
  BY FS_Singleton
<1>2. SUFFICES ASSUME x # y PROVE FALSE
  OBVIOUS
<1>3. Cardinality({x} \cup {y}) = 2 /\ IsFiniteSet({x} \cup {y})
  BY <1>1, <1>2, FS_AddElement
<1>4. Cardinality({x} \cup {y}) <= Cardinality(S)
  <2>1. {x} \cup {y} \subseteq S
    OBVIOUS
  <2> QED  BY <2>1, FS_Subset
<1>5. Cardinality(S) \in Nat
  BY FS_CardinalityType
<1> QED  BY <1>3, <1>4, <1>5

\* What the depth phase accepted.
DepthsSettled(code, D) ==
  LET j == Task("depth", code)
  IN  /\ Fixed(j, D)
      /\ \A n \in DOMAIN D : /\ JoinAgrees(j, D, Solver!Before(j, D, n), n)
                             /\ DepthSafe(Solver!Before(j, D, n), D[n])

\* The meet of depths is one of them, or none is known.
LEMMA DepthsMeet ==
  ASSUME NEW j, j.kind = "depth", NEW n \in Nat, NEW arriving, Len(arriving) = n, NEW before,
         before = Solver!MeetAll(j, arriving)
  PROVE  /\ before.at = "Known" => \E k \in 1 .. n : before = arriving[k]
         /\ \A k \in 1 .. n : arriving[k].at = "Known" => before.at # "Top"
<1> DEFINE S == {Unreached, Underflowed} \cup {arriving[i] : i \in 1 .. n}
<1>1. \A a, c : JobMeet(j, a, c) = MeetDepth(a, c) /\ JobTop(j) = Unreached
  BY DEF JobMeet, JobTop
<1>2. \A a, c : MeetDepth(a, c) \in {a, c, Underflowed}
  BY DEF MeetDepth
<1>3. PICK f : Folds(j, arriving, n, S, f) /\ before = f[n]
  <2>1. JobTop(j) \in S /\ \A a \in S : \A i \in 1 .. n : JobMeet(j, a, arriving[i]) \in S
    BY <1>1, <1>2
  <2> HIDE DEF S
  <2> QED  BY <2>1, MeetAllIs
<1>4. f[0] = Unreached /\ \A i \in 1 .. n : f[i] = MeetDepth(f[i - 1], arriving[i])
  BY <1>1, <1>3 DEF Folds
<1> DEFINE Q == {i \in 0 .. n : /\ f[i].at = "Known" => \E k \in 1 .. i : f[i] = arriving[k]
                                /\ \A k \in 1 .. i : arriving[k].at = "Known" => f[i].at # "Top"}
<1>5. 0 \in Q
  BY <1>4 DEF Unreached
<1>6. \A i \in 0 .. (n - 1) : i \in Q => i + 1 \in Q
  <2> SUFFICES ASSUME NEW i \in 0 .. (n - 1), i \in Q PROVE i + 1 \in Q
    OBVIOUS
  <2> DEFINE a == f[i]
             c == arriving[i + 1]
  <2>1. i + 1 \in 0 .. n /\ i + 1 \in 1 .. n /\ (i + 1) - 1 = i /\ i + 1 \in 1 .. i + 1
        /\ (\A k \in 1 .. i + 1 : k \in 1 .. i \/ k = i + 1)
        /\ \A k \in 1 .. i : k \in 1 .. i + 1
    OBVIOUS
  <2>2. f[i + 1] = MeetDepth(a, c)
    BY <1>4, <2>1
  <2>3. /\ a.at = "Known" => \E k \in 1 .. i : a = arriving[k]
        /\ \A k \in 1 .. i : arriving[k].at = "Known" => a.at # "Top"
    OBVIOUS
  <2> DEFINE m == MeetDepth(a, c)
  <2>4. /\ m.at = "Known" => m = a \/ m = c
        /\ (a.at # "Top" \/ c.at # "Top") => m.at # "Top"
    BY DEF MeetDepth, Underflowed
  <2> HIDE DEF m, Q, a
  <2>5. m.at = "Known" => \E k \in 1 .. i + 1 : m = arriving[k]
    BY <2>1, <2>3, <2>4
  <2>6. \A k \in 1 .. i + 1 : arriving[k].at = "Known" => m.at # "Top"
    BY <2>1, <2>3, <2>4
  <2>7. f[i + 1] = m
    BY <2>2 DEF m
  <2> HIDE DEF c
  <2>8. /\ f[i + 1].at = "Known" => \E k \in 1 .. i + 1 : f[i + 1] = arriving[k]
        /\ \A k \in 1 .. i + 1 : arriving[k].at = "Known" => f[i + 1].at # "Top"
    BY <2>5, <2>6, <2>7, Zenon
  <2> DEFINE next == i + 1
  <2>9. next \in 0 .. n
    BY <2>1
  <2>10. /\ f[next].at = "Known" => \E k \in 1 .. next : f[next] = arriving[k]
        /\ \A k \in 1 .. next : arriving[k].at = "Known" => f[next].at # "Top"
    BY <2>8
  <2> HIDE DEF next
  <2>11. next \in Q
    BY <2>9, <2>10 DEF Q
  <2> QED  BY <2>11 DEF next
<1>7. n \in Q
  <2>1. 0 \in Int /\ n \in Int /\ n \in 0 .. n
    OBVIOUS
  <2> HIDE DEF Q
  <2>2. \A i \in 0 .. n : i \in Q
    BY <1>5, <1>6, <2>1, Upward, Zenon
  <2> QED  BY <2>1, <2>2
<1> QED  BY <1>3, <1>7

\* The depth a block is entered at.
EntryDepth(code, D, b) == Solver!Before(Task("depth", code), D, b)

\* So the block behind an edge is entered at the depth the edge was left at.
LEMMA DepthJoins ==
  ASSUME NEW code, Len(code) \in Nat, ScanAccepts(code), NEW D, DepthsSettled(code, D),
         NEW j, j = Task("depth", code), NEW blocks, blocks = ToSet(Graph(code).nodes),
         NEW n \in blocks, NEW i \in DOMAIN j.preds[n],
         D[j.preds[n][i]].at = "Known"
  PROVE  EntryDepth(code, D, n) = D[j.preds[n][i]]
<1> DEFINE before == Solver!Before(j, D, n)
           s == j.preds[n]
           arriving == {D[s[k]] : k \in DOMAIN s} \cup (IF n = j.entry THEN {Known(0)} ELSE {})
           known == {d \in arriving : d.at = "Known"}
           N == Len(s)
           arr == Solver!Arriving(j, D, n)
<1>0. EntryDepth(code, D, n) = before
  BY DEF EntryDepth
<1>1. /\ Solver!Nodes(j) = blocks /\ j.kind = "depth" /\ j.preds \in [blocks -> Seq(blocks)]
  BY TaskIs
<1>2. /\ N \in Nat /\ DOMAIN s = 1 .. N /\ Len(arr) = N
      /\ \A k \in 1 .. N : arr[k] = D[s[k]]
  <2>1. s \in Seq(blocks)
    BY <1>1
  <2>2. arr = [k \in DOMAIN s |-> D[s[k]]]
    BY DEF Solver!Arriving
  <2> HIDE DEF s, arr
  <2>3. N \in Nat /\ DOMAIN s = 1 .. N
    BY <2>1
  <2> QED  BY <2>2, <2>3
<1>3. JoinAgrees(j, D, before, n) /\ DepthSafe(before, D[n])
  <2>1. /\ DOMAIN D = Solver!Nodes(j)
        /\ \A m \in DOMAIN D : /\ JoinAgrees(j, D, Solver!Before(j, D, m), m)
                               /\ DepthSafe(Solver!Before(j, D, m), D[m])
    BY Zenon DEF DepthsSettled, Fixed
  <2>2. n \in DOMAIN D
    BY <1>1, <2>1
  <2> QED  BY <2>1, <2>2
<1> HIDE DEF before, s, N, arr
<1>4. D[s[i]] \in known /\ i \in 1 .. N
  BY <1>2 DEF s
<1>5. before.at # "Top" /\ (before.at = "Known" => before \in known)
  <2>1. CASE n = j.entry
    <3>1. before = Known(0)
      BY <1>1, <2>1 DEF before, Solver!Before, JobBoundary
    <3> QED  BY <2>1, <3>1 DEF Known
  <2>2. CASE n # j.entry
    <3>1. before = Solver!MeetAll(j, arr)
      BY <2>2 DEF before, Solver!Before, arr
    <3>2. /\ before.at = "Known" => \E k \in 1 .. N : before = arr[k]
          /\ \A k \in 1 .. N : arr[k].at = "Known" => before.at # "Top"
      BY <1>1, <1>2, <3>1, DepthsMeet
    <3> QED  BY <1>2, <1>4, <3>2
  <2> QED  BY <2>1, <2>2
<1>6. before \in known
  BY <1>3, <1>5 DEF DepthSafe
<1>7. Cardinality(known) <= 1
  BY <1>3, <1>5 DEF JoinAgrees, s
<1>8. IsFiniteSet(known)
  <2> DEFINE g == [k \in 1 .. N |-> D[s[k]]]
  <2>1. IsFiniteSet({g[k] : k \in 1 .. N})
    BY <1>2, ElementsFinite
  <2>2. IsFiniteSet({g[k] : k \in 1 .. N} \cup {Known(0)})
    BY <2>1, FS_AddElement
  <2>3. known \subseteq {g[k] : k \in 1 .. N} \cup {Known(0)}
    BY <1>2
  <2> QED  BY <2>2, <2>3, FS_Subset
<1> HIDE DEF known
<1>9. before = D[s[i]]
  BY <1>4, <1>6, <1>7, <1>8, OneAtMost
<1> QED  BY <1>0, <1>9 DEF before, s

-----------------------------------------------------------------------------
(* What the verifier's rules say of the machine's instructions. *)

\* A value is of the kind an instruction is said to write.  INPUT may load
\* whatever the host supplies.
Holds(v, kind) == IF kind = "Any" THEN CalldataSet => v.t # "Unset" ELSE v.t = kind

\* The instruction has done what the tables say.
Effect ==
  /\ program' = program /\ status' = "running"
  /\ Current.op # "HALT" /\ Follows(program, pc, pc')
  /\ Len(stack') = IF Current.op = "SCLR" THEN 0
                   ELSE Len(stack) - Pops(Current.op) + Pushes(Current.op)
  /\ \A r \in Registers :
       IF Writes(Current) /\ r = Current.regs[1] THEN Holds(regs'[r], WrittenKind(Current.op))
       ELSE regs'[r].t = regs[r].t

\* A register is read, and what it must hold there.
Reads(req) == Current.op \in RegisterOps /\ <<Current.regs[1], req>> \in Requires(Current)

\* The run is over, for a cause that the verifier looks for if it is one of three.
Fault ==
  /\ program' = program /\ status' # "running"
  /\ status' = "StackUnderflow" => AtInstruction /\ Len(stack) < Pops(Current.op)
  /\ status' = "UnsetRegister" => AtInstruction /\ Reg.t = "Unset" /\ \E req : Reads(req)
  /\ status' = "TypeMismatch" => AtInstruction /\ \E req : Reads(req) /\ ~Satisfies(Reg.t, req)

SoughtFaults == {"running", "StackUnderflow", "UnsetRegister", "TypeMismatch"}

Row(op, pops, pushes, kind) == Pops(op) = pops /\ Pushes(op) = pushes /\ WrittenKind(op) = kind

\* The rows of the instruction table for the opcodes of the model.
LEMMA Table ==
  /\ \A op \in {"NOP", "TARGET", "JUMP", "NEXT", "SCLR"} : Row(op, 0, 0, "None")
  /\ \A op \in {"JUMPI", "POP", "OUTPUT", "VECPUSH"} : Row(op, 1, 0, "None")
  /\ \A op \in {"RANGE", "ITER", "VECSET", "SETLINE", "ADDLINE"} : Row(op, 2, 0, "None")
  /\ \A op \in {"PUSH", "LOAD", "VECLEN"} : Row(op, 0, 1, "None")
  /\ \A op \in {"SQR", "ABS", "NEG", "INC", "DEC", "NOT", "VECGET", "GETLINE"} : Row(op, 1, 1, "None")
  /\ \A op \in {"ADD", "SUB", "MUL", "MIN", "MAX", "EQ", "LT", "GT", "LTE", "GTE", "AND", "OR",
                "XOR"} : Row(op, 2, 1, "None")
  /\ Row("SWAP", 2, 2, "None") /\ Row("COPY", 1, 2, "None")
  /\ Row("LIDX", 0, 0, "Int") /\ Row("LVAL", 0, 0, "Any")
  /\ Row("STOW", 1, 0, "Int") /\ Row("DROP", 0, 0, "Unset") /\ Row("INPUT", 1, 0, "Any")
  /\ Row("VEC", 0, 0, "VecInt") /\ Row("VECI", 0, 0, "VecInt") /\ Row("VECX", 0, 0, "VecXqmx")
  /\ Row("BQMX", 1, 0, "Model") /\ Row("BSMX", 1, 0, "Sample")
<1> USE DEF Row
<1>1. \A op \in {"NOP", "TARGET", "JUMP", "NEXT", "SCLR"} : Row(op, 0, 0, "None")
  BY DEF Pops, Pushes, WrittenKind, Binary, Unary, LoopOpeners
<1>2. \A op \in {"JUMPI", "POP", "OUTPUT", "VECPUSH"} : Row(op, 1, 0, "None")
  BY DEF Pops, Pushes, WrittenKind, Binary, Unary, LoopOpeners
<1>3. \A op \in {"RANGE", "ITER", "VECSET", "SETLINE", "ADDLINE"} : Row(op, 2, 0, "None")
  BY DEF Pops, Pushes, WrittenKind, Binary, Unary, LoopOpeners
<1>4. \A op \in {"PUSH", "LOAD", "VECLEN"} : Row(op, 0, 1, "None")
  BY DEF Pops, Pushes, WrittenKind, Binary, Unary, LoopOpeners
<1>5. \A op \in {"SQR", "ABS", "NEG", "INC", "DEC", "NOT", "VECGET", "GETLINE"} : Row(op, 1, 1, "None")
  BY DEF Pops, Pushes, WrittenKind, Binary, Unary, LoopOpeners
<1>6. \A op \in {"ADD", "SUB", "MUL", "MIN", "MAX", "EQ", "LT", "GT", "LTE", "GTE", "AND", "OR",
                "XOR"} : Row(op, 2, 1, "None")
  BY DEF Pops, Pushes, WrittenKind, Binary, Unary, LoopOpeners
<1>7. Row("SWAP", 2, 2, "None") /\ Row("COPY", 1, 2, "None")
  BY DEF Pops, Pushes, WrittenKind, Binary, Unary, LoopOpeners
<1>8. Row("LIDX", 0, 0, "Int") /\ Row("LVAL", 0, 0, "Any")
  BY DEF Pops, Pushes, WrittenKind, Binary, Unary, LoopOpeners
<1>9. Row("STOW", 1, 0, "Int") /\ Row("DROP", 0, 0, "Unset") /\ Row("INPUT", 1, 0, "Any")
  BY DEF Pops, Pushes, WrittenKind, Binary, Unary, LoopOpeners
<1>10. Row("VEC", 0, 0, "VecInt") /\ Row("VECI", 0, 0, "VecInt") /\ Row("VECX", 0, 0, "VecXqmx")
  BY DEF Pops, Pushes, WrittenKind, Binary, Unary, LoopOpeners
<1>11. Row("BQMX", 1, 0, "Model") /\ Row("BSMX", 1, 0, "Sample")
  BY DEF Pops, Pushes, WrittenKind, Binary, Unary, LoopOpeners
<1> HIDE DEF Row
<1> QED  BY <1>1, <1>2, <1>3, <1>4, <1>5, <1>6, <1>7, <1>8, <1>9, <1>10, <1>11

\* A charge is paid or ends the run for want of a budget.
LEMMA ChargeOrFault ==
  ASSUME NEW bytes, NEW units, NEW ACTION work, Charged(bytes, units, work)
  PROVE  Fault \/ (program' = program /\ work)
BY DEF Charged, Raise, Fault

\* Any other fault.
LEMMA OtherFault ==
  ASSUME NEW fault, fault \notin SoughtFaults, program' = program, Raise(fault)
  PROVE  Fault
BY DEF Raise, Fault, SoughtFaults

\* What an instruction that goes on finds.
LEMMA ReadyFacts ==
  ASSUME Inv, NEW ops, Ready(ops)
  PROVE  /\ AtInstruction /\ status = "running" /\ Current.op \in ops /\ OpAt(program, pc) = Current.op
         /\ Current = At(program, pc) /\ pc < Len(program)
         /\ Len(stack) \in Nat /\ Len(Popped) = Len(stack) - Pops(Current.op) /\ Popped \in Seq(Int)
         /\ regs \in [Registers -> Values] /\ Len(program) \in Nat
<1>1. Len(stack) \in Nat
  BY Numbers
<1>2. Len(Popped) = Len(stack) - Pops(Current.op) /\ Popped \in Seq(Int)
  BY Operands
<1>3. regs \in [Registers -> Values] /\ Len(program) \in Nat
  BY ProgramShape DEF Inv, MachineOK
<1> QED  BY <1>1, <1>2, <1>3 DEF Ready, AtInstruction, Current, At, OpAt

\* An instruction that only takes its operands.
LEMMA DoneEffect ==
  ASSUME Inv, NEW ops, Ready(ops), NEW pops, NEW op, Current.op = op, Row(op, pops, 0, "None"),
         op \notin {"JUMP", "HALT", "SCLR"}, program' = program, Done
  PROVE  Effect
<1>1. stack' = Popped /\ pc' = pc + 1 /\ regs' = regs /\ status' = status
  BY DEF Done, Advance, file
<1>2. /\ status = "running" /\ OpAt(program, pc) = op
      /\ Len(stack) \in Nat /\ Len(Popped) = Len(stack) - Pops(op)
  BY ReadyFacts
<1>3. Pushes(op) = 0 /\ WrittenKind(op) = "None" /\ Pops(op) \in Nat
  BY PopsType DEF Row
<1> QED  BY <1>1, <1>2, <1>3 DEF Effect, Follows, Writes

\* An instruction that pushes one value.
LEMMA PushEffect ==
  ASSUME Inv, NEW ops, Ready(ops), NEW pops, NEW op, Current.op = op, Row(op, pops, 1, "None"),
         op \notin {"JUMP", "HALT", "SCLR"}, program' = program, NEW value \in Int, Push(value)
  PROVE  Effect \/ Fault
<1>1. CASE Len(Popped) >= StackLimit
  <2>1. Raise("StackOverflow")
    BY <1>1 DEF Push
  <2> QED  BY <2>1, OtherFault DEF SoughtFaults
<1>2. CASE ~(Len(Popped) >= StackLimit)
  <2>1. stack' = Append(Popped, value) /\ pc' = pc + 1 /\ regs' = regs /\ status' = status
    BY <1>2 DEF Push, Advance, file
  <2>2. /\ status = "running" /\ OpAt(program, pc) = op
        /\ Len(stack) \in Nat /\ Len(Popped) = Len(stack) - Pops(op) /\ Popped \in Seq(Int)
    BY ReadyFacts
  <2>3. Pushes(op) = 1 /\ WrittenKind(op) = "None" /\ Pops(op) \in Nat
    BY PopsType DEF Row
  <2>4. Len(stack') = Len(Popped) + 1
    <3> HIDE DEF Popped
    <3> QED  BY <2>1, <2>2
  <2> QED  BY <2>1, <2>2, <2>3, <2>4 DEF Effect, Follows, Writes
<1> QED  BY <1>1, <1>2

\* An instruction that sets its register.
LEMMA SetEffect ==
  ASSUME Inv, NEW ops, Ready(ops), NEW pops, NEW op, Current.op = op, NEW kind, Row(op, pops, 0, kind),
         op \notin {"JUMP", "HALT", "SCLR"}, program' = program, NEW value, Set(value),
         IF kind = "None" THEN value.t = Reg.t ELSE Holds(value, kind)
  PROVE  Effect
<1> DEFINE r0 == Current.regs[1]
<1>1. stack' = Popped /\ pc' = pc + 1 /\ regs' = [regs EXCEPT ![r0] = value] /\ status' = status
  BY DEF Set, Advance
<1>2. /\ status = "running" /\ OpAt(program, pc) = op
      /\ Len(stack) \in Nat /\ Len(Popped) = Len(stack) - Pops(op)
      /\ regs \in [Registers -> Values]
  BY ReadyFacts
<1>3. Pushes(op) = 0 /\ WrittenKind(op) = kind /\ Pops(op) \in Nat
  BY PopsType DEF Row
<1>4. Reg = regs[r0]
  BY DEF Reg
<1> HIDE DEF r0
<1>5. \A r \in Registers : regs'[r] = IF r = r0 THEN value ELSE regs[r]
  BY <1>1, <1>2
<1>6. ASSUME NEW r \in Registers
      PROVE  IF Writes(Current) /\ r = r0 THEN Holds(regs'[r], WrittenKind(op)) ELSE regs'[r].t = regs[r].t
  <2>1. CASE r # r0
    BY <1>5, <2>1
  <2>2. CASE r = r0 /\ kind = "None"
    BY <1>3, <1>4, <1>5, <2>2 DEF Writes
  <2>3. CASE r = r0 /\ kind # "None"
    BY <1>3, <1>5, <2>3 DEF Writes
  <2> QED  BY <2>1, <2>2, <2>3
<1>7. Len(stack') = Len(stack) - Pops(op) + Pushes(op)
  BY <1>1, <1>2, <1>3
<1>8. Follows(program, pc, pc')
  BY <1>1, <1>2 DEF Follows
<1> QED  BY <1>1, <1>2, <1>6, <1>7, <1>8 DEF Effect, r0

\* An instruction that writes its register does what its row of the table says.
LEMMA WriteEffect ==
  ASSUME Inv, NEW ops, Ready(ops), NEW pops, NEW op, Current.op = op, NEW kind, Row(op, pops, 0, kind),
         op \notin {"JUMP", "HALT", "SCLR"}, program' = program, NEW value, Write(value),
         IF kind = "None" THEN value.t = Reg.t ELSE Holds(value, kind)
  PROVE  Effect
BY SetEffect DEF Write

\* The fault of a register that holds something else.
LEMMA ReadFault ==
  ASSUME AtInstruction, NEW req, Reads(req), ~Satisfies(Reg.t, req), program' = program,
         \/ Raise("TypeMismatch")
         \/ Raise(WrongKind)
         \/ Raise("UnsetRegister") /\ Reg.t = "Unset"
  PROVE  Fault
BY DEF Raise, Fault, WrongKind

\* A jump.
LEMMA GoToEffect ==
  ASSUME Inv, Sound, NEW ops, Ready(ops), NEW pops, NEW op \in Jumps, Current.op = op,
         Row(op, pops, 0, "None"), program' = program, GoTo(Current.arg)
  PROVE  Effect \/ Fault
<1>1. CASE Labelled(program, Current.arg) = {}
  <2>1. Raise("InvalidLabel")
    BY <1>1 DEF GoTo
  <2> QED  BY <2>1, OtherFault DEF SoughtFaults
<1>2. CASE Labelled(program, Current.arg) # {}
  <2>1. pc' = TargetOf(program, Current.arg) /\ stack' = Popped /\ regs' = regs /\ status' = status
    BY <1>2 DEF GoTo, file
  <2>2. /\ status = "running" /\ OpAt(program, pc) = op /\ Current = At(program, pc)
        /\ Len(stack) \in Nat /\ Len(Popped) = Len(stack) - Pops(op)
    BY ReadyFacts
  <2>3. Pushes(op) = 0 /\ WrittenKind(op) = "None" /\ Pops(op) \in Nat
    BY PopsType DEF Row
  <2>4. op \notin {"HALT", "SCLR"}
    BY DEF Jumps
  <2> QED  BY <2>1, <2>2, <2>3, <2>4 DEF Effect, Follows, Writes
<1> QED  BY <1>1, <1>2

\* An instruction of the table that is ready.
LEMMA ReadyOp ==
  ASSUME NEW ops, Ready(ops)
  PROVE  \E op \in ops : Current.op = op
BY DEF Ready

\* The instructions of the control flow outside of the loops.
LEMMA FlowEffect ==
  ASSUME Inv, Sound, Nop \/ Halt \/ Jump \/ JumpIf
  PROVE  Effect \/ Fault
<1>1. CASE Nop
  <2>1. PICK op \in {"NOP", "TARGET"} : Current.op = op /\ Ready({"NOP", "TARGET"})
    BY <1>1 DEF Nop, Ready
  <2>2. Row(op, 0, 0, "None")
    BY Table
  <2>3. Fault \/ (program' = program /\ Done)
    BY <1>1, ChargeOrFault DEF Nop, Free
  <2> QED  BY <2>1, <2>2, <2>3, DoneEffect
<1>2. CASE Halt
  BY <1>2 DEF Halt, Free, Charged, Raise, Fault
<1>3. CASE Jump
  <2>1. Current.op = "JUMP" /\ Ready({"JUMP"}) /\ "JUMP" \in Jumps
    BY <1>3 DEF Jump, Ready, Jumps
  <2>2. Row("JUMP", 0, 0, "None")
    BY Table
  <2>3. Fault \/ (program' = program /\ GoTo(Current.arg))
    BY <1>3, ChargeOrFault DEF Jump, Free
  <2> QED  BY <2>1, <2>2, <2>3, GoToEffect
<1>4. CASE JumpIf
  <2>1. Current.op = "JUMPI" /\ Ready({"JUMPI"}) /\ "JUMPI" \in Jumps
    BY <1>4 DEF JumpIf, Ready, Jumps
  <2>2. Row("JUMPI", 1, 0, "None")
    BY Table
  <2>3. Fault \/ (program' = program /\ IF Operand(1) # 0 THEN GoTo(Current.arg) ELSE Done)
    BY <1>4, ChargeOrFault DEF JumpIf, Free
  <2>4. ASSUME program' = program, Done PROVE Effect
    BY <2>1, <2>2, <2>4, DoneEffect
  <2>5. ASSUME program' = program, GoTo(Current.arg) PROVE Effect \/ Fault
    BY <2>1, <2>2, <2>5, GoToEffect
  <2> QED  BY <2>3, <2>4, <2>5
<1> QED  BY <1>1, <1>2, <1>3, <1>4

\* The instructions of the stack.
LEMMA StackEffect ==
  ASSUME Inv, PushImmediate \/ Pop \/ ClearStack \/ Swap \/ Copy
  PROVE  Effect \/ Fault
<1>1. CASE PushImmediate
  <2>1. Current.op = "PUSH" /\ Ready({"PUSH"}) /\ Row("PUSH", 0, 1, "None")
    BY <1>1, Table DEF PushImmediate, Ready
  <2>2. Current.arg \in Int
    BY <2>1, Registered
  <2>3. Fault \/ (program' = program /\ Push(Current.arg))
    BY <1>1, ChargeOrFault DEF PushImmediate, Free
  <2> QED  BY <2>1, <2>2, <2>3, PushEffect
<1>2. CASE Pop
  <2>1. Current.op = "POP" /\ Ready({"POP"}) /\ Row("POP", 1, 0, "None")
    BY <1>2, Table DEF Pop, Ready
  <2>2. Fault \/ (program' = program /\ Done)
    BY <1>2, ChargeOrFault DEF Pop, Free
  <2> QED  BY <2>1, <2>2, DoneEffect
<1>3. CASE ClearStack
  <2>1. Current.op = "SCLR" /\ Ready({"SCLR"}) /\ Row("SCLR", 0, 0, "None")
    BY <1>3, Table DEF ClearStack, Ready
  <2>2. Fault \/ (program' = program /\ stack' = <<>> /\ UNCHANGED <<file, loops>> /\ Advance)
    BY <1>3, ChargeOrFault DEF ClearStack, Free
  <2>3. status = "running" /\ OpAt(program, pc) = "SCLR"
    BY <2>1, ReadyFacts
  <2>4. Len(<<>>) = 0
    OBVIOUS
  <2> QED  BY <2>1, <2>2, <2>3, <2>4 DEF Effect, Follows, Writes, Row, Advance, file
<1>4. CASE Swap
  <2>1. Current.op = "SWAP" /\ Ready({"SWAP"}) /\ Row("SWAP", 2, 2, "None")
    BY <1>4, Table DEF Swap, Ready
  <2> DEFINE taken == <<Operand(1), Operand(2)>>
  <2>2. Fault \/ (program' = program /\ stack' = Popped \o taken /\ UNCHANGED <<file, loops>> /\ Advance)
    BY <1>4, ChargeOrFault DEF Swap, Free
  <2>3. status = "running" /\ OpAt(program, pc) = "SWAP" /\ Popped \in Seq(Int) /\ Len(Popped) = Len(stack) - 2
        /\ Len(stack) \in Nat
    BY <2>1, ReadyFacts DEF Row
  <2>4. Operand(1) \in Int /\ Operand(2) \in Int
    BY <2>1, Operands DEF Row
  <2>5. taken \in Seq(Int) /\ Len(taken) = 2
    BY <2>4
  <2> HIDE DEF taken
  <2>6. Len(Popped \o taken) = Len(Popped) + Len(taken)
    BY <2>3, <2>5, ConcatProperties
  <2>7. stack' = Popped \o taken => Len(stack') = Len(stack) - 2 + 2
    <3>1. Len(Popped) + Len(taken) = Len(stack) - 2 + 2
      BY <2>3, <2>5
    <3> QED  BY <2>6, <3>1, Zenon
  <2>8. Fault \/ (program' = program /\ Len(stack') = Len(stack) - 2 + 2 /\ regs' = regs /\ Advance)
    BY <2>2, <2>7, Zenon DEF file
  <2> QED  BY <2>1, <2>3, <2>8 DEF Effect, Follows, Writes, Row, Advance
<1>5. CASE Copy
  <2>1. Current.op = "COPY" /\ Ready({"COPY"}) /\ Row("COPY", 1, 2, "None")
    BY <1>5, Table DEF Copy, Ready
  <2>2. Fault \/ (program' = program /\
                  IF Len(stack) >= StackLimit
                    THEN /\ status' = "StackOverflow"
                         /\ UNCHANGED <<pc, stack, file, loops, outputs>>
                    ELSE /\ stack' = Append(stack, Operand(1))
                         /\ UNCHANGED <<file, loops>> /\ Advance)
    BY <1>5, ChargeOrFault DEF Copy, Free
  <2>3. status = "running" /\ OpAt(program, pc) = "COPY" /\ Len(stack) \in Nat /\ stack \in Seq(Int)
    BY <2>1, ReadyFacts, Numbers
  <2>4. Len(Append(stack, Operand(1))) = Len(stack) + 1
    BY <2>3
  <2>5. Len(stack) + 1 = Len(stack) - 1 + 2
    BY <2>3
  <2>6. CASE Len(stack) >= StackLimit
    BY <2>2, <2>6 DEF Fault
  <2>7. CASE ~(Len(stack) >= StackLimit)
    BY <2>1, <2>2, <2>3, <2>4, <2>5, <2>7 DEF Effect, Follows, Writes, Row, Advance, file
  <2> QED  BY <2>6, <2>7
<1> QED  BY <1>1, <1>2, <1>3, <1>4, <1>5

\* Checked arithmetic.
LEMMA ArithmeticEffect ==
  ASSUME Inv, Arithmetic
  PROVE  Effect \/ Fault
<1> DEFINE two == {"ADD", "SUB", "MUL", "MIN", "MAX", "EQ", "LT", "GT", "LTE", "GTE", "AND", "OR", "XOR"}
           one == {"SQR", "ABS", "NEG", "INC", "DEC", "NOT"}
<1>1. ASSUME NEW ops, Ready(ops), NEW op, Current.op = op, op \notin {"JUMP", "HALT", "SCLR"},
             NEW pops, Row(op, pops, 1, "None"), NEW result \in Int, PushChecked(result)
      PROVE  Effect \/ Fault
  <2>1. Fault \/ (program' = program /\ IF InRange(result) THEN Push(result) ELSE Raise("ArithmeticOverflow"))
    BY <1>1, ChargeOrFault DEF PushChecked, Free
  <2>2. ASSUME program' = program, Push(result) PROVE Effect \/ Fault
    BY <1>1, <2>2, PushEffect
  <2>3. ASSUME program' = program, Raise("ArithmeticOverflow") PROVE Fault
    BY <2>3, OtherFault DEF SoughtFaults
  <2> QED  BY <2>1, <2>2, <2>3
<1>2. CASE Ready(two) /\ PushChecked(BinaryResult(Current.op, Operand(2), Operand(1)))
  <2>1. PICK op \in two : Current.op = op /\ Ready(two)
    BY <1>2 DEF Ready
  <2>2. Row(op, 2, 1, "None")
    BY Table
  <2>3. Operand(1) \in Int /\ Operand(2) \in Int
    BY <2>1, <2>2, Operands DEF Row
  <2>4. ASSUME NEW a \in Int, NEW b \in Int
        PROVE  BinaryResult(op, a, b) \in Int
    <3>2. Min({a, b}) \in Int /\ Max({a, b}) \in Int
      BY MinMax
    <3>3. CASE op \in {"ADD", "SUB", "MUL"}
      BY <3>3 DEF BinaryResult
    <3>4. CASE op \in {"MIN", "MAX"}
      BY <3>2, <3>4 DEF BinaryResult
    <3>5. CASE op \in {"EQ", "LT", "GT", "LTE", "GTE"}
      BY <3>5 DEF BinaryResult, Truth
    <3>6. CASE op \in {"AND", "OR", "XOR"}
      BY <3>6 DEF BinaryResult, Truth
    <3> QED  BY <3>3, <3>4, <3>5, <3>6
  <2>5. BinaryResult(Current.op, Operand(2), Operand(1)) \in Int
    BY <2>1, <2>3, <2>4
  <2> QED  BY <1>1, <1>2, <2>1, <2>2, <2>5
<1>3. CASE Ready(one) /\ PushChecked(UnaryResult(Current.op, Operand(1)))
  <2>1. PICK op \in one : Current.op = op /\ Ready(one)
    BY <1>3 DEF Ready
  <2>2. Row(op, 1, 1, "None")
    BY Table
  <2>3. Operand(1) \in Int
    BY <2>1, <2>2, Operands DEF Row
  <2>4. ASSUME NEW a \in Int
        PROVE  UnaryResult(op, a) \in Int
    BY DEF UnaryResult, Truth
  <2>5. UnaryResult(Current.op, Operand(1)) \in Int
    BY <2>1, <2>3, <2>4
  <2> QED  BY <1>1, <1>3, <2>1, <2>2, <2>5
<1> QED  BY <1>2, <1>3 DEF Arithmetic

\* A register read and found wanting, or what follows.
LEMMA ReadOr ==
  ASSUME Inv, NEW ops, Ready(ops), NEW req, Reads(req), program' = program,
         NEW fault, fault \in {"TypeMismatch", WrongKind}, NEW fits \in BOOLEAN, ~fits => ~Satisfies(Reg.t, req),
         NEW ACTION work, IF ~fits THEN Raise(fault) ELSE work
  PROVE  Fault \/ (fits /\ work)
BY ReadyFacts, ReadFault

\* What the instructions of the registers require.
LEMMA Required ==
  /\ Current.op = "LOAD" => Reads("Int")
  /\ Current.op = "OUTPUT" => Reads("NonUnset")
  /\ Current.op \in {"ITER", "VECLEN"} => Reads("AnyVec")
  /\ Current.op \in {"VECGET", "VECSET", "VECPUSH"} => Reads("VecInt")
  /\ Current.op \in {"GETLINE", "SETLINE", "ADDLINE"} => Reads("Grid")
BY DEF Reads, Requires, RegisterOps

\* A value that an instruction does not take does not satisfy what it requires.
LEMMA Refused ==
  ASSUME NEW v \in Values
  PROVE  /\ v.t # "Int" => ~Satisfies(v.t, "Int")
         /\ v.t = "Unset" => ~Satisfies(v.t, "NonUnset")
         /\ v.t \notin {"VecInt", "VecXqmx"} => ~Satisfies(v.t, "AnyVec")
         /\ v.t # "VecInt" => ~Satisfies(v.t, "VecInt")
         /\ ~IsGrid(v) => ~Satisfies(v.t, "Grid")
<1>1. v.t \in {"Unset", "Int", "VecInt", "VecXqmx", "Model", "Sample"}
  BY Kinds
<1> QED  BY <1>1 DEF Satisfies, Vecs, Grids, IsGrid

\* The register an instruction of the register file names holds a value.
LEMMA RegFacts ==
  ASSUME Inv, NEW ops, Ready(ops), ops \subseteq RegisterOps
  PROVE  /\ Reg \in Values /\ Current.regs[1] \in Registers
         /\ Reg.t \in {"Unset", "Int", "VecInt", "VecXqmx", "Model", "Sample"}
BY ReadyFacts, Registered, Kinds DEF Ready

\* The instructions that move values between the stack, the registers and the host.
LEMMA RegisterEffect ==
  ASSUME Inv, Load \/ Stow \/ DropRegister \/ Input \/ Output
  PROVE  Effect \/ Fault
<1>1. CASE Load
  <2>1. Current.op = "LOAD" /\ Ready({"LOAD"}) /\ Row("LOAD", 0, 1, "None")
    BY <1>1, Table DEF Load, Ready
  <2>2. Fault \/ (program' = program /\ IF Reg.t # "Int" THEN Raise(WrongKind) ELSE Push(Reg.n))
    BY <1>1, ChargeOrFault DEF Load, Free
  <2>3. Reg \in Values /\ (Reg.t = "Int" => Reg.n \in Int)
    BY <2>1, RegFacts, Kinds DEF RegisterOps, Ints
  <2>4. ASSUME program' = program, Reg.t # "Int", Raise(WrongKind) PROVE Fault
    BY <2>1, <2>3, <2>4, Required, Refused, ReadFault, ReadyFacts
  <2>5. ASSUME program' = program, Reg.t = "Int", Push(Reg.n) PROVE Effect \/ Fault
    BY <2>1, <2>3, <2>5, PushEffect
  <2> QED  BY <2>2, <2>4, <2>5
<1>2. CASE Stow
  <2>1. Current.op = "STOW" /\ Ready({"STOW"}) /\ Row("STOW", 1, 0, "Int")
    BY <1>2, Table DEF Stow, Ready
  <2>2. Fault \/ (program' = program /\ Write(IntVal(Operand(1))))
    BY <1>2, ChargeOrFault DEF Stow, Free
  <2>3. Holds(IntVal(Operand(1)), "Int")
    BY DEF Holds, IntVal
  <2> QED  BY <2>1, <2>2, <2>3, WriteEffect
<1>3. CASE DropRegister
  <2>1. Current.op = "DROP" /\ Ready({"DROP"}) /\ Row("DROP", 0, 0, "Unset")
    BY <1>3, Table DEF DropRegister, Ready
  <2>2. Fault \/ (program' = program /\ Write(Unset))
    BY <1>3, ChargeOrFault DEF DropRegister, Free
  <2>3. Holds(Unset, "Unset")
    BY DEF Holds, Unset
  <2> QED  BY <2>1, <2>2, <2>3, WriteEffect
<1>4. CASE Input
  <2> DEFINE i == Operand(1)
             given == 0 <= i /\ i < Len(Calldata)
  <2>1. Current.op = "INPUT" /\ Ready({"INPUT"}) /\ Row("INPUT", 1, 0, "Any")
    BY <1>4, Table DEF Input, Ready
  <2>2. CASE ~given
    <3>1. Fault \/ (program' = program /\ Raise("CalldataIndex"))
      BY <1>4, <2>2, ChargeOrFault DEF Input, Free
    <3> QED  BY <3>1, OtherFault DEF SoughtFaults
  <2>3. CASE given
    <3>1. Fault \/ (program' = program /\ Write(Calldata[i + 1]))
      BY <1>4, <2>3, ChargeOrFault DEF Input
    <3>2. i \in Int
      BY <2>1, Operands DEF Row
    <3> DEFINE value == Calldata[i + 1]
    <3>3. i + 1 \in DOMAIN Calldata
      <4>1. Calldata \in Seq({Calldata[k] : k \in DOMAIN Calldata})
        BY XqvmAssumption DEF IsSeq
      <4>2. DOMAIN Calldata = 1 .. Len(Calldata) /\ Len(Calldata) \in Nat
        BY <4>1
      <4> QED  BY <2>3, <3>2, <4>2
    <3>4. value \in Values
      BY <3>3, XqvmAssumption, IsValueType
    <3>5. CalldataSet => value # Unset
      BY <3>3 DEF CalldataSet
    <3>6. Holds(value, "Any")
      BY <3>4, <3>5, Kinds DEF Holds
    <3> HIDE DEF value
    <3>7. Fault \/ (program' = program /\ Write(value))
      BY <3>1 DEF value
    <3> QED  BY <2>1, <3>6, <3>7, WriteEffect
  <2> QED  BY <2>2, <2>3
<1>5. CASE Output
  <2>1. Current.op = "OUTPUT" /\ Ready({"OUTPUT"}) /\ Row("OUTPUT", 1, 0, "None")
    BY <1>5, Table DEF Output, Ready
  <2> DEFINE work == IF Reg.t = "Unset" THEN Raise("UnsetRegister")
                     ELSE IF ~(0 <= Operand(1) /\ Operand(1) < OutputSlots)
                       THEN Raise("OutputIndex")
                     ELSE /\ outputs' = [outputs EXCEPT ![Operand(1) + 1] = Reg]
                          /\ stack' = Popped
                          /\ pc' = pc + 1
                          /\ UNCHANGED <<file, loops, status>>
  <2>2. Fault \/ (program' = program /\ work)
    <3>1. Charged(ValueBytes(Reg), ValueCopySteps(Reg), work)
      BY <1>5 DEF Output
    <3> HIDE DEF work
    <3> QED  BY <3>1, ChargeOrFault
  <2>3. Reg \in Values
    BY <2>1, RegFacts DEF RegisterOps
  <2>4. ASSUME program' = program, Reg.t = "Unset", Raise("UnsetRegister") PROVE Fault
    BY <2>1, <2>3, <2>4, Required, Refused, ReadFault, ReadyFacts
  <2>5. ASSUME program' = program, Raise("OutputIndex") PROVE Fault
    BY <2>5, OtherFault DEF SoughtFaults
  <2>6. ASSUME program' = program, stack' = Popped, pc' = pc + 1, UNCHANGED <<file, loops, status>>
        PROVE  Effect
    <3>1. status = "running" /\ OpAt(program, pc) = "OUTPUT" /\ Len(Popped) = Len(stack) - 1
          /\ Len(stack) \in Nat
      BY <2>1, ReadyFacts DEF Row
    <3>2. Len(stack') = Len(stack) - 1 + 0
      BY <2>6, <3>1
    <3>3. regs' = regs
      BY <2>6 DEF file
    <3> QED  BY <2>1, <2>6, <3>1, <3>2, <3>3 DEF Effect, Follows, Writes, Row
  <2> QED  BY <2>2, <2>4, <2>5, <2>6
<1> QED  BY <1>1, <1>2, <1>3, <1>4, <1>5

\* The instructions of the vectors.
LEMMA VecEffect ==
  ASSUME Inv, NewVec \/ VecPush \/ VecGet \/ VecSet \/ VecLen
  PROVE  Effect \/ Fault
<1>1. CASE NewVec
  <2>1. CASE Ready({"VEC", "VECI"}) /\ Free(Write(VecIntVal(<<>>)))
    <3>1. PICK op \in {"VEC", "VECI"} : Current.op = op
      BY <2>1 DEF Ready
    <3>2. Row(op, 0, 0, "VecInt")
      BY Table
    <3>3. Fault \/ (program' = program /\ Write(VecIntVal(<<>>)))
      BY <2>1, ChargeOrFault DEF Free
    <3>4. Holds(VecIntVal(<<>>), "VecInt")
      BY DEF Holds, VecIntVal
    <3> QED  BY <2>1, <3>1, <3>2, <3>3, <3>4, WriteEffect
  <2>2. CASE Ready({"VECX"}) /\ Free(Write(VecXqmxVal(<<>>)))
    <3>1. Current.op = "VECX" /\ Row("VECX", 0, 0, "VecXqmx")
      BY <2>2, Table DEF Ready
    <3>3. Fault \/ (program' = program /\ Write(VecXqmxVal(<<>>)))
      BY <2>2, ChargeOrFault DEF Free
    <3>4. Holds(VecXqmxVal(<<>>), "VecXqmx")
      BY DEF Holds, VecXqmxVal
    <3> QED  BY <2>2, <3>1, <3>3, <3>4, WriteEffect
  <2> QED  BY <1>1, <2>1, <2>2 DEF NewVec
<1>2. CASE VecPush
  <2> DEFINE value == VecIntVal(Append(Reg.items, Operand(1)))
  <2>1. Current.op = "VECPUSH" /\ Ready({"VECPUSH"}) /\ Row("VECPUSH", 1, 0, "None")
    BY <1>2, Table DEF VecPush, Ready
  <2>2. Fault \/ (program' = program /\ IF Reg.t # "VecInt" THEN Raise("TypeMismatch") ELSE Write(value))
    BY <1>2, ChargeOrFault DEF VecPush
  <2>3. Reg \in Values
    BY <2>1, RegFacts DEF RegisterOps
  <2>4. ASSUME program' = program, Reg.t # "VecInt", Raise("TypeMismatch") PROVE Fault
    BY <2>1, <2>3, <2>4, Required, Refused, ReadFault, ReadyFacts
  <2>5. ASSUME program' = program, Reg.t = "VecInt", Write(value) PROVE Effect
    <3>1. value.t = "VecInt"
      BY DEF VecIntVal
    <3> HIDE DEF value
    <3> QED  BY <2>1, <2>5, <3>1, WriteEffect
  <2> QED  BY <2>2, <2>4, <2>5
<1>3. CASE VecGet
  <2>1. Current.op = "VECGET" /\ Ready({"VECGET"}) /\ Row("VECGET", 1, 1, "None")
    BY <1>3, Table DEF VecGet, Ready
  <2>2. Fault \/ (program' = program /\ IF Reg.t # "VecInt" THEN Raise("TypeMismatch")
          ELSE IF ~(0 <= Operand(1) /\ Operand(1) < Len(Reg.items))
            THEN Raise("IndexOutOfBounds")
          ELSE Push(Reg.items[Operand(1) + 1]))
    BY <1>3, ChargeOrFault DEF VecGet, Free
  <2>3. Reg \in Values /\ Operand(1) \in Int
    BY <2>1, RegFacts, Operands DEF RegisterOps, Row
  <2>4. ASSUME program' = program, Reg.t # "VecInt", Raise("TypeMismatch") PROVE Fault
    BY <2>1, <2>3, <2>4, Required, Refused, ReadFault, ReadyFacts
  <2>5. ASSUME program' = program, Raise("IndexOutOfBounds") PROVE Fault
    BY <2>5, OtherFault DEF SoughtFaults
  <2>6. ASSUME program' = program, Reg.t = "VecInt", 0 <= Operand(1) /\ Operand(1) < Len(Reg.items),
               Push(Reg.items[Operand(1) + 1])
        PROVE  Effect \/ Fault
    <3>1. Reg.items[Operand(1) + 1] \in Int
      BY <2>3, <2>6, Kinds DEF IntVecs
    <3> QED  BY <2>1, <2>6, <3>1, PushEffect
  <2> QED  BY <2>2, <2>4, <2>5, <2>6
<1>4. CASE VecSet
  <2> DEFINE value == VecIntVal([Reg.items EXCEPT ![Operand(2) + 1] = Operand(1)])
  <2>1. Current.op = "VECSET" /\ Ready({"VECSET"}) /\ Row("VECSET", 2, 0, "None")
    BY <1>4, Table DEF VecSet, Ready
  <2>2. Fault \/ (program' = program /\ IF Reg.t # "VecInt" THEN Raise("TypeMismatch")
          ELSE IF ~(0 <= Operand(2) /\ Operand(2) < Len(Reg.items))
            THEN Raise("IndexOutOfBounds")
          ELSE Write(value))
    BY <1>4, ChargeOrFault DEF VecSet, Free
  <2>3. Reg \in Values
    BY <2>1, RegFacts DEF RegisterOps
  <2>4. ASSUME program' = program, Reg.t # "VecInt", Raise("TypeMismatch") PROVE Fault
    BY <2>1, <2>3, <2>4, Required, Refused, ReadFault, ReadyFacts
  <2>5. ASSUME program' = program, Raise("IndexOutOfBounds") PROVE Fault
    BY <2>5, OtherFault DEF SoughtFaults
  <2>6. ASSUME program' = program, Reg.t = "VecInt", Write(value) PROVE Effect
    <3>1. value.t = "VecInt"
      BY DEF VecIntVal
    <3> HIDE DEF value
    <3> QED  BY <2>1, <2>6, <3>1, WriteEffect
  <2> HIDE DEF value
  <2> QED  BY <2>2, <2>4, <2>5, <2>6
<1>5. CASE VecLen
  <2>1. Current.op = "VECLEN" /\ Ready({"VECLEN"}) /\ Row("VECLEN", 0, 1, "None")
    BY <1>5, Table DEF VecLen, Ready
  <2>2. Fault \/ (program' = program /\ IF Reg.t \notin {"VecInt", "VecXqmx"} THEN Raise("TypeMismatch")
          ELSE Push(Len(Reg.items)))
    BY <1>5, ChargeOrFault DEF VecLen, Free
  <2>3. Reg \in Values
    BY <2>1, RegFacts DEF RegisterOps
  <2>4. ASSUME program' = program, Reg.t \notin {"VecInt", "VecXqmx"}, Raise("TypeMismatch") PROVE Fault
    BY <2>1, <2>3, <2>4, Required, Refused, ReadFault, ReadyFacts
  <2>5. ASSUME program' = program, Reg.t \in {"VecInt", "VecXqmx"}, Push(Len(Reg.items))
        PROVE  Effect \/ Fault
    <3>1. Len(Reg.items) \in Int
      BY <2>3, <2>5, Kinds DEF IntVecs, ModelVecs
    <3> QED  BY <2>1, <2>5, <3>1, PushEffect
  <2> QED  BY <2>2, <2>4, <2>5
<1> QED  BY <1>1, <1>2, <1>3, <1>4, <1>5

\* The allocators and the linear coefficients.
LEMMA GridEffect ==
  ASSUME Inv, Allocate \/ GetLine \/ WriteLine
  PROVE  Effect \/ Fault
<1>1. CASE Allocate
  <2> DEFINE size == Operand(1)
  <2>1. PICK op \in {"BQMX", "BSMX"} : Current.op = op /\ Ready({"BQMX", "BSMX"})
    BY <1>1 DEF Allocate, Ready
  <2>2. Row("BQMX", 1, 0, "Model") /\ Row("BSMX", 1, 0, "Sample")
    BY Table
  <2>3. ModelVal(size).t = "Model" /\ SampleVal(size).t = "Sample"
    BY DEF ModelVal, SampleVal
  <2>4. CASE size < 0
    <3>1. Fault \/ (program' = program /\ Raise("InvalidAllocation"))
      BY <1>1, <2>4, ChargeOrFault DEF Allocate, Free
    <3> QED  BY <3>1, OtherFault DEF SoughtFaults
  <2>5. CASE ~(size < 0) /\ op = "BQMX"
    <3>1. Fault \/ (program' = program /\ Write(ModelVal(size)))
      BY <1>1, <2>1, <2>5, ChargeOrFault DEF Allocate
    <3> HIDE DEF size
    <3> QED  BY <2>1, <2>2, <2>3, <2>5, <3>1, WriteEffect DEF Holds
  <2>6. CASE ~(size < 0) /\ op = "BSMX"
    <3>1. Fault \/ (program' = program /\ Write(SampleVal(size)))
      BY <1>1, <2>1, <2>6, ChargeOrFault DEF Allocate
    <3> HIDE DEF size
    <3> QED  BY <2>1, <2>2, <2>3, <2>6, <3>1, WriteEffect DEF Holds
  <2> QED  BY <2>1, <2>4, <2>5, <2>6
<1>2. CASE GetLine
  <2>1. Current.op = "GETLINE" /\ Ready({"GETLINE"}) /\ Row("GETLINE", 1, 1, "None")
    BY <1>2, Table DEF GetLine, Ready
  <2>2. Fault \/ (program' = program /\ IF ~IsGrid(Reg) THEN Raise("TypeMismatch")
          ELSE IF Operand(1) \notin DOMAIN Reg.linear
            THEN Raise("IndexOutOfBounds")
          ELSE Push(Reg.linear[Operand(1)]))
    BY <1>2, ChargeOrFault DEF GetLine, Free
  <2>3. Reg \in Values
    BY <2>1, RegFacts DEF RegisterOps
  <2>4. ASSUME program' = program, ~IsGrid(Reg), Raise("TypeMismatch") PROVE Fault
    BY <2>1, <2>3, <2>4, Required, Refused, ReadFault, ReadyFacts
  <2>5. ASSUME program' = program, Raise("IndexOutOfBounds") PROVE Fault
    BY <2>5, OtherFault DEF SoughtFaults
  <2>6. ASSUME program' = program, IsGrid(Reg), Operand(1) \in DOMAIN Reg.linear,
               Push(Reg.linear[Operand(1)])
        PROVE  Effect \/ Fault
    <3>1. Reg.linear[Operand(1)] \in Int
      BY <2>3, <2>6, Kinds, GridFields DEF IsGrid, Models, Samples
    <3> QED  BY <2>1, <2>6, <3>1, PushEffect
  <2> QED  BY <2>2, <2>4, <2>5, <2>6
<1>3. CASE WriteLine
  <2> DEFINE value == IF Current.op = "SETLINE" THEN Operand(1)
                      ELSE Reg.linear[Operand(2)] + Operand(1)
             isModel == Reg.t = "Model"
             v == [Reg EXCEPT !.linear[Operand(2)] = value]
             work == IF ~IsGrid(Reg) THEN Raise("TypeMismatch")
                     ELSE IF Operand(2) \notin DOMAIN Reg.linear
                       THEN Raise("IndexOutOfBounds")
                     ELSE IF ~InRange(value) THEN Raise("ArithmeticOverflow")
                     ELSE IF ~isModel /\ value \notin {0, 1}
                       THEN Raise("ValueOutOfDomain")
                     ELSE /\ Set(v)
                          /\ UNCHANGED lent
  <2>1. PICK op \in {"SETLINE", "ADDLINE"} : Current.op = op /\ Ready({"SETLINE", "ADDLINE"})
    BY <1>3 DEF WriteLine, Ready
  <2>2. Row(op, 2, 0, "None")
    BY Table
  <2>3. Fault \/ (program' = program /\ work)
    <3>1. Charged(IF isModel THEN LinearEntryBytes ELSE 0, IF isModel THEN CoeffWriteSteps ELSE 0, work)
      BY <1>3 DEF WriteLine
    <3> HIDE DEF work
    <3> QED  BY <3>1, ChargeOrFault
  <2>4. Reg \in Values
    BY <2>1, RegFacts DEF RegisterOps
  <2>5. ASSUME program' = program, ~IsGrid(Reg), Raise("TypeMismatch") PROVE Fault
    BY <2>1, <2>4, <2>5, Required, Refused, ReadFault, ReadyFacts
  <2>6. ASSUME program' = program, NEW fault, Raise(fault),
               fault \in {"IndexOutOfBounds", "ArithmeticOverflow", "ValueOutOfDomain"}
        PROVE  Fault
    BY <2>6, OtherFault DEF SoughtFaults
  <2>7. ASSUME program' = program, IsGrid(Reg), Set(v)
        PROVE  Effect
    <3>1. v.t = Reg.t
      BY <2>4, <2>7, Kinds DEF IsGrid, Models, Samples, GridVals
    <3> HIDE DEF v
    <3> QED  BY <2>1, <2>2, <2>7, <3>1, SetEffect
  <2> HIDE DEF v, value
  <2> QED  BY <2>3, <2>5, <2>6, <2>7
<1> QED  BY <1>1, <1>2, <1>3

\* An opener enters its body, finds the loop stack full, or skips the loop.
LEMMA EnterEffect ==
  ASSUME Inv, NEW ops, Ready(ops), NEW op \in LoopOpeners, Current.op = op,
         program' = program, NEW frame, Enter(frame)
  PROVE  Effect \/ Fault
<1>1. CASE Len(loops) >= LoopLimit
  <2>1. Raise("LoopStackOverflow")
    BY <1>1 DEF Enter
  <2> QED  BY <2>1, OtherFault DEF SoughtFaults
<1>2. CASE ~(Len(loops) >= LoopLimit)
  <2>1. pc' = pc + 1 /\ stack' = Popped /\ regs' = regs /\ status' = status
    BY <1>2 DEF Enter, file, Advance
  <2>2. Row(op, 2, 0, "None") /\ op \notin {"JUMP", "HALT", "SCLR"}
    BY Table DEF LoopOpeners
  <2>3. /\ status = "running" /\ OpAt(program, pc) = op
        /\ Len(stack) \in Nat /\ Len(Popped) = Len(stack) - Pops(op)
    BY ReadyFacts
  <2> QED  BY <2>1, <2>2, <2>3 DEF Effect, Follows, Writes, Row
<1> QED  BY <1>1, <1>2

\* An opener that skips its loop leaves no more of a trace than its operands gone.
LEMMA SkipEffect ==
  ASSUME Inv, NEW ops, Ready(ops), NEW op \in LoopOpeners, Current.op = op, SkipLoop
  PROVE  Effect \/ Fault
<1>1. Closings = Stops(program, pc)
  BY DEF Closings, Stops, Count, Closes, Many, Between
<1>2. program' = program
  BY DEF SkipLoop
<1>3. \/ Raise("StepLimitExceeded") \/ Raise("UnmatchedLoop")
      \/ pc' = Min(Closings) + 1 /\ stack' = Popped /\ regs' = regs /\ status' = status
  BY DEF SkipLoop, file
<1>4. ASSUME NEW fault \in {"StepLimitExceeded", "UnmatchedLoop"}, Raise(fault) PROVE Fault
  BY <1>2, <1>4, OtherFault DEF SoughtFaults
<1>5. ASSUME pc' = Min(Closings) + 1, stack' = Popped, regs' = regs, status' = status
      PROVE  Effect
  <2>2. Row(op, 2, 0, "None") /\ op \notin {"JUMP", "HALT", "SCLR"}
    BY Table DEF LoopOpeners
  <2>3. /\ status = "running" /\ OpAt(program, pc) = op
        /\ Len(stack) \in Nat /\ Len(Popped) = Len(stack) - Pops(op)
    BY ReadyFacts
  <2> QED  BY <1>1, <1>2, <1>5, <2>2, <2>3 DEF Effect, Follows, Writes, Row
<1> QED  BY <1>3, <1>4, <1>5

\* The openers.
LEMMA OpenEffect ==
  ASSUME Inv, OpenRange \/ OpenIter
  PROVE  Effect \/ Fault
<1>1. CASE OpenRange
  <2> DEFINE count == Operand(1)
             start == Operand(2)
             frame == RangeFrame(start, start + count)
  <2>1. Current.op = "RANGE" /\ Ready({"RANGE"}) /\ "RANGE" \in LoopOpeners
    BY <1>1 DEF OpenRange, Ready, LoopOpeners
  <2>2. \/ SkipLoop
        \/ Free(IF ~InRange(start + count) THEN Raise("ArithmeticOverflow") ELSE Enter(frame))
    BY <1>1 DEF OpenRange
  <2> HIDE DEF frame
  <2>3. ASSUME SkipLoop PROVE Effect \/ Fault
    BY <2>1, <2>3, SkipEffect
  <2>4. ASSUME Free(IF ~InRange(start + count) THEN Raise("ArithmeticOverflow") ELSE Enter(frame))
        PROVE  Effect \/ Fault
    <3>1. Fault \/ /\ program' = program
                   /\ IF ~InRange(start + count) THEN Raise("ArithmeticOverflow") ELSE Enter(frame)
      BY <2>4, ChargeOrFault DEF Free
    <3>2. program' = program /\ Raise("ArithmeticOverflow") => Fault
      BY OtherFault DEF SoughtFaults
    <3>3. program' = program /\ Enter(frame) => Effect \/ Fault
      BY <2>1, EnterEffect
    <3> QED  BY <3>1, <3>2, <3>3
  <2> QED  BY <2>2, <2>3, <2>4
<1>2. CASE OpenIter
  <2> DEFINE end == Operand(1)
             start == Operand(2)
             slice == [Reg EXCEPT !.items = SubSeq(@, start + 1, end)]
             bytes == IF Reg.t = "VecInt" THEN (end - start) * VariableBytes ELSE ValueBytes(slice)
             frame == IterFrame(slice, start)
  <2>1. Current.op = "ITER" /\ Ready({"ITER"}) /\ "ITER" \in LoopOpeners
    BY <1>2 DEF OpenIter, Ready, LoopOpeners
  <2>2. \/ Reg.t \notin {"VecInt", "VecXqmx"} /\ Free(Raise(WrongKind))
        \/ SkipLoop
        \/ Free(Raise("IndexOutOfBounds"))
        \/ Charged(bytes, ValueCopySteps(slice), Enter(frame))
    BY <1>2 DEF OpenIter
  <2> HIDE DEF frame, slice, bytes
  <2>3. ASSUME SkipLoop PROVE Effect \/ Fault
    BY <2>1, <2>3, SkipEffect
  <2>4. ASSUME Reg.t \notin {"VecInt", "VecXqmx"}, Free(Raise(WrongKind)) PROVE Fault
    <3>1. Fault \/ (program' = program /\ Raise(WrongKind))
      BY <2>4, ChargeOrFault DEF Free
    <3>2. Reg \in Values
      BY <2>1, RegFacts DEF RegisterOps
    <3> QED  BY <2>1, <2>4, <3>1, <3>2, Required, Refused, ReadFault, ReadyFacts
  <2>5. ASSUME Free(Raise("IndexOutOfBounds")) PROVE Fault
    <3>1. Fault \/ (program' = program /\ Raise("IndexOutOfBounds"))
      BY <2>5, ChargeOrFault DEF Free
    <3> QED  BY <3>1, OtherFault DEF SoughtFaults
  <2>6. ASSUME Charged(bytes, ValueCopySteps(slice), Enter(frame)) PROVE Effect \/ Fault
    <3>1. Fault \/ (program' = program /\ Enter(frame))
      BY <2>6, ChargeOrFault
    <3> QED  BY <2>1, <3>1, EnterEffect
  <2> QED  BY <2>2, <2>3, <2>4, <2>5, <2>6
<1> QED  BY <1>1, <1>2

\* The frame on top was opened by the innermost opener in the text.
LEMMA BodyOfTop ==
  ASSUME Sound, pc < Len(program), OpAt(program, pc) = "NEXT"
  PROVE  LET open == OpenLoops(program)[pc]
         IN  loops # <<>> /\ Advanced(Top).body = open[Len(open)] + 1
<1> DEFINE open == OpenLoops(program)[pc]
           n == Len(open)
<1>1. pc \in Positions(program) /\ pc \in 0 .. Len(program)
  BY DEF Sound, InText, Positions
<1>2. open # <<>>
  BY <1>1 DEF Sound, ScanAccepts
<1>3. open \in Seq(Int)
  BY <1>1, OpenType DEF Sound
<1>4. n \in Nat \ {0} /\ n \in 1 .. n
  <2> HIDE DEF open
  <2> QED  BY <1>2, <1>3
<1>5. /\ Len(loops) = n
      /\ \A k \in 1 .. n : "body" \in DOMAIN loops[k] /\ loops[k].body = open[k] + 1
  BY DEF Sound, InText, Matches
<1> HIDE DEF n
<1> DEFINE top == loops[n]
           behind == open[n] + 1
<1>6. Top = top /\ "body" \in DOMAIN top /\ top.body = behind
  BY <1>4, <1>5 DEF Top
<1> HIDE DEF top, behind
<1>7. Advanced(top).body = behind
  BY <1>6 DEF Advanced
<1>8. loops # <<>>
  BY <1>4, <1>5
<1> QED  BY <1>6, <1>7, <1>8 DEF n, behind

\* The end of a body.
LEMMA EndEffect ==
  ASSUME Inv, Sound, EndOfBody
  PROVE  Effect \/ Fault
<1> DEFINE open == OpenLoops(program)[pc]
           frame == Advanced(Top)
           turn == /\ UNCHANGED <<stack, file, outputs, status>>
                   /\ IF More(frame)
                        THEN loops' = Append(SubSeq(loops, 1, Len(loops) - 1), frame) /\ pc' = frame.body
                        ELSE loops' = SubSeq(loops, 1, Len(loops) - 1) /\ pc' = pc + 1
<1>1. Current.op = "NEXT" /\ Ready({"NEXT"}) /\ Row("NEXT", 0, 0, "None")
  BY Table DEF EndOfBody, Ready
<1>2. Fault \/ (program' = program /\ IF loops = <<>> THEN Raise("NoActiveLoop")
                    ELSE IF frame.kind = "range" /\ ~InRange(frame.current) THEN Raise("ArithmeticOverflow")
                    ELSE turn)
  <2>1. Free(IF loops = <<>> THEN Raise("NoActiveLoop")
             ELSE IF frame.kind = "range" /\ ~InRange(frame.current) THEN Raise("ArithmeticOverflow")
             ELSE turn)
    BY DEF EndOfBody
  <2> HIDE DEF frame, turn
  <2> QED  BY <2>1, ChargeOrFault DEF Free
<1>3. ASSUME program' = program, turn PROVE Effect
  <2>1. status = "running" /\ OpAt(program, pc) = "NEXT" /\ Len(stack) \in Nat /\ pc < Len(program)
    BY <1>1, ReadyFacts
  <2>2. frame.body = open[Len(open)] + 1
    BY <2>1, BodyOfTop
  <2>3. /\ stack' = stack /\ regs' = regs /\ status' = status
        /\ pc' = pc + 1 \/ pc' = frame.body
    BY <1>3 DEF file
  <2>4. Follows(program, pc, pc')
    <3> HIDE DEF frame
    <3> QED  BY <2>1, <2>2, <2>3 DEF Follows
  <2>5. Len(stack') = Len(stack) - 0 + 0
    BY <2>1, <2>3
  <2> HIDE DEF frame, open
  <2> QED  BY <1>1, <1>3, <2>1, <2>3, <2>4, <2>5 DEF Effect, Writes, Row
<1>4. ASSUME program' = program, NEW fault \in {"NoActiveLoop", "ArithmeticOverflow"}, Raise(fault)
      PROVE  Fault
  BY <1>4, OtherFault DEF SoughtFaults
<1> HIDE DEF frame, turn
<1> QED  BY <1>2, <1>3, <1>4

\* The instructions that read the innermost loop.
LEMMA LoopReadEffect ==
  ASSUME Inv, LoopIndex \/ LoopValue
  PROVE  Effect \/ Fault
<1>1. CASE LoopIndex
  <2> DEFINE value == IntVal(IF Top.kind = "range" THEN Top.current ELSE Top.offset + Top.index)
  <2>1. Current.op = "LIDX" /\ Ready({"LIDX"}) /\ Row("LIDX", 0, 0, "Int")
    BY <1>1, Table DEF LoopIndex, Ready
  <2>2. Fault \/ (program' = program /\ IF loops = <<>> THEN Raise("NoActiveLoop") ELSE Write(value))
    BY <1>1, ChargeOrFault DEF LoopIndex, Free
  <2>3. Holds(value, "Int")
    BY DEF Holds, IntVal
  <2> HIDE DEF value
  <2>4. ASSUME program' = program, Raise("NoActiveLoop") PROVE Fault
    BY <2>4, OtherFault DEF SoughtFaults
  <2>5. ASSUME program' = program, Write(value) PROVE Effect
    BY <2>1, <2>3, <2>5, WriteEffect
  <2> QED  BY <2>2, <2>4, <2>5
<1>2. CASE LoopValue
  <2>1. Current.op = "LVAL" /\ Ready({"LVAL"}) /\ Row("LVAL", 0, 0, "Any")
    BY <1>2, Table DEF LoopValue, Ready
  <2>2. ASSUME NEW fault \in {"NoActiveLoop", "IndexOutOfBounds"}, Free(Raise(fault))
        PROVE  Fault
    <3>1. Fault \/ (program' = program /\ Raise(fault))
      BY <2>2, ChargeOrFault DEF Free
    <3> QED  BY <3>1, OtherFault DEF SoughtFaults
  <2>3. CASE loops = <<>>
    BY <1>2, <2>2, <2>3 DEF LoopValue
  <2>4. CASE loops # <<>> /\ Top.kind = "range"
    <3>1. Fault \/ (program' = program /\ Write(IntVal(Top.current)))
      BY <1>2, <2>4, ChargeOrFault DEF LoopValue, Free
    <3>2. Holds(IntVal(Top.current), "Any")
      BY DEF Holds, IntVal
    <3> QED  BY <2>1, <3>1, <3>2, WriteEffect
  <2>5. CASE loops # <<>> /\ Top.kind # "range" /\ Top.index >= Len(Top.items)
    BY <1>2, <2>2, <2>5 DEF LoopValue
  <2>6. CASE loops # <<>> /\ Top.kind # "range" /\ ~(Top.index >= Len(Top.items))
    <3> DEFINE item == Top.items[Top.index + 1]
               work == IF item.t = "Int" THEN Write(item)
                       ELSE Set(item) /\ lent' = lent \cup {Current.regs[1]}
    <3>1. Fault \/ (program' = program /\ work)
      <4>1. Charged(0, ValueCopySteps(item), work)
        BY <1>2, <2>6 DEF LoopValue
      <4> HIDE DEF item, work
      <4> QED  BY <4>1, ChargeOrFault
    <3>2. Holds(item, "Any")
      <4>1. Top \in IterFrames
        BY <2>6, LoopsType, FrameType
      <4>2. Top.items \in Seq(Ints \cup Models) /\ Top.index \in Nat
        BY <4>1 DEF IterFrames
      <4>3. Top.index + 1 \in DOMAIN Top.items
        BY <2>6, <4>2
      <4>4. item \in Ints \cup Models
        BY <4>2, <4>3
      <4> HIDE DEF item
      <4> QED  BY <4>4, GridFields DEF Ints, Models, Holds
    <3> HIDE DEF item
    <3> QED  BY <2>1, <3>1, <3>2, WriteEffect, SetEffect
  <2> QED  BY <2>3, <2>4, <2>5, <2>6
<1> QED  BY <1>1, <1>2

\* Whatever the instruction, it does what the tables say, or the run is over
\* for a cause the verifier looks for, or for another.
LEMMA MachineEffect ==
  ASSUME Inv, Sound, Next
  PROVE  Effect \/ Fault
<1>1. CASE OutOfSteps \/ EndOfStream
  BY <1>1 DEF OutOfSteps, EndOfStream, Fault
<1>2. CASE OutOfOperands
  BY <1>2 DEF OutOfOperands, Fault
<1>3. CASE Nop \/ Halt \/ Jump \/ JumpIf
  BY <1>3, FlowEffect
<1>4. CASE OpenRange \/ OpenIter \/ EndOfBody \/ LoopIndex \/ LoopValue
  BY <1>4, OpenEffect, EndEffect, LoopReadEffect
<1>5. CASE PushImmediate \/ Pop \/ ClearStack \/ Swap \/ Copy \/ Arithmetic
  BY <1>5, StackEffect, ArithmeticEffect
<1>6. CASE Load \/ Stow \/ DropRegister \/ Input \/ Output
  BY <1>6, RegisterEffect
<1>7. CASE NewVec \/ VecPush \/ VecGet \/ VecSet \/ VecLen \/ Allocate \/ GetLine \/ WriteLine
  BY <1>7, VecEffect, GridEffect
<1> QED  BY <1>1, <1>2, <1>3, <1>4, <1>5, <1>6, <1>7 DEF Next

Blocks(code) == ToSet(Graph(code).nodes)

\* What a position of a block makes of the depth, when the phase accepted it.
LEMMA DepthGoesOn ==
  ASSUME NEW code, Len(code) \in Nat, ScanAccepts(code), NEW D, DepthsSettled(code, D),
         NEW b \in Blocks(code), NEW d \in Int, EntryDepth(code, D, b) = Known(d),
         NEW p \in b .. BlockEnd(code, b) - 1, NEW op, op = OpAt(code, p),
         NEW len, len = DepthAt(code, b, d, p), NEW next, next = DepthAt(code, b, d, p + 1)
  PROVE  /\ len \in Int /\ next \in Int
         /\ op # "SCLR" => len >= Pops(op)
         /\ next = IF op = "SCLR" THEN 0 ELSE len - Pops(op) + Pushes(op)
         /\ p = BlockEnd(code, b) - 1 => D[b] = Known(next)
<1> DEFINE j == Task("depth", code)
           effect == BlockEffect(code, b)
           before == Solver!Before(j, D, b)
<1>1. b \in Leaders(code) /\ b \in Nat
  BY GraphIs, LeadersType DEF Blocks
<1>2. /\ j.kind = "depth" /\ Solver!Nodes(j) = Blocks(code) /\ j.body[b] = effect
  BY TaskIs DEF Blocks
<1>3. before = Known(d)
  BY DEF EntryDepth
<1>4. D[b] = DepthTransfer(effect, Known(d)) /\ DepthSafe(Known(d), D[b])
  <2>1. D[b] = JobTransfer(j, b, before) /\ DepthSafe(before, D[b])
    <3> HIDE DEF j
    <3>1. /\ Fixed(j, D)
          /\ \A n \in DOMAIN D : DepthSafe(Solver!Before(j, D, n), D[n])
      BY DEF DepthsSettled, j
    <3>2. DOMAIN D = Blocks(code) /\ \A n \in Blocks(code) : D[n] = JobTransfer(j, n, Solver!Before(j, D, n))
      BY <1>2, <3>1 DEF Fixed
    <3> QED  BY <3>1, <3>2
  <2>2. JobTransfer(j, b, before) = DepthTransfer(j.body[b], before)
    <3> HIDE DEF j, before
    <3> QED  BY <1>2 DEF JobTransfer
  <2> HIDE DEF j, before, effect
  <2> QED  BY <1>2, <1>3, <2>1, <2>2
<1>5. effect \in Effects
  <2>1. BlockEnd(code, b) \in b .. BlockEnd(code, b)
    BY <1>1, BlockIs
  <2> QED  BY <1>1, <2>1, EffectAlongIs
<1>6. D[b].at = "Known"
  BY <1>4 DEF DepthSafe, Known
<1>7. ~(d < effect.needs \/ effect.underflow)
  <2> HIDE DEF effect
  <2> QED  BY <1>4, <1>6 DEF DepthTransfer, Known, Underflowed
<1>8. d >= effect.needs /\ ~effect.underflow
  <2> HIDE DEF effect
  <2> QED  BY <1>5, <1>7 DEF Effects
<1>9. /\ len \in Int
      /\ op = "SCLR" => Pops(op) = 0 /\ next = 0
      /\ op # "SCLR" => len >= Pops(op) /\ next = len - Pops(op) + Pushes(op)
  BY <1>1, <1>8, DepthStep
<1>10. ASSUME p = BlockEnd(code, b) - 1 PROVE D[b] = Known(next)
  <2>1. D[b] = IF effect.fixed THEN Known(effect.depth) ELSE Known(d + effect.depth)
    <3> HIDE DEF effect
    <3> QED  BY <1>4, <1>7 DEF DepthTransfer, Known
  <2>2. p + 1 = BlockEnd(code, b)
    <3>1. BlockEnd(code, b) \in Int
      BY <1>1, BlockIs
    <3> QED  BY <1>10, <3>1
  <2>3. EffectAlong(code, b)[p + 1] = effect
    BY <1>1, <2>2, EffectAlongIs
  <2> HIDE DEF effect
  <2> QED  BY <2>1, <2>3 DEF DepthAt
<1>11. next \in Int
  BY <1>9, PopsType
<1> QED  BY <1>9, <1>10, <1>11

\* Behind an edge a block is entered as deep as the edge was left.
LEMMA EdgeDepth ==
  ASSUME NEW code, Len(code) \in Nat, ScanAccepts(code), NEW D, DepthsSettled(code, D),
         NEW b \in Leaders(code), NEW t \in ToSet(BlockTargets(code, b)), D[b].at = "Known"
  PROVE  EntryDepth(code, D, t) = D[b]
<1>1. PICK j : j = Task("depth", code)
  OBVIOUS
<1>2. PICK blocks : blocks = ToSet(Graph(code).nodes)
  OBVIOUS
<1>3. /\ t \in blocks
      /\ \E i \in DOMAIN j.preds[t] : j.preds[t][i] = b
  BY <1>1, <1>2, TaskIs
<1>4. PICK i \in DOMAIN j.preds[t] : j.preds[t][i] = b
  BY <1>3
<1>5. D[j.preds[t][i]].at = "Known"
  BY <1>4
<1> QED  BY <1>1, <1>2, <1>3, <1>4, <1>5, DepthJoins

\* A block begins at its entry's depth.
LEMMA DepthEnters ==
  ASSUME NEW code, Len(code) \in Nat, NEW b \in Leaders(code), NEW d \in Int
  PROVE  DepthAt(code, b, d, b) = d
<1>1. EffectAlong(code, b)[b] = NoEffect
  BY EffectAlongIs
<1> QED  BY <1>1 DEF DepthAt, NoEffect

\* Where the machine stands: in a block of the graph, behind no HALT.
StandsIn(b) ==
  /\ pc \in b .. BlockEnd(program, b) - 1
  /\ \A r \in b .. pc - 1 : OpAt(program, r) # "HALT"

\* The stack is as deep as the phase found it to be there.
DepthIs(D, b) ==
  \E d \in Int : EntryDepth(program, D, b) = Known(d) /\ Len(stack) = DepthAt(program, b, d, pc)

OnDepth == \E b \in Blocks(program) : StandsIn(b) /\ \A D : DepthsSettled(program, D) => DepthIs(D, b)

\* An instruction finds its operands where the depths are as they were found.
LEMMA DepthFindsOperands ==
  ASSUME Len(program) \in Nat, ScanAccepts(program), OnDepth, NEW D, DepthsSettled(program, D),
         Len(stack) \in Nat
  PROVE  Len(stack) >= Pops(OpAt(program, pc))
<1> DEFINE op == OpAt(program, pc)
<1>1. PICK b \in Blocks(program) : StandsIn(b) /\ DepthIs(D, b)
  BY DEF OnDepth
<1>2. PICK d \in Int : EntryDepth(program, D, b) = Known(d) /\ Len(stack) = DepthAt(program, b, d, pc)
  BY <1>1 DEF DepthIs
<1>3. op # "SCLR" => Len(stack) >= Pops(op)
  BY <1>1, <1>2, DepthGoesOn DEF StandsIn
<1>4. op = "SCLR" => Pops(op) = 0
  BY Table DEF Row
<1> QED  BY <1>3, <1>4

\* And its effect leaves them so, in the block or behind one of its edges.
LEMMA DepthKeeps ==
  ASSUME Len(program) \in Nat, ScanAccepts(program), OnDepth, Effect,
         Current = At(program, pc), pc' \in 0 .. Len(program) - 1
  PROVE  OnDepth'
<1> DEFINE op == OpAt(program, pc)
<1>1. PICK b \in Blocks(program) : StandsIn(b) /\ \A D : DepthsSettled(program, D) => DepthIs(D, b)
  BY DEF OnDepth
<1>2. b \in Leaders(program) /\ b \in Nat /\ BlockEnd(program, b) \in b .. Len(program)
  BY GraphIs, LeadersType, BlockIs DEF Blocks
<1>3. /\ program' = program /\ Current.op = op /\ op # "HALT" /\ Follows(program, pc, pc')
      /\ Len(stack') = IF op = "SCLR" THEN 0 ELSE Len(stack) - Pops(op) + Pushes(op)
  BY DEF Effect, At, OpAt
<1>4. \/ pc' = pc + 1 /\ pc' < BlockEnd(program, b)
      \/ pc = BlockEnd(program, b) - 1 /\ pc' \in ToSet(BlockTargets(program, b))
  BY <1>1, <1>2, <1>3, StaysOrTakesEdge DEF StandsIn
<1>5. pc \in Nat /\ pc \in b .. BlockEnd(program, b) - 1
  BY <1>1, <1>2 DEF StandsIn
<1>6. ASSUME NEW D, DepthsSettled(program, D)
      PROVE  \E d \in Int : /\ EntryDepth(program, D, b) = Known(d)
                            /\ Len(stack') = DepthAt(program, b, d, pc + 1) /\ Len(stack') \in Int
                            /\ pc = BlockEnd(program, b) - 1 => D[b] = Known(Len(stack'))
  <2>1. PICK d \in Int : EntryDepth(program, D, b) = Known(d) /\ Len(stack) = DepthAt(program, b, d, pc)
    BY <1>1, <1>6 DEF DepthIs
  <2> DEFINE next == DepthAt(program, b, d, pc + 1)
  <2>2. /\ next \in Int /\ next = IF op = "SCLR" THEN 0 ELSE Len(stack) - Pops(op) + Pushes(op)
        /\ pc = BlockEnd(program, b) - 1 => D[b] = Known(next)
    BY <1>5, <1>6, <2>1, DepthGoesOn
  <2> QED  BY <1>3, <2>1, <2>2
<1>7. CASE pc' = pc + 1 /\ pc' < BlockEnd(program, b)
  <2>1. ASSUME NEW D, DepthsSettled(program, D)
        PROVE  \E d \in Int : EntryDepth(program, D, b) = Known(d) /\ Len(stack') = DepthAt(program, b, d, pc')
    BY <1>6, <1>7, <2>1
  <2>2. /\ pc' \in b .. BlockEnd(program, b) - 1
        /\ \A r \in b .. pc' - 1 : OpAt(program, r) # "HALT"
    <3>1. \A r \in b .. pc' - 1 : r = pc \/ r \in b .. pc - 1
      BY <1>5, <1>7
    <3> QED  BY <1>1, <1>2, <1>3, <1>5, <1>7, <3>1 DEF StandsIn
  <2> QED  BY <1>3, <2>1, <2>2 DEF OnDepth, StandsIn, DepthIs
<1>8. CASE pc = BlockEnd(program, b) - 1 /\ pc' \in ToSet(BlockTargets(program, b))
  <2>0. PICK t : t = pc'
    OBVIOUS
  <2>1. t \in Blocks(program)
    BY <1>2, <1>8, <2>0, TaskIs DEF Blocks
  <2>2. t \in Leaders(program) /\ t \in t .. BlockEnd(program, t) - 1 /\ t \in Nat
    <3>1. t \in Leaders(program)
      BY <2>1, GraphIs DEF Blocks
    <3>2. t \in Nat /\ t < BlockEnd(program, t) /\ BlockEnd(program, t) \in t .. Len(program)
      BY <2>0, <3>1, BlockIs
    <3> QED  BY <3>1, <3>2
  <2>3. \A r \in t .. t - 1 : OpAt(program, r) # "HALT"
    <3>1. t .. t - 1 = {}
      BY <2>2
    <3> QED  BY <3>1
  <2>4. ASSUME NEW D, DepthsSettled(program, D)
        PROVE  \E d \in Int : EntryDepth(program, D, t) = Known(d) /\ Len(stack') = DepthAt(program, t, d, t)
    <3> DEFINE d == Len(stack')
    <3>1. D[b] = Known(d) /\ d \in Int
      BY <1>6, <1>8, <2>4
    <3>2. D[b].at = "Known"
      BY <3>1 DEF Known
    <3>3. EntryDepth(program, D, t) = D[b]
      BY <1>2, <1>8, <2>0, <2>4, <3>2, EdgeDepth
    <3>4. DepthAt(program, t, d, t) = d
      BY <2>2, <3>1, DepthEnters
    <3> HIDE DEF d
    <3> QED  BY <3>1, <3>3, <3>4 DEF d
  <2> QED  BY <1>3, <2>0, <2>1, <2>2, <2>3, <2>4 DEF OnDepth, StandsIn, DepthIs
<1> QED  BY <1>4, <1>7, <1>8

\* The machine starts at the entry, with nothing on the stack.
LEMMA DepthStarts ==
  ASSUME Len(program) \in Nat, ScanAccepts(program), program # <<>>, 0 < Len(program), pc = 0, stack = <<>>
  PROVE  OnDepth
<1> DEFINE j == Task("depth", program)
<1>1. 0 \in Blocks(program) /\ j.entry = 0 /\ j.kind = "depth"
  BY TaskIs DEF Blocks
<1>2. 0 \in Leaders(program) /\ 0 < BlockEnd(program, 0) /\ BlockEnd(program, 0) \in 0 .. Len(program)
  BY LeadersType, BlockIs
<1>3. StandsIn(0)
  BY <1>2 DEF StandsIn
<1>4. ASSUME NEW D PROVE DepthIs(D, 0)
  <2>1. EntryDepth(program, D, 0) = Known(0)
    <3> HIDE DEF j
    <3>1. Solver!Before(j, D, 0) = Known(0)
      BY <1>1 DEF Solver!Before, JobBoundary
    <3> QED  BY <3>1 DEF EntryDepth, j
  <2>2. DepthAt(program, 0, 0, 0) = 0
    BY <1>2, DepthEnters
  <2>3. Len(stack) = 0
    OBVIOUS
  <2> QED  BY <2>1, <2>2, <2>3 DEF DepthIs
<1> QED  BY <1>1, <1>3, <1>4 DEF OnDepth

-----------------------------------------------------------------------------
(* The verifier's own steps. *)

\* The machine before the verdict.
Fresh ==
  /\ pc = 0 /\ stack = <<>> /\ status = "running"
  /\ regs = [r \in Registers |-> Unset]

Served ==
  /\ Admitted
  /\ Inv
  /\ Working
  /\ phase \in {"scan", "types", "init", "depth", "accepted", "rejected"}
  /\ phase # "accepted" => Fresh

\* A program is a sequence of some length.
LEMMA ProgramLength ==
  ASSUME program \in Programs
  PROVE  /\ Len(program) \in Nat /\ (program = <<>> <=> Len(program) = 0)
<1>1. program \in Seq({program[i] : i \in DOMAIN program})
  BY XqvmAssumption DEF IsProgram, IsSeq
<1> QED  BY <1>1

\* What a step of the verifier does to the phase.
LEMMA VerifyIs ==
  ASSUME Served, Verify
  PROVE  /\ program' = program /\ pc' = pc /\ stack' = stack /\ regs' = regs /\ status' = status
         /\ Fresh /\ phase # "accepted"
         /\ \/ phase' \in {"accepted", "rejected"}
            \/ phase = "scan" /\ ScanAccepts(program) /\ Call("types")
            \/ phase = "types" /\ TypesAccept /\ Solver!Converged /\ Call("init")
            \/ phase = "init" /\ InitAccept /\ Solver!Converged /\ Call("depth")
            \/ phase' = phase /\ phase \in {"types", "init", "depth"} /\ Solver!Next
         /\ phase' = "accepted" => \/ program = <<>>
                                   \/ phase = "depth" /\ DepthAccept /\ Solver!Converged
<1>1. VerifierNext /\ pc' = pc /\ stack' = stack /\ regs' = regs /\ status' = status
  BY DEF Verify, file
<1>2. CASE Scan
  BY <1>1, <1>2 DEF Scan, Conclude, Call, Served
<1>3. CASE Solve
  BY <1>1, <1>3 DEF Solve, Served
<1>4. CASE FinishTypes
  BY <1>1, <1>4 DEF FinishTypes, Conclude, Call, Served
<1>5. CASE FinishInit
  BY <1>1, <1>5 DEF FinishInit, Conclude, Call, Served
<1>6. CASE FinishDepth
  BY <1>1, <1>6 DEF FinishDepth, Conclude, Served
<1> QED  BY <1>1, <1>2, <1>3, <1>4, <1>5, <1>6 DEF VerifierNext

\* The calls follow each other, each served in order.
LEMMA ServedInit == ASSUME VerifiedInit PROVE Served
<1>1. Admitted
  BY AdmittedInit
<1>2. Init
  BY DEF VerifiedInit, VerifierInit, Init
<1>3. Inv
  BY <1>2, InitInv
<1> QED  BY <1>1, <1>3 DEF Served, VerifiedInit, VerifierInit, MachineInit, Working, Serving, Fresh

\* The verifier's steps keep it so.
LEMMA VerifyKeepsServed == ASSUME Served, Verify PROVE Served'
<1>1. Admitted'
  BY VerifyKeepsAdmitted DEF Served
<1>2. Inv'
  <2>1. UNCHANGED machineVars
    BY VerifyIs DEF Verify, machineVars, file
  <2>2. Faulted
    BY <2>1, Numbers DEF Served, machineVars, file, Faulted
  <2> QED  BY <2>2, FaultedKeeps DEF Served
<1>3. program' = program /\ Len(program) \in Nat
  BY VerifyIs, ProgramLength DEF Served, Admitted
<1>4. /\ phase' \in {"scan", "types", "init", "depth", "accepted", "rejected"}
      /\ Fresh'
  <2>1. phase' \in {"scan", "types", "init", "depth", "accepted", "rejected"}
    BY VerifyIs DEF Served, Call
  <2> QED  BY <2>1, VerifyIs DEF Fresh
<1>5. ASSUME NEW kind \in {"types", "init", "depth"}, ScanAccepts(program), Call(kind)
      PROVE  Working'
  <2>1. phase' = kind /\ job' = Task(kind, program) /\ Queue!Inv'
    BY <1>3, <1>5, CallStarts
  <2> HIDE DEF Task
  <2> QED  BY <1>3, <2>1 DEF Working, Serving
<1>6. ScanAccepts(program) \/ phase \notin {"types", "init", "depth"}
  BY DEF Served, Admitted
<1>7. Working'
  <2>1. CASE phase' \in {"accepted", "rejected"}
    BY <2>1 DEF Working, Serving
  <2>2. CASE phase = "scan" /\ ScanAccepts(program) /\ Call("types")
    BY <1>5, <2>2
  <2>3. CASE phase = "types" /\ Call("init")
    BY <1>5, <1>6, <2>3
  <2>4. CASE phase = "init" /\ Call("depth")
    BY <1>5, <1>6, <2>4
  <2>5. CASE phase' = phase /\ phase \in {"types", "init", "depth"} /\ Solver!Next
    <3>1. job = Task(phase, program) /\ Queue!Inv
      BY <2>5, Zenon DEF Served, Working, Serving
    <3>2. job' = job /\ Queue!Inv'
      BY <2>5, <3>1, SolverKeeps
    <3>3. job' = Task(phase', program')
      BY <1>3, <2>5, <3>1, <3>2
    <3> QED  BY <2>5, <3>2, <3>3, Zenon DEF Working, Serving
  <2> QED  BY <2>1, <2>2, <2>3, <2>4, <2>5, VerifyIs
<1> QED  BY <1>1, <1>2, <1>4, <1>7 DEF Served

\* So do the machine's, which change neither the program nor the verdict.
LEMMA RunKeepsServed == ASSUME Served, Run PROVE Served' /\ phase' = phase /\ program' = program
<1>1. Admitted'
  BY RunKeepsAdmitted DEF Served
<1>2. Inv'
  BY NextInv DEF Served, Run
<1>3. phase' = phase /\ phase = "accepted"
  BY DEF Run
<1>4. program' = program
  BY MachineRuns DEF Run
<1> QED  BY <1>1, <1>2, <1>3, <1>4 DEF Served, Working, Serving

\* A machine goes on only from an instruction.
LEMMA NextIsAt ==
  ASSUME Next, status' = "running"
  PROVE  pc < Len(program)
<1>1. CASE OutOfSteps \/ OutOfOperands \/ EndOfStream
  BY <1>1 DEF OutOfSteps, OutOfOperands, EndOfStream, AtInstruction
<1>2. CASE Nop \/ PushImmediate \/ Pop \/ ClearStack \/ Swap \/ Copy \/ Arithmetic
  BY <1>2 DEF Nop, PushImmediate, Pop, ClearStack, Swap, Copy, Arithmetic, Ready, AtInstruction
<1>3. CASE Load \/ Stow \/ DropRegister \/ Input \/ Output \/ LoopIndex \/ LoopValue
  BY <1>3 DEF Load, Stow, DropRegister, Input, Output, LoopIndex, LoopValue, Ready, AtInstruction
<1>4. CASE NewVec \/ VecPush \/ VecGet \/ VecSet \/ VecLen \/ Allocate \/ GetLine \/ WriteLine
  BY <1>4 DEF NewVec, VecPush, VecGet, VecSet, VecLen, Allocate, GetLine, WriteLine, Ready, AtInstruction
<1>5. CASE Halt \/ Jump \/ JumpIf \/ OpenRange \/ OpenIter \/ EndOfBody
  BY <1>5 DEF Halt, Jump, JumpIf, OpenRange, OpenIter, EndOfBody, Ready, AtInstruction
<1> QED  BY <1>1, <1>2, <1>3, <1>4, <1>5 DEF Next

\* Nor does a step of nothing.
LEMMA ServedStutters == ASSUME Served, UNCHANGED vars PROVE Served'
<1>1. /\ UNCHANGED <<program, phase, job, worklist, inWorklist, state, pending>>
      /\ UNCHANGED machineVars
      /\ UNCHANGED <<pc, stack, regs, lent, loops, outputs, steps, memory, status>>
  BY DEF vars, machineVars, file, solverVars
<1>2. Admitted'
  BY <1>1 DEF Served, Admitted, OnTrack, InText
<1>3. Inv'
  <2>1. Faulted
    BY <1>1, Numbers DEF Served, Faulted
  <2> QED  BY <2>1, FaultedKeeps DEF Served
<1>4. Queue!Inv => Queue!Inv'
  BY <1>1 DEF Queue!Inv, Queue!QueueOK, Queue!NothingForgotten, Queue!Owed, Queue!Settled
<1>5. Working'
  BY <1>1, <1>4 DEF Served, Working, Serving
<1>6. Fresh => Fresh'
  BY <1>1 DEF Fresh
<1> QED  BY <1>1, <1>2, <1>3, <1>5, <1>6 DEF Served

-----------------------------------------------------------------------------
(* The stack of an admitted program. *)

\* What the depth phase left is a settled answer.
LEMMA DepthsAccepted ==
  ASSUME job = Task("depth", program), Queue!Inv, Solver!Converged, DepthAccept
  PROVE  DepthsSettled(program, state)
<1> DEFINE j == Task("depth", program)
<1>1. Fixed(j, state)
  BY ConvergedIsFixed
<1>2. \A n \in DOMAIN state : JoinAgrees(j, state, Solver!Before(j, state, n), n)
                              /\ DepthSafe(Solver!Before(j, state, n), state[n])
  <2> HIDE DEF j
  <2>1. job = j
    BY DEF j
  <2>2. \A n \in DOMAIN state : JoinAgrees(job, state, Solver!Before(job, state, n), n)
                                /\ DepthSafe(Solver!Before(job, state, n), state[n])
    BY DEF DepthAccept
  <2> QED  BY <2>1, <2>2, Zenon
<1> HIDE DEF j
<1> QED  BY <1>1, <1>2, Zenon DEF DepthsSettled, j

DepthsFound ==
  phase = "accepted" /\ program # <<>> => \E D : DepthsSettled(program, D)

RunsDeep ==
  phase = "accepted" /\ JumpsStayInLoop(program) =>
    status # "StackUnderflow" /\ (status = "running" /\ pc < Len(program) => OnDepth)

DepthInv == Served /\ DepthsFound /\ RunsDeep

\* A verdict is given when the depths are settled, on an empty stack.
LEMMA VerifyKeepsDepth == ASSUME DepthInv, Verify PROVE DepthInv'
<1>1. Served /\ Served' /\ program' = program /\ phase # "accepted"
  BY VerifyKeepsServed, VerifyIs DEF DepthInv
<1>2. ScanAccepts(program) \/ phase \notin {"types", "init", "depth"}
  BY <1>1 DEF Served, Admitted
<1>3. CASE phase' # "accepted"
  BY <1>1, <1>3 DEF DepthInv, DepthsFound, RunsDeep
<1>4. CASE phase' = "accepted" /\ program = <<>>
  <2>1. pc' = 0 /\ status' = "running" /\ Len(program) = 0
    BY <1>1, <1>4, VerifyIs, ProgramLength DEF Fresh, Served, Admitted
  <2> QED  BY <1>1, <1>4, <2>1 DEF DepthInv, DepthsFound, RunsDeep
<1>5. CASE phase' = "accepted" /\ program # <<>>
  <2>1. phase = "depth" /\ DepthAccept /\ Solver!Converged /\ ScanAccepts(program)
    BY <1>1, <1>2, <1>5, VerifyIs
  <2>2. job = Task("depth", program) /\ Queue!Inv
    BY <1>1, <2>1 DEF Served, Working, Serving
  <2>3. DepthsSettled(program, state)
    BY <2>1, <2>2, DepthsAccepted
  <2>4. Len(program) \in Nat /\ 0 < Len(program)
    BY <1>1, <1>5, ProgramLength DEF Served, Admitted
  <2>5. OnDepth
    BY <1>1, <1>5, <2>1, <2>4, VerifyIs, DepthStarts DEF Fresh
  <2>6. OnDepth'
    BY <1>1, <2>5, VerifyIs DEF OnDepth, StandsIn, DepthIs
  <2>7. status' = "running"
    BY <1>1, VerifyIs DEF Fresh
  <2>8. DepthsFound'
    BY <1>1, <2>3 DEF DepthsFound
  <2> QED  BY <1>1, <2>6, <2>7, <2>8 DEF DepthInv, RunsDeep
<1> QED  BY <1>3, <1>4, <1>5

\* A step of the machine keeps the stack as deep as was found.
LEMMA RunKeepsDepth == ASSUME DepthInv, Run PROVE DepthInv'
<1>1. Served /\ Served' /\ program' = program /\ phase' = phase /\ phase = "accepted" /\ Next
  BY RunKeepsServed DEF DepthInv, Run
<1>2. DepthsFound'
  BY <1>1 DEF DepthInv, DepthsFound
<1>3. CASE ~JumpsStayInLoop(program)
  BY <1>1, <1>2, <1>3 DEF DepthInv, RunsDeep
<1>4. CASE JumpsStayInLoop(program)
  <2>1. status = "running" /\ ScanAccepts(program) /\ Len(program) \in Nat
    BY <1>1, MachineRuns, ProgramLength DEF Served, Admitted
  <2>2. Sound
    BY <1>1, <1>4, <2>1 DEF Sound, Served, Admitted, OnTrack
  <2>3. Effect \/ Fault
    BY <1>1, <2>2, MachineEffect DEF Served
  <2>4. Current = At(program, pc) /\ Len(stack) \in Nat
    BY <1>1, Numbers DEF Current, Served
  <2>5. pc < Len(program) => OnDepth
    BY <1>1, <1>4, <2>1 DEF DepthInv, RunsDeep
  <2>6. CASE Fault
    <3>1. status' # "StackUnderflow"
      <4>1. SUFFICES ASSUME pc < Len(program), Len(stack) < Pops(Current.op) PROVE FALSE
        BY <2>6 DEF Fault, AtInstruction
      <4>2. program # <<>>
        <5>1. pc \in Nat
          BY <1>1, Numbers DEF Served
        <5> QED  BY <1>1, <2>1, <4>1, <5>1, ProgramLength DEF Served, Admitted
      <4>3. PICK D : DepthsSettled(program, D)
        BY <1>1, <4>2 DEF DepthInv, DepthsFound
      <4>4. Len(stack) >= Pops(OpAt(program, pc))
        BY <2>1, <2>4, <2>5, <4>1, <4>3, DepthFindsOperands
      <4>5. Pops(Current.op) = Pops(OpAt(program, pc)) /\ Pops(Current.op) \in Nat
        BY <2>4, PopsType DEF At, OpAt
      <4> QED  BY <2>4, <4>1, <4>4, <4>5
    <3> QED  BY <1>1, <1>2, <2>6, <3>1 DEF DepthInv, RunsDeep, Fault
  <2>7. CASE Effect
    <3>1. status' = "running"
      BY <2>7 DEF Effect
    <3>2. ASSUME pc' < Len(program)' PROVE OnDepth'
      <4>1. pc' \in 0 .. Len(program) - 1
        <5>1. pc' \in Nat
          BY <1>1 DEF Served, Inv, MachineOK
        <5> QED  BY <1>1, <2>1, <3>2, <5>1
      <4>2. pc < Len(program)
        BY <1>1, <3>1, NextIsAt
      <4> QED  BY <2>1, <2>4, <2>5, <2>7, <4>1, <4>2, DepthKeeps
    <3> QED  BY <1>1, <1>2, <3>1, <3>2 DEF DepthInv, RunsDeep
  <2> QED  BY <2>3, <2>6, <2>7
<1> QED  BY <1>3, <1>4

\* A step of nothing keeps the depths.
LEMMA DepthStutters == ASSUME DepthInv, UNCHANGED vars PROVE DepthInv'
<1>1. Served'
  BY ServedStutters DEF DepthInv
<1>2. UNCHANGED <<program, phase, pc, stack, status>>
  BY DEF vars, machineVars
<1>3. DepthsFound'
  BY <1>2 DEF DepthInv, DepthsFound
<1>4. OnDepth => OnDepth'
  BY <1>2 DEF OnDepth, StandsIn, DepthIs
<1>5. RunsDeep'
  BY <1>2, <1>4 DEF DepthInv, RunsDeep
<1> QED  BY <1>1, <1>3, <1>5 DEF DepthInv

\* An admitted program never pops an empty stack, whatever path led to the
\* instruction: the depths the solver settled on (dataflow/bytecode.rs) hold
\* on every path the machine (vm.rs) can take.
THEOREM AdmittedNeverUnderflows == VerifiedSpec => []NoUnderflow
<1>1. VerifiedInit => DepthInv
  <2> SUFFICES ASSUME VerifiedInit PROVE DepthInv
    OBVIOUS
  <2> QED  BY ServedInit DEF DepthInv, DepthsFound, RunsDeep, VerifiedInit, VerifierInit
<1>2. DepthInv /\ [VerifiedNext]_vars => DepthInv'
  <2> SUFFICES ASSUME DepthInv, [VerifiedNext]_vars PROVE DepthInv'
    OBVIOUS
  <2>1. CASE Verify
    BY <2>1, VerifyKeepsDepth
  <2>2. CASE Run
    BY <2>2, RunKeepsDepth
  <2>3. CASE UNCHANGED vars
    BY <2>3, DepthStutters
  <2> QED  BY <2>1, <2>2, <2>3 DEF VerifiedNext
<1>3. DepthInv => NoUnderflow
  <2> SUFFICES ASSUME DepthInv, status = "StackUnderflow" PROVE ~WellStructured(program)
    BY DEF NoUnderflow
  <2>1. phase = "accepted"
    BY DEF DepthInv, Served, Fresh
  <2> QED  BY <2>1 DEF DepthInv, RunsDeep, WellStructured
<1> QED  BY <1>1, <1>2, <1>3, PTL DEF VerifiedSpec

-----------------------------------------------------------------------------
(* The registers along a block. *)

\* A program that the scan accepted, all of whose blocks are in the graph.
Charted(code) == IsSeq(code) /\ code # <<>> /\ ScanAccepts(code) /\ BlocksInGraph(code)

\* It is a text the graph is drawn of.
LEMMA ChartedIs == ASSUME NEW code, Charted(code) PROVE Len(code) \in Nat /\ ScanAccepts(code)
<1>1. code \in Seq({code[i] : i \in DOMAIN code})
  BY DEF Charted, IsSeq
<1> QED  BY <1>1 DEF Charted

\* The span of a node is then its block.
LEMMA SpanIs ==
  ASSUME NEW code, Charted(code), NEW kind, kind # "depth", NEW j, j = Task(kind, code),
         NEW b \in Leaders(code), NEW body, body = j.body[b]
  PROVE  /\ IsSeq(body) /\ Len(body) = BlockEnd(code, b) - b /\ Len(body) \in Nat
         /\ \A k \in 1 .. Len(body) : body[k] = At(code, b + k - 1) /\ b + k - 1 \in Positions(code)
<1> DEFINE S == {code[i] : i \in DOMAIN code}
           blocks == ToSet(Graph(code).nodes)
           e == BlockEnd(code, b)
<1>1. code \in Seq(S) /\ Len(code) \in Nat
  BY DEF Charted, IsSeq
<1>2. blocks = Leaders(code) /\ body = SubSeq(code, b + 1, SpanEnd(code, Graph(code), b))
  BY <1>1, TaskIs DEF Charted
<1>3. DOMAIN Graph(code).succs = Leaders(code)
  BY <1>1, <1>2, GraphIs DEF Charted
<1>4. SpanEnd(code, Graph(code), b) = e
  BY <1>3 DEF SpanEnd, BlockEnd
<1>5. b \in 0 .. Len(code) /\ e \in b .. Len(code)
  BY <1>1, BlockIs
<1> HIDE DEF e, S
<1>6. /\ body \in Seq(S) /\ Len(body) = e - b /\ Len(body) \in Nat
      /\ \A k \in 1 .. Len(body) : body[k] = code[b + k] /\ b + k \in 1 .. Len(code)
  BY <1>1, <1>2, <1>4, <1>5
<1>7. IsSeq(body)
  <2> DEFINE B == {body[i] : i \in DOMAIN body}
             n == Len(body)
  <2>1. body = [i \in 1 .. n |-> body[i]] /\ n \in Nat /\ DOMAIN body = 1 .. n
    BY <1>6
  <2> HIDE DEF n
  <2>2. \A i \in 1 .. n : body[i] \in B
    BY <2>1
  <2> HIDE DEF B
  <2>3. body \in [1 .. n -> B]
    BY <2>1, <2>2
  <2>4. body \in Seq(B)
    BY <2>1, <2>3
  <2> QED  BY <2>4 DEF IsSeq, B
<1>8. \A k \in 1 .. Len(body) : (b + k - 1) + 1 = b + k
  BY <1>5, <1>6
<1> QED  BY <1>5, <1>6, <1>7, <1>8 DEF At, Positions, e

\* What an instruction makes of the registers that are set.
InitStep(i, init) ==
  IF ~Writes(i) THEN init
  ELSE IF WrittenKind(i.op) = "Unset" THEN init \ {i.regs[1]}
  ELSE init \cup {i.regs[1]}

\* What the instructions of a span make of the registers, one after the other.
InitRun(f, body, init) == f[0] = init /\ \A k \in 1 .. Len(body) : f[k] = InitStep(body[k], f[k - 1])

\* A span applies its instructions so.
LEMMA InitTransferIs ==
  ASSUME NEW body, Len(body) \in Nat, NEW init
  PROVE  \E f : InitRun(f, body, init) /\ InitTransfer(body, init) = f[Len(body)]
<1> DEFINE n == Len(body)
           named == {body[k].regs[1] : k \in 1 .. n}
           S == SUBSET (init \cup named)
           step == [a \in (1 .. n) \X S |-> InitStep(body[a[1]], a[2])]
           Solves(g) == g = [k \in 0 .. n |->
                               IF k = 0 THEN init
                               ELSE IF ~Writes(body[k]) THEN g[k - 1]
                               ELSE IF WrittenKind(body[k].op) = "Unset" THEN g[k - 1] \ {body[k].regs[1]}
                               ELSE g[k - 1] \cup {body[k].regs[1]}]
           along == CHOOSE g : Solves(g)
<1>1. 0 \in Int /\ n \in Int /\ 0 <= n /\ 0 + 1 = 1
  OBVIOUS
<1>2. init \in S /\ step \in Steps(0, n, S)
  <2>1. ASSUME NEW k \in 1 .. n, NEW s \in S PROVE InitStep(body[k], s) \in S
    <3>1. body[k].regs[1] \in named
      OBVIOUS
    <3> HIDE DEF named
    <3> QED  BY <3>1 DEF InitStep
  <2> HIDE DEF S
  <2>2. step \in [(1 .. n) \X S -> S]
    BY <2>1
  <2> HIDE DEF step
  <2> QED  BY <1>1, <2>2 DEF Steps, S
<1>3. PICK f : Iterates(f, 0, n, S, init, step)
  <2> HIDE DEF step, S
  <2> QED  BY <1>1, <1>2, Recursion
<1>4. /\ f \in [0 .. n -> S] /\ f[0] = init
      /\ \A k \in 1 .. n : f[k - 1] \in S /\ f[k] = step[<<k, f[k - 1]>>]
  <2> HIDE DEF step, S
  <2> QED  BY <1>1, <1>3 DEF Iterates
<1>5. \A k \in 1 .. n : f[k] = InitStep(body[k], f[k - 1])
  <2> HIDE DEF S
  <2> QED  BY <1>4
<1>6. Solves(f)
  <2> HIDE DEF S, step
  <2>1. f = [k \in 0 .. n |-> f[k]] /\ \A k \in 0 .. n : k = 0 \/ k \in 1 .. n
    BY <1>4
  <2> QED  BY <1>4, <1>5, <2>1 DEF InitStep
<1>7. Solves(along)
  <2> HIDE DEF Solves
  <2> QED  BY <1>6
<1>8. InitTransfer(body, init) = along[n]
  BY Zenon DEF InitTransfer
<1> HIDE DEF along, S, step, named
<1>9. /\ 0 \in 0 .. n /\ \A k \in 1 .. n : k \in 0 .. n /\ k # 0
  OBVIOUS
<1>10. InitRun(along, body, init)
  BY <1>7, <1>9 DEF InitStep, InitRun
<1> QED  BY <1>8, <1>10, Zenon

\* What the prefixes of a span write, one after another.
InitGrows(body, init) ==
  /\ InitTransfer(SubSeq(body, 1, 0), init) = init
  /\ \A k \in 1 .. Len(body) : InitTransfer(SubSeq(body, 1, k), init)
                                = InitStep(body[k], InitTransfer(SubSeq(body, 1, k - 1), init))
  /\ InitTransfer(SubSeq(body, 1, Len(body)), init) = InitTransfer(body, init)

\* Each prefix writes what its last instruction adds to the one before.
LEMMA InitPrefixes ==
  ASSUME NEW body, IsSeq(body), NEW init
  PROVE  InitGrows(body, init)
<1>0. PICK n : n = Len(body)
  OBVIOUS
<1> DEFINE S == {body[i] : i \in DOMAIN body}
<1>1. body \in Seq(S) /\ n \in Nat
  BY <1>0 DEF IsSeq
<1> HIDE DEF S
<1>2. PICK f : InitRun(f, body, init) /\ InitTransfer(body, init) = f[Len(body)]
  <2>1. Len(body) \in Nat
    BY <1>0, <1>1
  <2> QED  BY <2>1, InitTransferIs, Zenon
<1>3. ASSUME NEW m \in 0 .. n PROVE InitTransfer(SubSeq(body, 1, m), init) = f[m]
  <2> DEFINE part == SubSeq(body, 1, m)
  <2>1. m \in Nat /\ Len(part) = m /\ \A k \in 1 .. m : part[k] = body[k]
    BY <1>0, <1>1
  <2> HIDE DEF part
  <2>2. PICK g : InitRun(g, part, init) /\ InitTransfer(part, init) = g[Len(part)]
    <3>1. Len(part) \in Nat
      BY <2>1
    <3> QED  BY <3>1, InitTransferIs, Zenon
  <2> DEFINE Q == {k \in 0 .. m : g[k] = f[k]}
  <2>3. 0 \in Q
    BY <1>2, <2>1, <2>2 DEF InitRun
  <2>4. \A k \in 0 .. (m - 1) : k \in Q => k + 1 \in Q
    <3> SUFFICES ASSUME NEW k \in 0 .. (m - 1), k \in Q PROVE k + 1 \in Q
      OBVIOUS
    <3>1. k + 1 \in 1 .. m /\ k + 1 \in 1 .. n /\ k + 1 \in 0 .. m /\ (k + 1) - 1 = k
      BY <1>1, <2>1
    <3>2. g[k + 1] = InitStep(body[k + 1], g[k]) /\ f[k + 1] = InitStep(body[k + 1], f[k])
      BY <1>0, <1>2, <2>1, <2>2, <3>1 DEF InitRun
    <3> QED  BY <3>1, <3>2
  <2>5. 0 \in Int /\ m \in Int /\ m \in 0 .. m
    BY <2>1
  <2> HIDE DEF Q
  <2>6. \A k \in 0 .. m : k \in Q
    BY <2>3, <2>4, <2>5, Upward, Zenon
  <2>7. g[m] = f[m]
    BY <2>5, <2>6 DEF Q
  <2> QED  BY <2>1, <2>2, <2>7 DEF part
<1>4. 0 \in 0 .. n /\ n \in 0 .. n /\ \A k \in 1 .. n : k \in 0 .. n /\ k - 1 \in 0 .. n
  BY <1>1
<1> QED  BY <1>0, <1>2, <1>3, <1>4 DEF InitRun, InitGrows

Typings == [Registers -> RegTypes]

\* What an instruction writes is a type of the analysis.
LEMMA WrittenType == ASSUME NEW op PROVE WrittenKind(op) \in RegTypes \cup {"None"}
BY DEF WrittenKind, RegTypes, Grids, Vecs

\* A write concerns its own register.
LEMMA ApplyWritesIs ==
  ASSUME NEW i, NEW types \in Typings
  PROVE  /\ ApplyWrites(i, types) \in Typings
         /\ \A r \in Registers : ApplyWrites(i, types)[r] =
              IF Writes(i) /\ i.regs[1] = r THEN WrittenKind(i.op) ELSE types[r]
<1>1. Writes(i) => WrittenKind(i.op) \in RegTypes
  BY WrittenType DEF Writes
<1>2. DOMAIN types = Registers /\ \A r \in Registers : types[r] \in RegTypes
  BY DEF Typings
<1>3. ApplyWrites(i, types) = IF Writes(i) THEN [types EXCEPT ![i.regs[1]] = WrittenKind(i.op)] ELSE types
  BY DEF ApplyWrites
<1>4. \A r \in Registers : ApplyWrites(i, types)[r] =
        IF Writes(i) /\ i.regs[1] = r THEN WrittenKind(i.op) ELSE types[r]
  BY <1>2, <1>3
<1>5. ApplyWrites(i, types) \in Typings
  BY <1>1, <1>3 DEF Typings
<1> QED  BY <1>4, <1>5

\* The types of a span are what its instructions make of each other.
LEMMA TypesAlongIs ==
  ASSUME NEW n \in Nat, NEW body, Len(body) = n, NEW types \in Typings,
         NEW along, along = TypesAlong(body, types)
  PROVE  /\ along[0] = types
         /\ \A k \in 0 .. n : along[k] \in Typings
         /\ \A k \in 1 .. n : along[k] = ApplyWrites(body[k], along[k - 1])
<1> DEFINE step == [a \in (1 .. n) \X Typings |-> ApplyWrites(body[a[1]], a[2])]
           Solves(g) == g = [k \in 0 .. n |-> IF k = 0 THEN types ELSE ApplyWrites(body[k], g[k - 1])]
           run == CHOOSE g : Solves(g)
<1>1. 0 \in Int /\ n \in Int /\ 0 <= n /\ 0 + 1 = 1
  OBVIOUS
<1>2. step \in Steps(0, n, Typings)
  <2>1. step \in [(1 .. n) \X Typings -> Typings]
    BY ApplyWritesIs
  <2> HIDE DEF step
  <2> QED  BY <1>1, <2>1 DEF Steps
<1>3. PICK f : Iterates(f, 0, n, Typings, types, step)
  <2> HIDE DEF step
  <2> QED  BY <1>1, <1>2, Recursion
<1>4. /\ f \in [0 .. n -> Typings] /\ f[0] = types
      /\ \A k \in 1 .. n : f[k - 1] \in Typings /\ f[k] = step[<<k, f[k - 1]>>]
  <2> HIDE DEF step
  <2> QED  BY <1>1, <1>3 DEF Iterates
<1>5. \A k \in 1 .. n : f[k] = ApplyWrites(body[k], f[k - 1])
  BY <1>4
<1>6. Solves(f)
  <2>1. f = [k \in 0 .. n |-> f[k]] /\ \A k \in 0 .. n : k = 0 \/ k \in 1 .. n
    BY <1>4
  <2> QED  BY <1>4, <1>5, <2>1
<1>7. Solves(run)
  <2> HIDE DEF Solves
  <2> QED  BY <1>6
<1>8. along = run
  BY Zenon DEF TypesAlong
<1> HIDE DEF run, step
<1>9. \A k \in 0 .. n : along[k] = IF k = 0 THEN types ELSE ApplyWrites(body[k], along[k - 1])
  BY <1>7, <1>8
<1>10. /\ 0 \in 0 .. n /\ \A k \in 1 .. n : k \in 0 .. n /\ k # 0
  OBVIOUS
<1>11. along[0] = types /\ \A k \in 1 .. n : along[k] = ApplyWrites(body[k], along[k - 1])
  BY <1>9, <1>10
<1> DEFINE Q == {k \in 0 .. n : along[k] \in Typings}
<1>12. 0 \in Q
  BY <1>10, <1>11
<1>13. \A k \in 0 .. (n - 1) : k \in Q => k + 1 \in Q
  <2> SUFFICES ASSUME NEW k \in 0 .. (n - 1), k \in Q PROVE k + 1 \in Q
    OBVIOUS
  <2>1. k + 1 \in 1 .. n /\ k + 1 \in 0 .. n /\ (k + 1) - 1 = k
    OBVIOUS
  <2>2. along[k + 1] = ApplyWrites(body[k + 1], along[k]) /\ along[k] \in Typings
    BY <1>11, <2>1
  <2>3. along[k + 1] \in Typings
    BY <2>2, ApplyWritesIs
  <2> QED  BY <2>1, <2>3
<1> HIDE DEF Q
<1>14. \A k \in 0 .. n : k \in Q
  BY <1>1, <1>12, <1>13, Upward, Zenon
<1> QED  BY <1>11, <1>14 DEF Q

\* The transfer of a span is its last typing, when it is reached.
LEMMA TypesTransferIs ==
  ASSUME NEW n \in Nat, NEW body, Len(body) = n, NEW types \in Typings
  PROVE  /\ TypesTransfer(body, types) \in Typings
         /\ types # AllRegisters("Any") => TypesTransfer(body, types) = TypesAlong(body, types)[n]
         /\ types = AllRegisters("Any") => TypesTransfer(body, types) = types
<1>1. n \in 0 .. n
  OBVIOUS
<1>2. TypesAlong(body, types)[n] \in Typings
  BY <1>1, TypesAlongIs
<1> QED  BY <1>2 DEF TypesTransfer

\* A span that does not write a register leaves it out of both analyses.
LEMMA SpareAlong ==
  ASSUME NEW n \in Nat, NEW body, Len(body) = n, NEW types \in Typings, NEW init, NEW r \in Registers,
         \A k \in 1 .. n : Writes(body[k]) => body[k].regs[1] # r
  PROVE  /\ TypesTransfer(body, types)[r] = types[r]
         /\ r \in InitTransfer(body, init) => r \in init
<1> DEFINE along == TypesAlong(body, types)
           Q == {k \in 0 .. n : along[k][r] = types[r]}
<1>1. /\ along[0] = types
      /\ \A k \in 0 .. n : along[k] \in Typings
      /\ \A k \in 1 .. n : along[k] = ApplyWrites(body[k], along[k - 1])
  BY TypesAlongIs
<1>2. 0 \in Int /\ n \in Int /\ n \in 0 .. n /\ 0 \in 0 .. n
  OBVIOUS
<1> HIDE DEF along
<1>3. 0 \in Q
  BY <1>1, <1>2
<1>4. \A k \in 0 .. (n - 1) : k \in Q => k + 1 \in Q
  <2> SUFFICES ASSUME NEW k \in 0 .. (n - 1), k \in Q PROVE k + 1 \in Q
    OBVIOUS
  <2>1. k + 1 \in 1 .. n /\ k + 1 \in 0 .. n /\ k \in 0 .. n /\ (k + 1) - 1 = k
    OBVIOUS
  <2>2. along[k + 1] = ApplyWrites(body[k + 1], along[k]) /\ along[k] \in Typings /\ along[k][r] = types[r]
    BY <1>1, <2>1
  <2>3. along[k + 1][r] = along[k][r]
    BY <2>1, <2>2, ApplyWritesIs
  <2> QED  BY <2>1, <2>2, <2>3
<1>5. along[n][r] = types[r]
  <2> HIDE DEF Q
  <2>1. \A k \in 0 .. n : k \in Q
    BY <1>2, <1>3, <1>4, Upward, Zenon
  <2> QED  BY <1>2, <2>1 DEF Q
<1>6. TypesTransfer(body, types)[r] = types[r]
  BY <1>5, TypesTransferIs DEF along
<1>7. ASSUME r \in InitTransfer(body, init) PROVE r \in init
  <2>1. PICK f : InitRun(f, body, init) /\ InitTransfer(body, init) = f[Len(body)]
    <3>1. Len(body) \in Nat
      OBVIOUS
    <3> QED  BY <3>1, InitTransferIs, Zenon
  <2> DEFINE P == {k \in 0 .. n : r \in f[k] => r \in init}
  <2>2. 0 \in P
    BY <1>2, <2>1 DEF InitRun
  <2>3. \A k \in 0 .. (n - 1) : k \in P => k + 1 \in P
    <3> SUFFICES ASSUME NEW k \in 0 .. (n - 1), k \in P PROVE k + 1 \in P
      OBVIOUS
    <3>1. k + 1 \in 1 .. n /\ k + 1 \in 0 .. n /\ (k + 1) - 1 = k
      OBVIOUS
    <3>2. f[k + 1] = InitStep(body[k + 1], f[k])
      BY <2>1, <3>1 DEF InitRun
    <3>3. r \in f[k + 1] => r \in f[k]
      BY <3>1, <3>2 DEF InitStep
    <3> QED  BY <3>1, <3>3
  <2> HIDE DEF P
  <2>4. \A k \in 0 .. n : k \in P
    BY <1>2, <2>2, <2>3, Upward, Zenon
  <2> QED  BY <1>2, <1>7, <2>1, <2>4 DEF P
<1> QED  BY <1>6, <1>7

\* Where every register found written has a type, so it is behind a span.
LEMMA TypedAlong ==
  ASSUME NEW n \in Nat, NEW body, Len(body) = n, NEW types \in Typings, NEW init,
         \A r \in Registers : r \in init => types[r] # "Unset"
  PROVE  \A r \in Registers : r \in InitTransfer(body, init) => TypesTransfer(body, types)[r] # "Unset"
<1>1. CASE types = AllRegisters("Any")
  <2>1. \A r \in Registers : types[r] = "Any"
    BY <1>1 DEF AllRegisters
  <2>2. TypesTransfer(body, types) = types
    BY <1>1, TypesTransferIs
  <2> QED  BY <2>1, <2>2
<1>2. CASE types # AllRegisters("Any")
  <2> DEFINE along == TypesAlong(body, types)
  <2>1. /\ along[0] = types
        /\ \A k \in 0 .. n : along[k] \in Typings
        /\ \A k \in 1 .. n : along[k] = ApplyWrites(body[k], along[k - 1])
    BY TypesAlongIs
  <2>2. TypesTransfer(body, types) = along[n]
    BY <1>2, TypesTransferIs
  <2> HIDE DEF along
  <2>3. PICK f : InitRun(f, body, init) /\ InitTransfer(body, init) = f[Len(body)]
    <3>1. Len(body) \in Nat
      OBVIOUS
    <3> QED  BY <3>1, InitTransferIs, Zenon
  <2> DEFINE Q == {k \in 0 .. n : \A r \in Registers : r \in f[k] => along[k][r] # "Unset"}
  <2>4. 0 \in Int /\ n \in Int /\ n \in 0 .. n /\ 0 \in 0 .. n
    OBVIOUS
  <2>5. 0 \in Q
    BY <2>1, <2>3, <2>4 DEF InitRun
  <2>6. \A k \in 0 .. (n - 1) : k \in Q => k + 1 \in Q
    <3> SUFFICES ASSUME NEW k \in 0 .. (n - 1), k \in Q PROVE k + 1 \in Q
      OBVIOUS
    <3>1. k + 1 \in 1 .. n /\ k + 1 \in 0 .. n /\ k \in 0 .. n /\ (k + 1) - 1 = k
      OBVIOUS
    <3>2. /\ along[k + 1] = ApplyWrites(body[k + 1], along[k]) /\ along[k] \in Typings
          /\ f[k + 1] = InitStep(body[k + 1], f[k])
          /\ \A r \in Registers : r \in f[k] => along[k][r] # "Unset"
      BY <2>1, <2>3, <3>1 DEF InitRun
    <3>3. ASSUME NEW r \in Registers, r \in f[k + 1] PROVE along[k + 1][r] # "Unset"
      <4>1. along[k + 1][r] = IF Writes(body[k + 1]) /\ body[k + 1].regs[1] = r
                                THEN WrittenKind(body[k + 1].op) ELSE along[k][r]
        BY <3>2, ApplyWritesIs
      <4> QED  BY <3>2, <3>3, <4>1 DEF InitStep
    <3> QED  BY <3>1, <3>3
  <2> HIDE DEF Q
  <2>7. \A k \in 0 .. n : k \in Q
    BY <2>4, <2>5, <2>6, Upward, Zenon
  <2> QED  BY <2>2, <2>3, <2>4, <2>7 DEF Q
<1> QED  BY <1>1, <1>2

-----------------------------------------------------------------------------
(* What the registers hold where paths meet. *)

\* Types that the meet keeps to themselves, and those that one branch passes on.
MeetClosed(A) == "Any" \in A /\ A \subseteq RegTypes /\ \A a, x \in A : MeetReg(a, x) \in A
Passes(A, G) == G \subseteq A /\ \A a, x \in A : a \in G \/ x \in G => MeetReg(a, x) \in G

\* The meet of all that arrives.
Met(j, arriving) == Solver!MeetAll(j, arriving)

\* Folded over a join, too.
LEMMA TypesMeet ==
  ASSUME NEW j, j.kind = "types", NEW arriving, Len(arriving) \in Nat, NEW all, all = Met(j, arriving),
         \A i \in 1 .. Len(arriving) : arriving[i] \in Typings
  PROVE  /\ all \in Typings
         /\ \A r \in Registers : \A A, G : MeetClosed(A) /\ Passes(A, G) /\ (\A i \in 1 .. Len(arriving) : arriving[i][r] \in A) =>
              all[r] \in A /\ ((\E i \in 1 .. Len(arriving) : arriving[i][r] \in G) => all[r] \in G)
<1> DEFINE n == Len(arriving)
<1>1. JobTop(j) = AllRegisters("Any") /\ \A a, x : JobMeet(j, a, x) = [r \in Registers |-> MeetReg(a[r], x[r])]
  BY DEF JobTop, JobMeet
<1>2. JobTop(j) \in Typings
  BY <1>1 DEF Typings, AllRegisters, RegTypes
<1>3. \A a, x \in RegTypes : MeetReg(a, x) \in RegTypes
  BY DEF MeetReg, RegTypes, Grids, Vecs
<1>4. \A a \in Typings : \A i \in 1 .. n : JobMeet(j, a, arriving[i]) \in Typings
  BY <1>1, <1>3 DEF Typings
<1>5. PICK f : Folds(j, arriving, n, Typings, f) /\ all = f[n]
  BY <1>2, <1>4, MeetAllIs DEF Met
<1>a. n \in Nat
  OBVIOUS
<1> HIDE DEF n
<1>6. /\ 0 \in Int /\ n \in Int /\ n \in 0 .. n /\ 0 \in 0 .. n
      /\ \A k \in 0 .. (n - 1) : k + 1 \in 1 .. n /\ k + 1 \in 0 .. n /\ k \in 0 .. n /\ (k + 1) - 1 = k
  BY <1>a
<1>7. /\ f[0] = AllRegisters("Any") /\ \A k \in 0 .. n : f[k] \in Typings
      /\ \A k \in 0 .. (n - 1) : f[k + 1] = [r \in Registers |-> MeetReg(f[k][r], arriving[k + 1][r])]
  <2>1. \A k \in 0 .. (n - 1) : f[k + 1] = JobMeet(j, f[k], arriving[k + 1])
    BY <1>5, <1>6 DEF Folds
  <2> QED  BY <1>1, <1>5, <2>1 DEF Folds
<1>8. ASSUME NEW r \in Registers, NEW A, NEW G, MeetClosed(A), Passes(A, G), \A i \in 1 .. n : arriving[i][r] \in A
      PROVE  all[r] \in A /\ ((\E i \in 1 .. n : arriving[i][r] \in G) => all[r] \in G)
  <2>0. \A k \in 0 .. (n - 1) : f[k + 1][r] = MeetReg(f[k][r], arriving[k + 1][r])
    BY <1>7
  <2> DEFINE Q == {k \in 0 .. n : f[k][r] \in A /\ \A i \in 1 .. k : arriving[i][r] \in G => f[k][r] \in G}
  <2>1. 0 \in Q
    <3>1. 1 .. 0 = {}
      OBVIOUS
    <3>2. f[0][r] = "Any"
      BY <1>7 DEF AllRegisters
    <3> QED  BY <1>6, <1>8, <3>1, <3>2 DEF MeetClosed
  <2>2. \A k \in 0 .. (n - 1) : k \in Q => k + 1 \in Q
    <3> SUFFICES ASSUME NEW k \in 0 .. (n - 1), k \in Q PROVE k + 1 \in Q
      OBVIOUS
    <3>1. f[k + 1][r] = MeetReg(f[k][r], arriving[k + 1][r])
      BY <2>0
    <3>2. f[k][r] \in A /\ arriving[k + 1][r] \in A
      <4>1. k + 1 \in 1 .. n
        BY <1>6
      <4> QED  BY <1>8, <4>1
    <3>3. f[k + 1][r] \in A
      BY <1>8, <3>1, <3>2 DEF MeetClosed
    <3>4. ASSUME NEW i \in 1 .. (k + 1), arriving[i][r] \in G PROVE f[k + 1][r] \in G
      <4>1. i = k + 1 \/ i \in 1 .. k
        BY <1>a
      <4>2. f[k][r] \in G \/ arriving[k + 1][r] \in G
        BY <3>4, <4>1
      <4> QED  BY <1>8, <3>1, <3>2, <4>2 DEF Passes
    <3> QED  BY <1>6, <3>3, <3>4
  <2> HIDE DEF Q
  <2>3. \A k \in 0 .. n : k \in Q
    BY <1>6, <2>1, <2>2, Upward, Zenon
  <2> QED  BY <1>5, <1>6, <2>3 DEF Q
<1>9. all \in Typings
  BY <1>5, <1>6, <1>7
<1> QED  BY <1>8, <1>9 DEF n

\* Only what every branch wrote is written behind a join.
LEMMA InitMeets ==
  ASSUME NEW j, j.kind = "init", NEW arriving, Len(arriving) \in Nat, NEW all, all = Met(j, arriving)
  PROVE  all \subseteq Registers /\ \A i \in 1 .. Len(arriving) : all \subseteq arriving[i]
<1> DEFINE n == Len(arriving)
           S == SUBSET Registers
<1>1. JobTop(j) = Registers /\ \A a, x : JobMeet(j, a, x) = a \cap x
  BY DEF JobTop, JobMeet
<1>2. JobTop(j) \in S /\ \A a \in S : \A i \in 1 .. n : JobMeet(j, a, arriving[i]) \in S
  BY <1>1
<1>3. PICK f : Folds(j, arriving, n, S, f) /\ all = f[n]
  <2> HIDE DEF S
  <2> QED  BY <1>2, MeetAllIs DEF Met
<1>a. n \in Nat
  OBVIOUS
<1> HIDE DEF n
<1>4. /\ 0 \in Int /\ n \in Int /\ n \in 0 .. n /\ 0 \in 0 .. n
      /\ \A k \in 0 .. (n - 1) : k + 1 \in 1 .. n /\ k + 1 \in 0 .. n /\ k \in 0 .. n /\ (k + 1) - 1 = k
  BY <1>a
<1>5. /\ \A k \in 0 .. n : f[k] \in S
      /\ \A k \in 0 .. (n - 1) : f[k + 1] = f[k] \cap arriving[k + 1]
  <2>1. \A k \in 0 .. (n - 1) : f[k + 1] = JobMeet(j, f[k], arriving[k + 1])
    BY <1>3, <1>4 DEF Folds
  <2> QED  BY <1>1, <1>3, <2>1 DEF Folds
<1> DEFINE Q == {k \in 0 .. n : \A i \in 1 .. k : f[k] \subseteq arriving[i]}
<1>6. 0 \in Q
  <2>1. 1 .. 0 = {}
    OBVIOUS
  <2> QED  BY <1>4, <2>1
<1>7. \A k \in 0 .. (n - 1) : k \in Q => k + 1 \in Q
  <2> SUFFICES ASSUME NEW k \in 0 .. (n - 1), k \in Q PROVE k + 1 \in Q
    OBVIOUS
  <2>1. \A i \in 1 .. (k + 1) : i = k + 1 \/ i \in 1 .. k
    OBVIOUS
  <2>2. f[k + 1] = f[k] \cap arriving[k + 1]
    BY <1>5
  <2> QED  BY <1>4, <2>1, <2>2
<1> HIDE DEF Q
<1>8. \A k \in 0 .. n : k \in Q
  BY <1>4, <1>6, <1>7, Upward, Zenon
<1>9. all \in S /\ \A i \in 1 .. n : all \subseteq arriving[i]
  BY <1>3, <1>4, <1>5, <1>8 DEF Q
<1> QED  BY <1>9 DEF n

-----------------------------------------------------------------------------
(* The register phases on the graph of a program. *)

\* The code of a node, the blocks that lead to it, and the values it is entered with.
Span(code, n) == SubSeq(code, n + 1, SpanEnd(code, Graph(code), n))
From(code, n) == ToSet(Graph(code).preds[n])
EntryState(kind, code, st, n) == Solver!Before(Task(kind, code), st, n)
EntryTypes(code, T, n) == EntryState("types", code, T, n)
EntryInit(code, F, n) == EntryState("init", code, F, n)

\* Both phases read the same code of a node.
LEMMA SpansAre ==
  ASSUME NEW code, Charted(code), NEW n \in Blocks(code), NEW body, body = Span(code, n)
  PROVE  /\ n \in Leaders(code) /\ n \in Nat
         /\ IsSeq(body) /\ Len(body) = BlockEnd(code, n) - n /\ Len(body) \in Nat
         /\ \A k \in 1 .. Len(body) : body[k] = At(code, n + k - 1) /\ n + k - 1 \in Positions(code)
         /\ \A x : JobTransfer(Task("types", code), n, x) = TypesTransfer(body, x)
         /\ \A x : JobTransfer(Task("init", code), n, x) = InitTransfer(body, x)
<1>0. Len(code) \in Nat /\ ScanAccepts(code)
  BY ChartedIs
<1>1. n \in Leaders(code) /\ n \in Nat
  BY <1>0, GraphIs, LeadersType DEF Blocks
<1>2. PICK j : j = Task("types", code)
  OBVIOUS
<1>3. PICK i : i = Task("init", code)
  OBVIOUS
<1>4. j.kind = "types" /\ j.body[n] = body
  <2>1. "types" # "depth"
    OBVIOUS
  <2> QED  BY <1>0, <1>2, <2>1, TaskIs DEF Span, Blocks
<1>5. i.kind = "init" /\ i.body[n] = body
  <2>1. "init" # "depth"
    OBVIOUS
  <2> QED  BY <1>0, <1>3, <2>1, TaskIs DEF Span, Blocks
<1>6. /\ \A x : JobTransfer(j, n, x) = TypesTransfer(body, x)
      /\ \A x : JobTransfer(i, n, x) = InitTransfer(body, x)
  BY <1>4, <1>5 DEF JobTransfer
<1>7. /\ IsSeq(body) /\ Len(body) = BlockEnd(code, n) - n /\ Len(body) \in Nat
      /\ \A k \in 1 .. Len(body) : body[k] = At(code, n + k - 1) /\ n + k - 1 \in Positions(code)
  <2>1. "types" # "depth"
    OBVIOUS
  <2> QED  BY <1>1, <1>2, <1>4, <2>1, SpanIs
<1> QED  BY <1>1, <1>2, <1>3, <1>6, <1>7

\* What arrives at a node is what the blocks that lead to it left.
Arrives(code, n, st, arriving) ==
  /\ Len(arriving) \in Nat
  /\ From(code, n) \subseteq Blocks(code)
  /\ \A i \in 1 .. Len(arriving) : \E p \in From(code, n) : arriving[i] = st[p]
  /\ \A p \in From(code, n) : \E i \in 1 .. Len(arriving) : arriving[i] = st[p]

\* A node other than the entry is entered with the meet of that.
LEMMA FromIs ==
  ASSUME NEW code, Len(code) \in Nat, ScanAccepts(code), NEW n \in Blocks(code), n # 0, NEW kind, NEW st
  PROVE  \E arriving : Arrives(code, n, st, arriving) /\ EntryState(kind, code, st, n) = Met(Task(kind, code), arriving)
<1>0. PICK s : s = Graph(code).preds[n]
  OBVIOUS
<1>1. PICK j : j = Task(kind, code)
  OBVIOUS
<1>2. PICK arriving : arriving = Solver!Arriving(j, st, n)
  OBVIOUS
<1>3. j.entry = 0 /\ j.preds[n] = s
  BY <1>0, <1>1 DEF Task, JobFor, Graph
<1>4. s \in Seq(Blocks(code))
  BY <1>0, GraphIs DEF Blocks
<1>5. Len(s) \in Nat /\ DOMAIN s = 1 .. Len(s) /\ From(code, n) = ToSet(s)
  BY <1>0, <1>4 DEF From
<1>6. arriving = [i \in 1 .. Len(s) |-> st[s[i]]]
  BY <1>2, <1>3, <1>5 DEF Solver!Arriving
<1>7. Len(arriving) = Len(s) /\ \A i \in 1 .. Len(s) : arriving[i] = st[s[i]]
  BY <1>5, <1>6
<1>8. ToSet(s) = {s[i] : i \in 1 .. Len(s)} /\ ToSet(s) \subseteq Blocks(code)
  BY <1>4, <1>5 DEF ToSet
<1>9. Arrives(code, n, st, arriving)
  BY <1>5, <1>7, <1>8 DEF Arrives
<1>10. EntryState(kind, code, st, n) = Met(j, arriving)
  BY <1>1, <1>2, <1>3 DEF Solver!Before, Met, EntryState
<1> QED  BY <1>1, <1>9, <1>10, Zenon

\* A node is entered with what its predecessors left, the entry with nothing set.
LEMMA TypesEnter ==
  ASSUME NEW code, Len(code) \in Nat, ScanAccepts(code), NEW n \in Blocks(code),
         NEW T, \A p \in Blocks(code) : T[p] \in Typings
  PROVE  /\ EntryTypes(code, T, n) \in Typings
         /\ n = 0 => EntryTypes(code, T, n) = AllRegisters("Unset")
         /\ n # 0 => \A r \in Registers : \A A, G :
              MeetClosed(A) /\ Passes(A, G) /\ (\A p \in From(code, n) : T[p][r] \in A) =>
                /\ EntryTypes(code, T, n)[r] \in A
                /\ (\E p \in From(code, n) : T[p][r] \in G) => EntryTypes(code, T, n)[r] \in G
<1>1. PICK j : j = Task("types", code)
  OBVIOUS
<1>2. PICK entered : entered = EntryTypes(code, T, n)
  OBVIOUS
<1>3. entered = Solver!Before(j, T, n)
  BY <1>1, <1>2 DEF EntryTypes, EntryState
<1>4. CASE n = 0
  <2>1. j.entry = 0 /\ j.kind = "types"
    BY <1>1 DEF Task, JobFor, Graph
  <2>2. entered = AllRegisters("Unset")
    BY <1>3, <1>4, <2>1 DEF Solver!Before, JobBoundary
  <2>3. AllRegisters("Unset") \in Typings
    BY DEF AllRegisters, Typings, RegTypes
  <2> QED  BY <1>2, <1>4, <2>2, <2>3
<1>5. CASE n # 0
  <2>1. PICK arriving : Arrives(code, n, T, arriving) /\ EntryState("types", code, T, n) = Met(j, arriving)
    BY <1>1, <1>5, FromIs, Zenon
  <2>2. entered = Met(j, arriving) /\ j.kind = "types"
    BY <1>1, <1>2, <2>1 DEF EntryTypes, Task, JobFor
  <2>3. Len(arriving) \in Nat /\ \A i \in 1 .. Len(arriving) : arriving[i] \in Typings
    BY <2>1 DEF Arrives
  <2>4. /\ entered \in Typings
        /\ \A r \in Registers : \A A, G : MeetClosed(A) /\ Passes(A, G) /\ (\A i \in 1 .. Len(arriving) : arriving[i][r] \in A) =>
             entered[r] \in A /\ ((\E i \in 1 .. Len(arriving) : arriving[i][r] \in G) => entered[r] \in G)
    BY <2>2, <2>3, TypesMeet
  <2>6. ASSUME NEW r \in Registers, NEW A, NEW G, MeetClosed(A), Passes(A, G),
               \A p \in From(code, n) : T[p][r] \in A
        PROVE  entered[r] \in A /\ ((\E p \in From(code, n) : T[p][r] \in G) => entered[r] \in G)
    <3>1. \A i \in 1 .. Len(arriving) : arriving[i][r] \in A
      BY <2>1, <2>6 DEF Arrives
    <3>2. (\E p \in From(code, n) : T[p][r] \in G) => \E i \in 1 .. Len(arriving) : arriving[i][r] \in G
      <4> SUFFICES ASSUME NEW p \in From(code, n), T[p][r] \in G
                   PROVE  \E i \in 1 .. Len(arriving) : arriving[i][r] \in G
        OBVIOUS
      <4>1. PICK i \in 1 .. Len(arriving) : arriving[i] = T[p]
        BY <2>1 DEF Arrives
      <4> QED  BY <4>1
    <3> QED  BY <2>4, <2>6, <3>1, <3>2
  <2> QED  BY <1>2, <1>5, <2>4, <2>6
<1> QED  BY <1>4, <1>5

\* A node is entered with no more than each of its predecessors left written,
\* the entry with nothing.
LEMMA InitEnters ==
  ASSUME NEW code, Len(code) \in Nat, ScanAccepts(code), NEW n \in Blocks(code), NEW F
  PROVE  /\ EntryInit(code, F, n) \subseteq Registers
         /\ n = 0 => EntryInit(code, F, n) = {}
         /\ n # 0 => \A p \in From(code, n) : EntryInit(code, F, n) \subseteq F[p]
<1>1. PICK j : j = Task("init", code)
  OBVIOUS
<1>2. PICK entered : entered = EntryInit(code, F, n)
  OBVIOUS
<1>3. entered = Solver!Before(j, F, n)
  BY <1>1, <1>2 DEF EntryInit, EntryState
<1>4. CASE n = 0
  <2>1. j.entry = 0 /\ j.kind = "init"
    BY <1>1 DEF Task, JobFor, Graph
  <2>2. entered = {}
    BY <1>3, <1>4, <2>1 DEF Solver!Before, JobBoundary
  <2> QED  BY <1>2, <1>4, <2>2
<1>5. CASE n # 0
  <2>1. PICK arriving : Arrives(code, n, F, arriving) /\ EntryState("init", code, F, n) = Met(j, arriving)
    BY <1>1, <1>5, FromIs, Zenon
  <2>2. entered = Met(j, arriving) /\ j.kind = "init"
    BY <1>1, <1>2, <2>1 DEF EntryInit, Task, JobFor
  <2>3. Len(arriving) \in Nat
    BY <2>1 DEF Arrives
  <2>4. entered \subseteq Registers /\ \A i \in 1 .. Len(arriving) : entered \subseteq arriving[i]
    BY <2>2, <2>3, InitMeets
  <2>5. ASSUME NEW p \in From(code, n) PROVE entered \subseteq F[p]
    <3>1. PICK i \in 1 .. Len(arriving) : arriving[i] = F[p]
      BY <2>1 DEF Arrives
    <3> QED  BY <2>4, <3>1
  <2> QED  BY <1>2, <1>5, <2>4, <2>5
<1> QED  BY <1>4, <1>5

-----------------------------------------------------------------------------
(* The types that the first register phase settles on. *)

\* The kinds of a value that is set, and the types that stand for them.
SetKinds == {"Int", "VecInt", "VecXqmx", "Model", "Sample"}
Covers(type, kind) ==
  /\ kind \in SetKinds
  /\ \/ type \in {kind, "Conflict"}
     \/ type = "Grid" /\ kind \in {"Model", "Sample"}
     \/ type = "AnyVec" /\ kind \in {"VecInt", "VecXqmx"}
Covering(kind) == {type \in RegTypes : Covers(type, kind)}

\* A register left alone on every branch is left alone behind the join.
LEMMA IdleMeets == MeetClosed({"Any", "Unset"}) /\ Passes({"Any", "Unset"}, {"Unset"})
BY DEF MeetClosed, Passes, MeetReg, RegTypes, Grids, Vecs

\* A register set on every branch has a type behind the join, one that covers
\* what any of the branches wrote.
LEMMA SetMeets ==
  /\ MeetClosed(RegTypes \ {"Unset"}) /\ Passes(RegTypes \ {"Unset"}, {})
  /\ \A kind \in SetKinds : Passes(RegTypes \ {"Unset"}, Covering(kind))
<1>1. MeetClosed(RegTypes \ {"Unset"}) /\ Passes(RegTypes \ {"Unset"}, {})
  BY DEF MeetClosed, Passes, MeetReg, RegTypes, Grids, Vecs
<1>2. Passes(RegTypes \ {"Unset"}, Covering("Int"))
  BY DEF Passes, Covering, Covers, SetKinds, MeetReg, RegTypes, Grids, Vecs
<1>3. Passes(RegTypes \ {"Unset"}, Covering("VecInt"))
  BY DEF Passes, Covering, Covers, SetKinds, MeetReg, RegTypes, Grids, Vecs
<1>4. Passes(RegTypes \ {"Unset"}, Covering("VecXqmx"))
  BY DEF Passes, Covering, Covers, SetKinds, MeetReg, RegTypes, Grids, Vecs
<1>5. Passes(RegTypes \ {"Unset"}, Covering("Model"))
  BY DEF Passes, Covering, Covers, SetKinds, MeetReg, RegTypes, Grids, Vecs
<1>6. Passes(RegTypes \ {"Unset"}, Covering("Sample"))
  BY DEF Passes, Covering, Covers, SetKinds, MeetReg, RegTypes, Grids, Vecs
<1> QED  BY <1>1, <1>2, <1>3, <1>4, <1>5, <1>6 DEF SetKinds

\* A register that no instruction writes.
Spare(code, r) ==
  r \in Registers /\ \A p \in Positions(code) : Writes(At(code, p)) => At(code, p).regs[1] # r

\* It stays unset in the types behind a node, unless no path there is known yet.
TypesOK(code, T) ==
  \A n \in Blocks(code) : T[n] \in Typings /\ \A r : Spare(code, r) => T[n][r] \in {"Any", "Unset"}

\* What the second phase will find written behind a node has a type there.
TypedBehind(code, T, n) ==
  \A F : Fixed(Task("init", code), F) => \A r \in Registers : r \in F[n] => T[n][r] # "Unset"

Tidy(code, T) == TypesOK(code, T) /\ \A n \in Blocks(code) : TypedBehind(code, T, n)

\* A node applies its span.
LEMMA NodeApplies ==
  ASSUME NEW code, Charted(code), NEW n \in Blocks(code)
  PROVE  /\ \A x : JobTransfer(Task("types", code), n, x) = TypesTransfer(Span(code, n), x)
         /\ \A x : JobTransfer(Task("init", code), n, x) = InitTransfer(Span(code, n), x)
<1>1. PICK body : body = Span(code, n)
  OBVIOUS
<1>2. /\ \A x : JobTransfer(Task("types", code), n, x) = TypesTransfer(body, x)
      /\ \A x : JobTransfer(Task("init", code), n, x) = InitTransfer(body, x)
  BY <1>1, SpansAre
<1> QED  BY <1>1, <1>2

\* A fixed point is the transfer of what its nodes are entered with.
LEMMA FixedIs ==
  ASSUME NEW code, Charted(code), NEW st, NEW n \in Blocks(code)
  PROVE  /\ Fixed(Task("types", code), st) => st[n] = TypesTransfer(Span(code, n), EntryTypes(code, st, n))
         /\ Fixed(Task("init", code), st) => st[n] = InitTransfer(Span(code, n), EntryInit(code, st, n))
<1>0. Len(code) \in Nat /\ ScanAccepts(code)
  BY ChartedIs
<1>1. PICK body : body = Span(code, n)
  OBVIOUS
<1>2. /\ \A x : JobTransfer(Task("types", code), n, x) = TypesTransfer(body, x)
      /\ \A x : JobTransfer(Task("init", code), n, x) = InitTransfer(body, x)
  BY <1>1, NodeApplies
<1>3. ASSUME NEW kind, NEW j, j = Task(kind, code), Fixed(j, st)
      PROVE  st[n] = JobTransfer(j, n, EntryState(kind, code, st, n))
  <2>1. Solver!Nodes(j) = Blocks(code)
    BY <1>0, <1>3, TaskIs DEF Blocks
  <2>2. st[n] = JobTransfer(j, n, Solver!Before(j, st, n))
    BY <1>3, <2>1 DEF Fixed
  <2> QED  BY <1>3, <2>2 DEF EntryState
<1>4. ASSUME Fixed(Task("types", code), st) PROVE st[n] = TypesTransfer(body, EntryTypes(code, st, n))
  <2>1. PICK j : j = Task("types", code)
    OBVIOUS
  <2>2. st[n] = JobTransfer(j, n, EntryState("types", code, st, n))
    BY <1>3, <1>4, <2>1
  <2> QED  BY <1>2, <2>1, <2>2 DEF EntryTypes
<1>5. ASSUME Fixed(Task("init", code), st) PROVE st[n] = InitTransfer(body, EntryInit(code, st, n))
  <2>1. PICK j : j = Task("init", code)
    OBVIOUS
  <2>2. st[n] = JobTransfer(j, n, EntryState("init", code, st, n))
    BY <1>3, <1>5, <2>1
  <2> QED  BY <1>2, <2>1, <2>2 DEF EntryInit
<1> QED  BY <1>1, <1>4, <1>5

\* The blocks that lead to a block are blocks.
LEMMA FromBlocks ==
  ASSUME NEW code, Len(code) \in Nat, ScanAccepts(code), NEW n \in Blocks(code)
  PROVE  From(code, n) \subseteq Blocks(code)
<1>1. PICK s : s = Graph(code).preds[n]
  OBVIOUS
<1>2. s \in Seq(Blocks(code))
  BY <1>1, GraphIs DEF Blocks
<1> QED  BY <1>1, <1>2 DEF From, ToSet

\* The span of a node leaves a spare register alone.
LEMMA SpareSpan ==
  ASSUME NEW code, Charted(code), NEW n \in Blocks(code), NEW r, Spare(code, r)
  PROVE  /\ r \in Registers
         /\ \A types \in Typings : TypesTransfer(Span(code, n), types)[r] = types[r]
         /\ \A init : r \in InitTransfer(Span(code, n), init) => r \in init
<1>1. PICK body : body = Span(code, n)
  OBVIOUS
<1>2. PICK len : len = Len(body)
  OBVIOUS
<1>3. len \in Nat /\ \A k \in 1 .. len : body[k] = At(code, n + k - 1) /\ n + k - 1 \in Positions(code)
  BY <1>1, <1>2, SpansAre
<1>4. r \in Registers /\ \A k \in 1 .. len : Writes(body[k]) => body[k].regs[1] # r
  BY <1>3 DEF Spare
<1>5. ASSUME NEW types \in Typings, NEW init
      PROVE  /\ TypesTransfer(body, types)[r] = types[r]
             /\ r \in InitTransfer(body, init) => r \in init
  BY <1>2, <1>3, <1>4, SpareAlong
<1>6. AllRegisters("Any") \in Typings
  BY DEF AllRegisters, Typings, RegTypes
<1> QED  BY <1>1, <1>4, <1>5, <1>6

\* The blocks a node depends on are typed so.
TypedBefore(code, T, n) == n # 0 => \A p \in From(code, n) : TypedBehind(code, T, p)

\* What a node is left with may stand there.
SoundlyTyped(code, n, v) ==
  /\ v \in Typings /\ \A r : Spare(code, r) => v[r] \in {"Any", "Unset"}
  /\ \A F : Fixed(Task("init", code), F) => \A r \in Registers : r \in F[n] => v[r] # "Unset"

\* Computing a node anew keeps its types so, once those it depends on are.
LEMMA Recomputed ==
  ASSUME NEW code, Charted(code), NEW T, TypesOK(code, T), NEW n \in Blocks(code), TypedBefore(code, T, n)
  PROVE  SoundlyTyped(code, n, TypesTransfer(Span(code, n), EntryTypes(code, T, n)))
<1>0. Len(code) \in Nat /\ ScanAccepts(code)
  BY ChartedIs
<1>1. PICK entered : entered = EntryTypes(code, T, n)
  OBVIOUS
<1>2. PICK body : body = Span(code, n)
  OBVIOUS
<1>3. PICK v : v = TypesTransfer(body, entered)
  OBVIOUS
<1>9. Len(body) \in Nat
  BY <1>2, SpansAre
<1>4. /\ \A p \in Blocks(code) : T[p] \in Typings
      /\ From(code, n) \subseteq Blocks(code)
  BY <1>0, FromBlocks DEF TypesOK
<1>5. /\ entered \in Typings
      /\ n = 0 => entered = AllRegisters("Unset")
      /\ n # 0 => \A r \in Registers : \A A, G :
           MeetClosed(A) /\ Passes(A, G) /\ (\A p \in From(code, n) : T[p][r] \in A) => entered[r] \in A
  BY <1>0, <1>1, <1>4, TypesEnter
<1>6. v \in Typings
  BY <1>3, <1>5, <1>9, TypesTransferIs
<1>7. ASSUME NEW r, Spare(code, r) PROVE v[r] \in {"Any", "Unset"}
  <2>1. r \in Registers /\ v[r] = entered[r]
    BY <1>2, <1>3, <1>5, <1>7, SpareSpan
  <2>2. CASE n = 0
    BY <1>5, <2>1, <2>2 DEF AllRegisters
  <2>3. CASE n # 0
    <3>1. \A p \in From(code, n) : T[p][r] \in {"Any", "Unset"}
      BY <1>4, <1>7 DEF TypesOK
    <3>2. entered[r] \in {"Any", "Unset"}
      BY <1>5, <2>1, <2>3, <3>1, IdleMeets
    <3> QED  BY <2>1, <3>2
  <2> QED  BY <2>2, <2>3
<1>8. ASSUME NEW F, Fixed(Task("init", code), F)
      PROVE  \A r \in Registers : r \in F[n] => v[r] # "Unset"
  <2>1. PICK init : init = EntryInit(code, F, n)
    OBVIOUS
  <2>2. F[n] = InitTransfer(body, init)
    BY <1>2, <1>8, <2>1, FixedIs
  <2>3. ASSUME NEW r \in Registers, r \in init PROVE entered[r] # "Unset"
    <3>1. n # 0 /\ \A p \in From(code, n) : r \in F[p]
      BY <1>0, <2>1, <2>3, InitEnters
    <3>2. \A p \in From(code, n) : T[p][r] # "Unset"
      BY <1>8, <3>1 DEF TypedBefore, TypedBehind
    <3>3. \A p \in From(code, n) : T[p][r] \in RegTypes \ {"Unset"}
      BY <1>4, <3>2 DEF Typings
    <3>4. entered[r] \in RegTypes \ {"Unset"}
      BY <1>5, <3>1, <3>3, SetMeets
    <3> QED  BY <3>4
  <2>4. \A r \in Registers : r \in InitTransfer(body, init) => TypesTransfer(body, entered)[r] # "Unset"
    BY <1>5, <1>9, <2>3, TypedAlong
  <2> QED  BY <1>3, <2>2, <2>4
<1> QED  BY <1>1, <1>2, <1>3, <1>6, <1>7, <1>8 DEF SoundlyTyped

\* What the first register phase accepted.
TypesSettled(code, T) ==
  /\ Fixed(Task("types", code), T) /\ Tidy(code, T)
  /\ \A n \in Blocks(code) :
       EntryTypes(code, T, n) # AllRegisters("Any") => ReadsSatisfied(Span(code, n), EntryTypes(code, T, n))

\* And the second.
InitSettled(code, F) ==
  /\ Fixed(Task("init", code), F)
  /\ \A n \in Blocks(code) :
       EntryInit(code, F, n) # Registers => InitReads(Span(code, n), EntryInit(code, F, n))

\* The call begins with the entry at the front of the queue.
Opening ==
  /\ worklist = Graph(program).nodes /\ pending = <<>>
  /\ state = Solver!InitialState(Task("types", program))

\* Until the entry has been looked at, nothing is known of a path.
Underway == TypesOK(program, state) /\ (Opening \/ Tidy(program, state))

\* The state the call begins in.
LEMMA OpeningIs ==
  ASSUME NEW code, Charted(code), NEW st, st = Solver!InitialState(Task("types", code))
  PROVE  TypesOK(code, st) /\ \A n \in Blocks(code) : n # 0 => st[n] = AllRegisters("Any")
<1>0. Len(code) \in Nat /\ ScanAccepts(code)
  BY ChartedIs
<1>1. PICK j : j = Task("types", code)
  OBVIOUS
<1>2. Solver!Nodes(j) = Blocks(code) /\ j.entry = 0 /\ j.kind = "types"
  BY <1>0, <1>1, TaskIs DEF Blocks
<1>3. JobTop(j) = AllRegisters("Any") /\ JobBoundary(j) = AllRegisters("Unset")
  BY <1>2 DEF JobTop, JobBoundary
<1>4. st = [n \in Blocks(code) |-> IF n = 0 THEN AllRegisters("Unset") ELSE AllRegisters("Any")]
  <2>1. st = Solver!InitialState(j)
    BY <1>1
  <2> QED  BY <1>2, <1>3, <2>1 DEF Solver!InitialState
<1>5. AllRegisters("Any") \in Typings /\ AllRegisters("Unset") \in Typings
  BY DEF AllRegisters, Typings, RegTypes
<1>6. \A n \in Blocks(code) : st[n] \in Typings
  BY <1>4, <1>5
<1>7. \A n \in Blocks(code), r \in Registers : st[n][r] \in {"Any", "Unset"}
  BY <1>4 DEF AllRegisters
<1> QED  BY <1>4, <1>6, <1>7 DEF TypesOK, Spare

\* So begins the first phase.
LEMMA CallOpens == ASSUME Charted(program), Call("types"), program' = program PROVE Underway'
<1>1. Len(program) \in Nat /\ ScanAccepts(program)
  BY ChartedIs
<1>2. /\ worklist' = Graph(program).nodes /\ pending' = <<>>
      /\ state' = Solver!InitialState(Task("types", program))
  BY <1>1, CallStarts
<1>3. TypesOK(program, state')
  BY <1>2, OpeningIs
<1>4. TypesOK(program, state)'
  BY <1>3
<1>5. Opening'
  BY <1>2 DEF Opening
<1> QED  BY <1>4, <1>5 DEF Underway

\* One node computed anew.
LEMMA RecomputeKeeps ==
  ASSUME NEW code, Charted(code), NEW T, DOMAIN T = Blocks(code), TypesOK(code, T),
         NEW n \in Blocks(code), NEW next,
         next = [T EXCEPT ![n] = JobTransfer(Task("types", code), n, Solver!Before(Task("types", code), T, n))],
         \/ Tidy(code, T)
         \/ n = 0 /\ \A m \in Blocks(code) : m # 0 => T[m] = AllRegisters("Any")
  PROVE  Tidy(code, next)
<1>1. PICK v : v = TypesTransfer(Span(code, n), EntryTypes(code, T, n))
  OBVIOUS
<1>0. Len(code) \in Nat /\ ScanAccepts(code)
  BY ChartedIs
<1>2. next = [T EXCEPT ![n] = v]
  <2>1. PICK j : j = Task("types", code)
    OBVIOUS
  <2>2. PICK entered : entered = Solver!Before(j, T, n)
    OBVIOUS
  <2>3. entered = EntryTypes(code, T, n)
    BY <2>1, <2>2 DEF EntryTypes, EntryState
  <2>4. JobTransfer(Task("types", code), n, entered) = TypesTransfer(Span(code, n), entered)
    BY NodeApplies
  <2>5. next = [T EXCEPT ![n] = JobTransfer(Task("types", code), n, entered)]
    BY <2>1, <2>2
  <2> QED  BY <1>1, <2>3, <2>4, <2>5
<1>3. From(code, n) \subseteq Blocks(code)
  BY <1>0, FromBlocks
<1>4. n # 0 => \A p \in From(code, n) : TypedBehind(code, T, p)
  BY <1>3 DEF Tidy
<1>5. SoundlyTyped(code, n, v)
  <2>1. TypedBefore(code, T, n)
    BY <1>4 DEF TypedBefore
  <2>2. SoundlyTyped(code, n, TypesTransfer(Span(code, n), EntryTypes(code, T, n)))
    BY <2>1, Recomputed, Zenon
  <2> QED  BY <1>1, <2>2
<1>6. \A m \in Blocks(code) : next[m] = IF m = n THEN v ELSE T[m]
  BY <1>2
<1>7. TypesOK(code, next)
  BY <1>5, <1>6 DEF TypesOK, SoundlyTyped
<1>8. ASSUME NEW m \in Blocks(code) PROVE TypedBehind(code, next, m)
  <2>1. CASE m = n
    BY <1>5, <1>6, <2>1 DEF TypedBehind, SoundlyTyped
  <2>2. CASE m # n
    <3>1. next[m] = T[m]
      BY <1>6, <2>2
    <3>2. CASE Tidy(code, T)
      BY <3>1, <3>2 DEF Tidy, TypedBehind
    <3>3. CASE n = 0 /\ T[m] = AllRegisters("Any")
      <4>1. \A r \in Registers : next[m][r] = "Any"
        BY <3>1, <3>3 DEF AllRegisters
      <4> QED  BY <4>1 DEF TypedBehind
    <3> QED  BY <2>2, <3>2, <3>3
  <2> QED  BY <2>1, <2>2
<1> QED  BY <1>7, <1>8 DEF Tidy

\* So the phase goes on.
LEMMA SolverKeepsTypes ==
  ASSUME Charted(program), job = Task("types", program), Queue!Inv, Solver!Next, Underway, program' = program
  PROVE  Underway'
<1>0. Len(program) \in Nat /\ ScanAccepts(program)
  BY ChartedIs
<1>1. Queue!Nodes(job) = Blocks(program)
  <2>1. PICK j : j = Task("types", program)
    OBVIOUS
  <2>2. Queue!Nodes(j) = Blocks(program)
    BY <1>0, <2>1, TaskIs DEF Blocks
  <2> QED  BY <2>1, <2>2
<1>2. worklist \in Seq(Blocks(program)) /\ DOMAIN state = Blocks(program)
  BY <1>1 DEF Queue!Inv, Queue!QueueOK
<1>3. CASE Solver!Enqueue
  <2>1. pending # <<>> /\ state' = state
    BY <1>3 DEF Solver!Enqueue
  <2>2. Tidy(program, state)
    BY <2>1 DEF Underway, Opening
  <2>3. Tidy(program, state)'
    BY <2>1, <2>2
  <2> QED  BY <2>3 DEF Underway, Tidy
<1>4. CASE Solver!Recompute
  <2>1. PICK n : n = Head(worklist)
    OBVIOUS
  <2>2. /\ worklist # <<>>
        /\ state' = [state EXCEPT ![n] = JobTransfer(job, n, Solver!Before(job, state, n))]
    BY <1>4, <2>1 DEF Solver!Recompute
  <2>3. n \in Blocks(program)
    BY <1>2, <2>1, <2>2
  <2>4. \/ Tidy(program, state)
        \/ n = 0 /\ \A m \in Blocks(program) : m # 0 => state[m] = AllRegisters("Any")
    <3>1. CASE Opening
      <4>1. PICK nodes : nodes = Graph(program).nodes
        OBVIOUS
      <4>2. nodes[1] = 0 /\ nodes \in Seq(Blocks(program)) /\ nodes # <<>>
        BY <1>0, <4>1, GraphIs DEF Blocks
      <4>3. n = 0
        BY <2>1, <3>1, <4>1, <4>2 DEF Opening
      <4>4. \A m \in Blocks(program) : m # 0 => state[m] = AllRegisters("Any")
        BY <3>1, OpeningIs DEF Opening
      <4> QED  BY <4>3, <4>4
    <3> QED  BY <3>1 DEF Underway
  <2>5. PICK next : next = state'
    OBVIOUS
  <2>6. next = [state EXCEPT ![n] = JobTransfer(Task("types", program), n,
                                                  Solver!Before(Task("types", program), state, n))]
    BY <2>2, <2>5
  <2>7. Tidy(program, next)
    BY <1>2, <2>3, <2>4, <2>6, RecomputeKeeps DEF Underway
  <2>8. Tidy(program, state)'
    BY <2>5, <2>7
  <2> QED  BY <2>8 DEF Underway, Tidy
<1> QED  BY <1>3, <1>4 DEF Solver!Next

\* What the first phase leaves is settled.
LEMMA TypesAccepted ==
  ASSUME Charted(program), job = Task("types", program), Queue!Inv, Solver!Converged, TypesAccept, Underway
  PROVE  TypesSettled(program, state)
<1>0. Len(program) \in Nat /\ ScanAccepts(program)
  BY ChartedIs
<1>1. PICK j : j = Task("types", program)
  OBVIOUS
<1>2. /\ j.kind = "types" /\ Solver!Nodes(j) = Blocks(program)
      /\ \A n \in Blocks(program) : j.body[n] = Span(program, n)
  <2>1. "types" # "depth"
    OBVIOUS
  <2> QED  BY <1>0, <1>1, <2>1, TaskIs DEF Blocks, Span
<1>3. Fixed(j, state)
  BY <1>1, ConvergedIsFixed
<1>4. DOMAIN state = Blocks(program)
  BY <1>2, <1>3 DEF Fixed
<1>5. JobTop(j) = AllRegisters("Any")
  BY <1>2 DEF JobTop
<1>6. ASSUME NEW n \in Blocks(program), EntryTypes(program, state, n) # AllRegisters("Any")
      PROVE  ReadsSatisfied(Span(program, n), EntryTypes(program, state, n))
  <2>1. PICK entered : entered = EntryTypes(program, state, n)
    OBVIOUS
  <2>2. entered = Solver!Before(j, state, n)
    BY <1>1, <2>1 DEF EntryTypes, EntryState
  <2>3. Solver!Before(j, state, n) # JobTop(j) => ReadsSatisfied(j.body[n], Solver!Before(j, state, n))
    BY <1>1, <1>4, Zenon DEF TypesAccept, Reached
  <2> QED  BY <1>2, <1>5, <1>6, <2>1, <2>2, <2>3
<1>7. Tidy(program, state)
  <2>1. Graph(program).nodes # <<>>
    <3>1. PICK nodes : nodes = Graph(program).nodes
      OBVIOUS
    <3> QED  BY <1>0, <3>1, GraphIs
  <2> QED  BY <2>1 DEF Underway, Opening, Solver!Converged
<1> QED  BY <1>1, <1>3, <1>6, <1>7 DEF TypesSettled

\* So is what the second leaves.
LEMMA InitAccepted ==
  ASSUME Charted(program), job = Task("init", program), Queue!Inv, Solver!Converged, InitAccept
  PROVE  InitSettled(program, state)
<1>0. Len(program) \in Nat /\ ScanAccepts(program)
  BY ChartedIs
<1>1. PICK j : j = Task("init", program)
  OBVIOUS
<1>2. /\ j.kind = "init" /\ Solver!Nodes(j) = Blocks(program)
      /\ \A n \in Blocks(program) : j.body[n] = Span(program, n)
  <2>1. "init" # "depth"
    OBVIOUS
  <2> QED  BY <1>0, <1>1, <2>1, TaskIs DEF Blocks, Span
<1>3. Fixed(j, state)
  BY <1>1, ConvergedIsFixed
<1>4. DOMAIN state = Blocks(program)
  BY <1>2, <1>3 DEF Fixed
<1>5. JobTop(j) = Registers
  BY <1>2 DEF JobTop
<1>6. ASSUME NEW n \in Blocks(program), EntryInit(program, state, n) # Registers
      PROVE  InitReads(Span(program, n), EntryInit(program, state, n))
  <2>1. PICK entered : entered = EntryInit(program, state, n)
    OBVIOUS
  <2>2. entered = Solver!Before(j, state, n)
    BY <1>1, <2>1 DEF EntryInit, EntryState
  <2>3. Solver!Before(j, state, n) # JobTop(j) => InitReads(j.body[n], Solver!Before(j, state, n))
    BY <1>1, <1>4, Zenon DEF InitAccept, Reached
  <2> QED  BY <1>2, <1>5, <1>6, <2>1, <2>2, <2>3
<1> QED  BY <1>1, <1>3, <1>6 DEF InitSettled

-----------------------------------------------------------------------------
(* The registers on a path. *)

\* Where a position of a block stands with both analyses.
TypesAt(code, T, b, p) == TypesAlong(Span(code, b), EntryTypes(code, T, b))[p - b]
InitAt(code, F, b, p) == InitTransfer(SubSeq(Span(code, b), 1, p - b), EntryInit(code, F, b))

\* The types of a span, one after another.
TypesGrow(body, types) ==
  /\ TypesAlong(body, types)[0] = types
  /\ \A k \in 0 .. Len(body) : TypesAlong(body, types)[k] \in Typings
  /\ \A k \in 1 .. Len(body) : TypesAlong(body, types)[k] = ApplyWrites(body[k], TypesAlong(body, types)[k - 1])

\* Each is what its instruction makes of the one before.
LEMMA TypesGrowth == ASSUME NEW body, Len(body) \in Nat, NEW types \in Typings PROVE TypesGrow(body, types)
  BY TypesAlongIs DEF TypesGrow

\* What the positions of a block have of both, from its start to its end.
Along(code, T, F, b) ==
  LET e == BlockEnd(code, b) IN
  /\ b \in Nat /\ e \in Nat /\ b <= e /\ e <= Len(code)
  /\ TypesAt(code, T, b, b) = EntryTypes(code, T, b) /\ InitAt(code, F, b, b) = EntryInit(code, F, b)
  /\ \A p \in b .. e - 1 :
       /\ TypesAt(code, T, b, p) \in Typings
       /\ TypesAt(code, T, b, p + 1) = ApplyWrites(At(code, p), TypesAt(code, T, b, p))
       /\ InitAt(code, F, b, p + 1) = InitStep(At(code, p), InitAt(code, F, b, p))
  /\ InitAt(code, F, b, e) = InitTransfer(Span(code, b), EntryInit(code, F, b))
  /\ EntryTypes(code, T, b) # AllRegisters("Any") =>
       TypesAt(code, T, b, e) = TypesTransfer(Span(code, b), EntryTypes(code, T, b))

\* A table of types for every block.
Typed(code, T) == \A n \in Blocks(code) : T[n] \in Typings

\* A position makes of both what its instruction does.
LEMMA AlongBlock ==
  ASSUME NEW code, Charted(code), NEW b \in Blocks(code), NEW T, Typed(code, T), NEW F
  PROVE  Along(code, T, F, b)
<1>0. Len(code) \in Nat /\ ScanAccepts(code)
  BY ChartedIs
<1>18. PICK e : e = BlockEnd(code, b)
  OBVIOUS
<1>1. PICK body : body = Span(code, b)
  OBVIOUS
<1>2. PICK types : types = EntryTypes(code, T, b)
  OBVIOUS
<1>3. PICK init : init = EntryInit(code, F, b)
  OBVIOUS
<1>4. PICK n : n = Len(body)
  OBVIOUS
<1>5. /\ b \in Leaders(code) /\ b \in Nat /\ IsSeq(body) /\ n = e - b /\ n \in Nat
      /\ \A k \in 1 .. n : body[k] = At(code, b + k - 1)
  BY <1>1, <1>4, <1>18, SpansAre
<1>6. e \in b .. Len(code)
  BY <1>0, <1>5, <1>18, BlockIs
<1>7. types \in Typings
  BY <1>0, <1>2, TypesEnter DEF Typed
<1>8. PICK along : along = TypesAlong(body, types)
  OBVIOUS
<1>9. /\ along[0] = types
      /\ \A k \in 0 .. n : along[k] \in Typings
      /\ \A k \in 1 .. n : along[k] = ApplyWrites(body[k], along[k - 1])
  <2>1. Len(body) \in Nat
    BY <1>4, <1>5
  <2>2. TypesGrow(body, types)
    BY <1>7, <2>1, TypesGrowth, Zenon
  <2> QED  BY <1>4, <1>8, <2>2 DEF TypesGrow
<1>10. types # AllRegisters("Any") => TypesTransfer(body, types) = along[n]
  BY <1>4, <1>5, <1>7, <1>8, TypesTransferIs
<1>19. /\ InitTransfer(SubSeq(body, 1, 0), init) = init
       /\ \A k \in 1 .. n : InitTransfer(SubSeq(body, 1, k), init)
                              = InitStep(body[k], InitTransfer(SubSeq(body, 1, k - 1), init))
       /\ InitTransfer(SubSeq(body, 1, n), init) = InitTransfer(body, init)
  <2>1. InitGrows(body, init)
    BY <1>5, InitPrefixes, Zenon
  <2> QED  BY <1>4, <2>1 DEF InitGrows
<1> DEFINE inits == [k \in 0 .. n |-> InitTransfer(SubSeq(body, 1, k), init)]
<1>11. /\ inits[0] = init
       /\ \A k \in 1 .. n : inits[k] = InitStep(body[k], inits[k - 1])
       /\ inits[n] = InitTransfer(body, init)
  <2>2. 0 \in 0 .. n /\ n \in 0 .. n /\ \A k \in 1 .. n : k \in 0 .. n /\ k - 1 \in 0 .. n
    BY <1>5
  <2> QED  BY <1>19, <2>2
<1>12. \A p \in b .. e : /\ TypesAt(code, T, b, p) = along[p - b]
                         /\ InitAt(code, F, b, p) = inits[p - b] /\ p - b \in 0 .. n
  <2>1. \A p \in b .. e : p - b \in 0 .. n
    BY <1>5, <1>6
  <2> QED  BY <1>1, <1>2, <1>3, <1>8, <2>1 DEF TypesAt, InitAt
<1> HIDE DEF inits
<1>13. b \in b .. e /\ e \in b .. e /\ b - b = 0 /\ e - b = n
  BY <1>5, <1>6
<1>14. TypesAt(code, T, b, b) = types /\ InitAt(code, F, b, b) = init
  BY <1>9, <1>11, <1>12, <1>13
<1>15. /\ InitAt(code, F, b, e) = InitTransfer(body, init)
       /\ types # AllRegisters("Any") => TypesAt(code, T, b, e) = TypesTransfer(body, types)
  BY <1>10, <1>11, <1>12, <1>13
<1>16. ASSUME NEW p \in b .. e - 1
       PROVE  /\ TypesAt(code, T, b, p) \in Typings
              /\ TypesAt(code, T, b, p + 1) = ApplyWrites(At(code, p), TypesAt(code, T, b, p))
              /\ InitAt(code, F, b, p + 1) = InitStep(At(code, p), InitAt(code, F, b, p))
  <2>1. /\ p \in b .. e /\ p + 1 \in b .. e /\ (p + 1) - b \in 1 .. n /\ ((p + 1) - b) - 1 = p - b
        /\ p - b \in 0 .. n /\ b + ((p + 1) - b) - 1 = p
    BY <1>5, <1>6
  <2>2. body[(p + 1) - b] = At(code, p)
    BY <1>5, <2>1
  <2>3. TypesAt(code, T, b, p) = along[p - b] /\ TypesAt(code, T, b, p + 1) = along[(p + 1) - b]
    BY <1>12, <2>1
  <2>4. InitAt(code, F, b, p) = inits[p - b] /\ InitAt(code, F, b, p + 1) = inits[(p + 1) - b]
    BY <1>12, <2>1
  <2>5. /\ along[(p + 1) - b] = ApplyWrites(body[(p + 1) - b], along[p - b])
        /\ inits[(p + 1) - b] = InitStep(body[(p + 1) - b], inits[p - b])
    <3>1. \A k \in 1 .. n : /\ along[k] = ApplyWrites(body[k], along[k - 1])
                            /\ inits[k] = InitStep(body[k], inits[k - 1])
      BY <1>9, <1>11
    <3> DEFINE k == (p + 1) - b
    <3>2. k \in 1 .. n /\ k - 1 = p - b
      BY <2>1
    <3> HIDE DEF k
    <3>3. along[k] = ApplyWrites(body[k], along[p - b]) /\ inits[k] = InitStep(body[k], inits[p - b])
      BY <3>1, <3>2
    <3> QED  BY <3>3 DEF k
  <2> QED  BY <1>9, <2>1, <2>2, <2>3, <2>4, <2>5
<1>17. e \in Nat /\ b <= e /\ e <= Len(code)
  BY <1>0, <1>5, <1>6
<1> QED  BY <1>1, <1>2, <1>3, <1>5, <1>14, <1>15, <1>16, <1>17, <1>18 DEF Along

\* What a register found written holds, given what it is taken to hold.
Fits(code, type, kind) == (KindsKnown(code) => Covers(type, kind)) /\ (CalldataSet => kind # "Unset")

\* A register nothing writes is not taken to be written, so that the path is not
\* taken to be dead.
Unwritten(code, T, F, b) ==
  \A r : Spare(code, r) => EntryTypes(code, T, b)[r] = "Unset" /\ r \notin EntryInit(code, F, b)

\* The registers are what both analyses found them to be at a position.
Agree(code, T, F, b, p, held) ==
  \A r \in Registers : r \in InitAt(code, F, b, p) => Fits(code, TypesAt(code, T, b, p)[r], held[r].t)

\* An instruction that does what the tables say keeps them so.
LEMMA StepAgrees ==
  ASSUME NEW code, Charted(code), NEW b \in Blocks(code), NEW T, Typed(code, T), NEW F,
         NEW p \in b .. BlockEnd(code, b) - 1, NEW held, Agree(code, T, F, b, p, held), NEW next,
         \A r \in Registers : IF Writes(At(code, p)) /\ r = At(code, p).regs[1]
                                THEN Holds(next[r], WrittenKind(At(code, p).op)) ELSE next[r].t = held[r].t
  PROVE  Agree(code, T, F, b, p + 1, next)
<1>1. PICK i : i = At(code, p)
  OBVIOUS
<1>2. PICK kind : kind = WrittenKind(i.op)
  OBVIOUS
<1>3. PICK types : types = TypesAt(code, T, b, p)
  OBVIOUS
<1>4. /\ types \in Typings /\ TypesAt(code, T, b, p + 1) = ApplyWrites(i, types)
      /\ InitAt(code, F, b, p + 1) = InitStep(i, InitAt(code, F, b, p))
  <2>1. Along(code, T, F, b)
    BY AlongBlock, Zenon
  <2> QED  BY <1>1, <1>3, <2>1 DEF Along
<1>5. KindsKnown(code) => kind # "Any"
  <2>1. p \in Positions(code)
    <3>1. BlockEnd(code, b) \in Nat /\ b \in Nat /\ BlockEnd(code, b) <= Len(code)
      <4>1. Along(code, T, F, b)
        BY AlongBlock, Zenon
      <4> QED  BY <4>1 DEF Along
    <3> QED  BY <3>1, ChartedIs DEF Positions
  <2> QED  BY <1>1, <1>2, <2>1 DEF KindsKnown, At, OpAt
<1>6. kind \in SetKinds \cup {"Any", "Unset", "None"}
  BY <1>2 DEF WrittenKind, SetKinds
<1>7. ASSUME NEW r \in Registers, r \in InitAt(code, F, b, p + 1)
      PROVE  Fits(code, ApplyWrites(i, types)[r], next[r].t)
  <2>1. CASE Writes(i) /\ i.regs[1] = r
    <3>1. ApplyWrites(i, types)[r] = kind
      BY <1>2, <1>4, <2>1, ApplyWritesIs
    <3>2. kind # "Unset" /\ kind # "None"
      BY <1>2, <1>4, <1>7, <2>1 DEF InitStep, Writes
    <3>3. Holds(next[r], kind)
      BY <1>1, <1>2, <2>1
    <3>4. Fits(code, kind, next[r].t)
      BY <1>5, <1>6, <3>2, <3>3 DEF Fits, Holds, Covers, SetKinds
    <3> QED  BY <3>1, <3>4
  <2>2. CASE ~(Writes(i) /\ i.regs[1] = r)
    <3>1. ApplyWrites(i, types)[r] = types[r] /\ next[r].t = held[r].t
      BY <1>1, <1>4, <2>2, ApplyWritesIs
    <3>2. r \in InitAt(code, F, b, p)
      BY <1>4, <1>7, <2>2 DEF InitStep
    <3> QED  BY <1>3, <3>1, <3>2 DEF Agree
  <2> QED  BY <2>1, <2>2
<1> QED  BY <1>4, <1>7 DEF Agree

\* A program starts with nothing written.
LEMMA StartAgrees ==
  ASSUME NEW code, Charted(code), NEW T, Typed(code, T), NEW F, NEW held
  PROVE  Unwritten(code, T, F, 0) /\ Agree(code, T, F, 0, 0, held)
<1>0. Len(code) \in Nat /\ ScanAccepts(code)
  BY ChartedIs
<1>1. 0 \in Blocks(code)
  BY <1>0, GraphIs DEF Blocks
<1>2. EntryTypes(code, T, 0) = AllRegisters("Unset") /\ EntryInit(code, F, 0) = {}
  BY <1>0, <1>1, TypesEnter, InitEnters DEF Typed
<1>3. InitAt(code, F, 0, 0) = {}
  <2>1. Along(code, T, F, 0)
    BY <1>1, AlongBlock, Zenon
  <2> QED  BY <1>2, <2>1 DEF Along
<1> QED  BY <1>2, <1>3 DEF Unwritten, Agree, AllRegisters, Spare

\* And an edge leads to a block that expects no more than what it was left with.
LEMMA EdgeAgrees ==
  ASSUME NEW code, Charted(code), SpareRegister(code), NEW T, TypesSettled(code, T), NEW F, InitSettled(code, F),
         NEW b \in Blocks(code), NEW t \in ToSet(BlockTargets(code, b)), NEW held,
         Unwritten(code, T, F, b), Agree(code, T, F, b, BlockEnd(code, b), held)
  PROVE  t \in Blocks(code) /\ Unwritten(code, T, F, t) /\ Agree(code, T, F, t, t, held)
<1>0. Len(code) \in Nat /\ ScanAccepts(code)
  BY ChartedIs
<1>1. t \in Blocks(code) /\ b \in From(code, t) /\ From(code, t) \subseteq Blocks(code)
  <2>1. b \in Leaders(code)
    BY <1>0, GraphIs DEF Blocks
  <2>2. PICK g : g = Graph(code)
    OBVIOUS
  <2>3. t \in Blocks(code) /\ b \in ToSet(g.preds[t])
    BY <1>0, <2>1, <2>2, GraphIs DEF Blocks
  <2> QED  BY <1>0, <2>2, <2>3, FromBlocks DEF From
<1>2. /\ Typed(code, T)
      /\ \A n \in Blocks(code) : \A r : Spare(code, r) => T[n][r] \in {"Any", "Unset"}
      /\ \A n \in Blocks(code), r \in Registers : r \in F[n] => T[n][r] # "Unset"
  BY DEF TypesSettled, InitSettled, Tidy, TypesOK, TypedBehind, Typed
<1>3. /\ T[b] = TypesTransfer(Span(code, b), EntryTypes(code, T, b))
      /\ F[b] = InitTransfer(Span(code, b), EntryInit(code, F, b))
  BY FixedIs DEF TypesSettled, InitSettled
<1>4. EntryTypes(code, T, b) \in Typings
  BY <1>0, <1>2, TypesEnter DEF Typed
<1>5. EntryTypes(code, T, b) # AllRegisters("Any")
  <2>1. PICK r : Spare(code, r)
    BY DEF SpareRegister, Spare
  <2>2. EntryTypes(code, T, b)[r] = "Unset" /\ r \in Registers
    BY <2>1 DEF Unwritten, Spare
  <2> QED  BY <2>2 DEF AllRegisters
<1>6. F[b] = InitAt(code, F, b, BlockEnd(code, b)) /\ T[b] = TypesAt(code, T, b, BlockEnd(code, b))
  <2>1. Along(code, T, F, b)
    BY <1>2, AlongBlock, Zenon
  <2> QED  BY <1>3, <1>5, <2>1 DEF Along
<1>7. CASE t = 0
  BY <1>1, <1>2, <1>7, StartAgrees
<1>8. CASE t # 0
  <2>1. PICK entered : entered = EntryTypes(code, T, t)
    OBVIOUS
  <2>2. PICK init : init = EntryInit(code, F, t)
    OBVIOUS
  <2>3. \A r \in Registers : \A A, G :
          MeetClosed(A) /\ Passes(A, G) /\ (\A p \in From(code, t) : T[p][r] \in A) =>
            entered[r] \in A /\ ((\E p \in From(code, t) : T[p][r] \in G) => entered[r] \in G)
    BY <1>0, <1>1, <1>2, <1>8, <2>1, TypesEnter DEF Typed
  <2>4. init \subseteq Registers /\ \A p \in From(code, t) : init \subseteq F[p]
    BY <1>0, <1>1, <1>8, <2>2, InitEnters
  <2>5. ASSUME NEW r, Spare(code, r) PROVE entered[r] = "Unset" /\ r \notin init
    <3>1. r \in Registers /\ T[b][r] = "Unset" /\ r \notin F[b]
      BY <1>3, <1>4, <2>5, SpareSpan DEF Unwritten
    <3>2. \A p \in From(code, t) : T[p][r] \in {"Any", "Unset"}
      BY <1>1, <1>2, <2>5
    <3>3. \E p \in From(code, t) : T[p][r] \in {"Unset"}
      BY <1>1, <3>1
    <3>4. entered[r] \in {"Unset"}
      BY <2>3, <3>1, <3>2, <3>3, IdleMeets
    <3> QED  BY <1>1, <2>4, <3>1, <3>4
  <2>6. ASSUME NEW r \in Registers, r \in init PROVE Fits(code, entered[r], held[r].t)
    <3> DEFINE kind == held[r].t
    <3>1. \A p \in From(code, t) : T[p][r] \in RegTypes \ {"Unset"}
      <4>1. \A p \in From(code, t) : r \in F[p]
        BY <2>4, <2>6
      <4> QED  BY <1>1, <1>2, <4>1 DEF Typings, Typed
    <3>2. Fits(code, T[b][r], kind)
      <4>1. r \in F[b]
        BY <1>1, <2>4, <2>6
      <4> QED  BY <1>6, <4>1 DEF Agree
    <3> HIDE DEF kind
    <3>3. ASSUME KindsKnown(code) PROVE Covers(entered[r], kind)
      <4>1. Covers(T[b][r], kind) /\ T[b][r] \in RegTypes
        BY <1>1, <3>1, <3>2, <3>3 DEF Fits
      <4>2. kind \in SetKinds /\ T[b][r] \in Covering(kind)
        BY <4>1 DEF Covers, Covering
      <4>3. entered[r] \in Covering(kind)
        BY <1>1, <2>3, <3>1, <4>2, SetMeets
      <4> QED  BY <4>3 DEF Covering
    <3> QED  BY <3>2, <3>3 DEF Fits, kind
  <2>7. TypesAt(code, T, t, t) = entered /\ InitAt(code, F, t, t) = init
    <3>1. Along(code, T, F, t)
      BY <1>1, <1>2, AlongBlock, Zenon
    <3> QED  BY <2>1, <2>2, <3>1 DEF Along
  <2> QED  BY <1>1, <2>1, <2>2, <2>5, <2>6, <2>7 DEF Unwritten, Agree
<1> QED  BY <1>7, <1>8

\* The machine goes on in its block, or at the head of the next one.
LEMMA PathGoesOn ==
  ASSUME Len(program) \in Nat, ScanAccepts(program), NEW b \in Blocks(program), StandsIn(b), Effect,
         Current = At(program, pc), pc' \in 0 .. Len(program) - 1
  PROVE  \/ pc' = pc + 1 /\ StandsIn(b)'
         \/ /\ pc = BlockEnd(program, b) - 1
            /\ \E t \in ToSet(BlockTargets(program, b)) : t \in Blocks(program) /\ pc' = t /\ StandsIn(t)'
<1> DEFINE op == OpAt(program, pc)
<1>1. b \in Leaders(program) /\ b \in Nat /\ BlockEnd(program, b) \in b .. Len(program)
  BY GraphIs, LeadersType, BlockIs DEF Blocks
<1>2. program' = program /\ op # "HALT" /\ Follows(program, pc, pc')
  BY DEF Effect, At, OpAt
<1>3. \/ pc' = pc + 1 /\ pc' < BlockEnd(program, b)
      \/ pc = BlockEnd(program, b) - 1 /\ pc' \in ToSet(BlockTargets(program, b))
  BY <1>1, <1>2, StaysOrTakesEdge DEF StandsIn
<1>4. pc \in Nat /\ pc \in b .. BlockEnd(program, b) - 1
  BY <1>1 DEF StandsIn
<1>5. CASE pc' = pc + 1 /\ pc' < BlockEnd(program, b)
  <2>1. \A r \in b .. pc' - 1 : r = pc \/ r \in b .. pc - 1
    BY <1>4, <1>5
  <2>2. StandsIn(b)'
    BY <1>1, <1>2, <1>4, <1>5, <2>1 DEF StandsIn
  <2> QED  BY <1>5, <2>2
<1>6. CASE pc = BlockEnd(program, b) - 1 /\ pc' \in ToSet(BlockTargets(program, b))
  <2>1. PICK t : t = pc'
    OBVIOUS
  <2>2. t \in Blocks(program)
    BY <1>1, <1>6, <2>1, TaskIs DEF Blocks
  <2>3. t \in Leaders(program) /\ t \in t .. BlockEnd(program, t) - 1 /\ t \in Nat
    <3>1. t \in Leaders(program)
      BY <2>2, GraphIs DEF Blocks
    <3>2. t \in Nat /\ t < BlockEnd(program, t) /\ BlockEnd(program, t) \in t .. Len(program)
      BY <2>1, <3>1, BlockIs
    <3> QED  BY <3>1, <3>2
  <2>4. t .. t - 1 = {}
    BY <2>3
  <2>5. StandsIn(t)'
    BY <1>2, <2>1, <2>3, <2>4 DEF StandsIn
  <2> QED  BY <1>6, <2>1, <2>2, <2>5
<1> QED  BY <1>3, <1>5, <1>6

-----------------------------------------------------------------------------
(* The registers of an admitted program. *)

\* Every answer of the two phases describes the registers where the machine stands.
Described(T, F, b) == Unwritten(program, T, F, b) /\ Agree(program, T, F, b, pc, regs)

OnCourse ==
  \E b \in Blocks(program) :
    StandsIn(b) /\ \A T, F : TypesSettled(program, T) /\ InitSettled(program, F) => Described(T, F, b)

\* The machine starts so, with nothing written.
LEMMA CourseStarts ==
  ASSUME Charted(program), 0 < Len(program), pc = 0
  PROVE  OnCourse
<1>0. Len(program) \in Nat /\ ScanAccepts(program)
  BY ChartedIs
<1>1. 0 \in Blocks(program)
  BY <1>0, GraphIs DEF Blocks
<1>2. 0 \in Leaders(program) /\ 0 < BlockEnd(program, 0) /\ BlockEnd(program, 0) \in 0 .. Len(program)
  BY <1>0, LeadersType, BlockIs
<1>3. StandsIn(0)
  BY <1>2 DEF StandsIn
<1>4. ASSUME NEW T, NEW F, TypesSettled(program, T) PROVE Described(T, F, 0)
  <2>1. Typed(program, T)
    BY <1>4 DEF TypesSettled, Tidy, TypesOK, Typed
  <2>2. Unwritten(program, T, F, 0) /\ Agree(program, T, F, 0, 0, regs)
    BY <2>1, StartAgrees
  <2> QED  BY <2>2 DEF Described
<1> QED  BY <1>1, <1>3, <1>4 DEF OnCourse

\* An instruction that does what the tables say stays on course.
LEMMA CourseKeeps ==
  ASSUME Charted(program), SpareRegister(program), OnCourse, Effect,
         Current = At(program, pc), pc' \in 0 .. Len(program) - 1
  PROVE  OnCourse'
<1>0. Len(program) \in Nat /\ ScanAccepts(program)
  BY ChartedIs
<1>1. PICK b \in Blocks(program) :
        StandsIn(b) /\ \A T, F : TypesSettled(program, T) /\ InitSettled(program, F) => Described(T, F, b)
  BY DEF OnCourse
<1>2. PICK p : p = pc
  OBVIOUS
<1>3. PICK next : next = regs'
  OBVIOUS
<1>4. program' = program /\ p \in b .. BlockEnd(program, b) - 1
  BY <1>1, <1>2 DEF Effect, StandsIn
<1>5. ASSUME NEW T, NEW F, TypesSettled(program, T), InitSettled(program, F)
      PROVE  Unwritten(program, T, F, b) /\ Agree(program, T, F, b, p + 1, next)
  <2>1. Typed(program, T)
    BY <1>5 DEF TypesSettled, Tidy, TypesOK, Typed
  <2>2. Unwritten(program, T, F, b) /\ Agree(program, T, F, b, p, regs)
    BY <1>1, <1>2, <1>5 DEF Described
  <2>3. \A r \in Registers : IF Writes(At(program, p)) /\ r = At(program, p).regs[1]
                               THEN Holds(next[r], WrittenKind(At(program, p).op)) ELSE next[r].t = regs[r].t
    BY <1>2, <1>3 DEF Effect
  <2>4. Agree(program, T, F, b, p + 1, next)
    BY <1>4, <2>1, <2>2, <2>3, StepAgrees
  <2> QED  BY <2>2, <2>4
<1>6. CASE pc' = pc + 1 /\ StandsIn(b)'
  <2>1. ASSUME NEW T, NEW F, TypesSettled(program, T), InitSettled(program, F)
        PROVE  Described(T, F, b)'
    <3>1. Unwritten(program, T, F, b) /\ Agree(program, T, F, b, pc', regs')
      BY <1>2, <1>3, <1>5, <1>6, <2>1
    <3> QED  BY <1>4, <3>1 DEF Described
  <2> QED  BY <1>4, <1>6, <2>1 DEF OnCourse
<1>7. CASE /\ pc = BlockEnd(program, b) - 1
           /\ \E t \in ToSet(BlockTargets(program, b)) : t \in Blocks(program) /\ pc' = t /\ StandsIn(t)'
  <2>1. PICK t \in ToSet(BlockTargets(program, b)) : t \in Blocks(program) /\ pc' = t /\ StandsIn(t)'
    BY <1>7
  <2>2. p + 1 = BlockEnd(program, b)
    <3>1. BlockEnd(program, b) \in Nat
      <4>1. b \in Leaders(program)
        BY <1>0, GraphIs DEF Blocks
      <4> QED  BY <1>0, <4>1, BlockIs, LeadersType
    <3> QED  BY <1>2, <1>7, <3>1
  <2>3. ASSUME NEW T, NEW F, TypesSettled(program, T), InitSettled(program, F)
        PROVE  Described(T, F, t)'
    <3>1. Unwritten(program, T, F, b) /\ Agree(program, T, F, b, BlockEnd(program, b), next)
      BY <1>5, <2>2, <2>3
    <3>2. Unwritten(program, T, F, t) /\ Agree(program, T, F, t, t, next)
      BY <2>3, <3>1, EdgeAgrees
    <3> QED  BY <1>3, <1>4, <2>1, <3>2 DEF Described
  <2> QED  BY <1>4, <2>1, <2>3 DEF OnCourse
<1> QED  BY <1>0, <1>1, <1>6, <1>7, PathGoesOn

\* What a type of the analysis satisfies, so does what it covers.
LEMMA CoveredSatisfies ==
  ASSUME NEW type, NEW kind, Covers(type, kind), NEW req, Satisfies(type, req)
  PROVE  Satisfies(kind, req)
BY DEF Covers, SetKinds, Satisfies, Vecs, Grids

\* A read on course finds a value, of a kind that suits it.
LEMMA CourseReads ==
  ASSUME Charted(program), SpareRegister(program), OnCourse, Current = At(program, pc),
         NEW T, TypesSettled(program, T), NEW F, InitSettled(program, F),
         NEW req, Reads(req), Current.regs[1] \in Registers
  PROVE  /\ KindsKnown(program) => Satisfies(Reg.t, req)
         /\ CalldataSet => Reg.t # "Unset"
<1>0. Len(program) \in Nat /\ ScanAccepts(program)
  BY ChartedIs
<1>1. PICK b \in Blocks(program) : StandsIn(b) /\ Described(T, F, b)
  BY DEF OnCourse
<1>2. PICK body : body = Span(program, b)
  OBVIOUS
<1>3. PICK types : types = EntryTypes(program, T, b)
  OBVIOUS
<1>4. PICK init : init = EntryInit(program, F, b)
  OBVIOUS
<1>5. PICK r : r = Current.regs[1]
  OBVIOUS
<1>6. types # AllRegisters("Any") /\ init # Registers
  <2>1. PICK s : Spare(program, s)
    BY DEF SpareRegister, Spare
  <2>2. types[s] = "Unset" /\ s \in Registers /\ s \notin init
    BY <1>1, <1>3, <1>4, <2>1 DEF Described, Unwritten, Spare
  <2> QED  BY <2>2 DEF AllRegisters
<1>7. ReadsSatisfied(body, types) /\ InitReads(body, init)
  BY <1>2, <1>3, <1>4, <1>6 DEF TypesSettled, InitSettled
<1>8. PICK k : k = (pc + 1) - b
  OBVIOUS
<1>9. k \in 1 .. Len(body) /\ body[k] = Current /\ k - 1 = pc - b
  <2>1. /\ b \in Nat /\ Len(body) = BlockEnd(program, b) - b /\ Len(body) \in Nat
        /\ \A m \in 1 .. Len(body) : body[m] = At(program, b + m - 1)
    BY <1>2, SpansAre
  <2>2. pc \in b .. BlockEnd(program, b) - 1
    BY <1>1 DEF StandsIn
  <2>3. BlockEnd(program, b) \in Nat
    <3>1. b \in Leaders(program)
      BY <1>0, GraphIs DEF Blocks
    <3> QED  BY <1>0, <3>1, BlockIs, LeadersType
  <2>4. k \in 1 .. Len(body) /\ k - 1 = pc - b /\ b + k - 1 = pc
    BY <1>8, <2>1, <2>2, <2>3
  <2>5. body[k] = At(program, b + k - 1)
    BY <2>1, <2>4
  <2> QED  BY <2>4, <2>5
<1>10. <<r, req>> \in Requires(body[k])
  BY <1>5, <1>9 DEF Reads
<1>11. Satisfies(TypesAt(program, T, b, pc)[r], req)
  <2>1. PICK along : along = TypesAlong(body, types)
    OBVIOUS
  <2>2. Satisfies(along[k - 1][<<r, req>>[1]], <<r, req>>[2])
    BY <1>7, <1>9, <1>10, <2>1 DEF ReadsSatisfied
  <2>3. <<r, req>>[1] = r /\ <<r, req>>[2] = req
    OBVIOUS
  <2>4. TypesAt(program, T, b, pc) = along[k - 1]
    BY <1>2, <1>3, <1>9, <2>1 DEF TypesAt
  <2> QED  BY <2>2, <2>3, <2>4
<1>12. r \in InitAt(program, F, b, pc)
  <2>1. <<r, req>>[1] \in InitTransfer(SubSeq(body, 1, k - 1), init)
    BY <1>7, <1>9, <1>10 DEF InitReads
  <2> QED  BY <1>2, <1>4, <1>9, <2>1 DEF InitAt
<1>13. Fits(program, TypesAt(program, T, b, pc)[r], Reg.t)
  BY <1>1, <1>5, <1>12 DEF Described, Agree, Reg
<1> QED  BY <1>11, <1>13, CoveredSatisfies DEF Fits

TypesUnderway == phase = "types" /\ Charted(program) => Underway

TypesFound == phase \in {"init", "depth", "accepted"} /\ Charted(program) => \E T : TypesSettled(program, T)

InitFound == phase \in {"depth", "accepted"} /\ Charted(program) => \E F : InitSettled(program, F)

RunsWritten ==
  phase = "accepted" /\ WellStructured(program) =>
    /\ status = "UnsetRegister" => ~CalldataSet
    /\ status = "TypeMismatch" => ~KindsKnown(program)
    /\ status = "running" /\ pc < Len(program) => OnCourse

RegisterInv == Served /\ TypesUnderway /\ TypesFound /\ InitFound /\ RunsWritten

\* A program that got past the scan is charted, unless a block is missing in its graph.
LEMMA ChartedProgram ==
  ASSUME program \in Programs, ScanAccepts(program), BlocksInGraph(program), 0 < Len(program)
  PROVE  Charted(program)
<1>1. IsSeq(program) /\ program # <<>>
  BY XqvmAssumption DEF IsProgram
<1> QED  BY <1>1 DEF Charted

\* A verdict is given when both phases have settled, before anything is written.
LEMMA VerifyKeepsRegisters == ASSUME RegisterInv, Verify PROVE RegisterInv'
<1>1. Served /\ Served' /\ program' = program /\ phase # "accepted"
  BY VerifyKeepsServed, VerifyIs DEF RegisterInv
<1>2. ScanAccepts(program) \/ phase \notin {"types", "init", "depth"}
  BY <1>1 DEF Served, Admitted
<1>3. Charted(program)' <=> Charted(program)
  BY <1>1
<1>4. \A kind : phase = kind /\ kind \in {"types", "init", "depth"} => job = Task(kind, program) /\ Queue!Inv
  BY <1>1 DEF Served, Working, Serving
<1>5. CASE phase' = "rejected"
  BY <1>1, <1>5 DEF RegisterInv, TypesUnderway, TypesFound, InitFound, RunsWritten
<1>6. CASE phase' = "accepted"
  <2>1. phase = "depth" \/ program = <<>>
    BY <1>1, <1>6, VerifyIs
  <2>2. pc' = 0 /\ status' = "running" /\ Len(program) \in Nat /\ (program = <<>> <=> Len(program) = 0)
    BY <1>1, VerifyIs, ProgramLength DEF Fresh, Served, Admitted
  <2>3. TypesFound' /\ InitFound'
    BY <1>1, <1>3, <2>1 DEF RegisterInv, TypesFound, InitFound, Charted
  <2>4. ASSUME WellStructured(program), 0 < Len(program) PROVE OnCourse'
    <3>1. phase = "depth"
      BY <2>1, <2>2, <2>4
    <3>2. Charted(program)
      BY <1>1, <1>2, <2>4, <3>1, ChartedProgram DEF Served, Admitted, WellStructured
    <3>3. OnCourse
      BY <1>1, <2>4, <3>2, VerifyIs, CourseStarts DEF Fresh
    <3> QED  BY <1>1, <3>3, VerifyIs DEF OnCourse, StandsIn, Described
  <2>5. RunsWritten'
    BY <1>1, <2>2, <2>4 DEF RunsWritten
  <2> QED  BY <1>1, <1>6, <2>3, <2>5 DEF RegisterInv, TypesUnderway
<1>7. CASE phase = "scan" /\ ScanAccepts(program) /\ Call("types")
  <2>1. phase' = "types"
    BY <1>7 DEF Call
  <2>2. TypesUnderway'
    BY <1>1, <1>3, <1>7, CallOpens DEF TypesUnderway
  <2> QED  BY <1>1, <2>1, <2>2 DEF RegisterInv, TypesFound, InitFound, RunsWritten
<1>8. CASE phase = "types" /\ TypesAccept /\ Solver!Converged /\ Call("init")
  <2>1. phase' = "init"
    BY <1>8 DEF Call
  <2>2. job = Task("types", program) /\ Queue!Inv
    BY <1>4, <1>8
  <2>3. Charted(program) => TypesSettled(program, state)
    BY <1>8, <2>2, TypesAccepted DEF RegisterInv, TypesUnderway
  <2>4. TypesFound'
    BY <1>1, <1>3, <2>3 DEF TypesFound
  <2> QED  BY <1>1, <2>1, <2>4 DEF RegisterInv, TypesUnderway, InitFound, RunsWritten
<1>9. CASE phase = "init" /\ InitAccept /\ Solver!Converged /\ Call("depth")
  <2>1. phase' = "depth"
    BY <1>9 DEF Call
  <2>2. job = Task("init", program) /\ Queue!Inv
    BY <1>4, <1>9
  <2>3. Charted(program) => InitSettled(program, state)
    BY <1>9, <2>2, InitAccepted
  <2>4. TypesFound' /\ InitFound'
    BY <1>1, <1>3, <1>9, <2>3 DEF RegisterInv, TypesFound, InitFound
  <2> QED  BY <1>1, <2>1, <2>4 DEF RegisterInv, TypesUnderway, RunsWritten
<1>10. CASE phase' = phase /\ phase \in {"types", "init", "depth"} /\ Solver!Next
  <2>1. TypesFound' /\ InitFound' /\ RunsWritten'
    BY <1>1, <1>3, <1>10 DEF RegisterInv, TypesFound, InitFound, RunsWritten
  <2>2. TypesUnderway'
    <3>1. CASE phase = "types" /\ Charted(program)
      <4>1. job = Task("types", program) /\ Queue!Inv
        BY <1>4, <3>1
      <4>2. Underway
        BY <3>1 DEF RegisterInv, TypesUnderway
      <4>3. Underway'
        BY <1>1, <1>10, <3>1, <4>1, <4>2, SolverKeepsTypes
      <4> QED  BY <4>3 DEF TypesUnderway
    <3> QED  BY <1>3, <1>10, <3>1 DEF TypesUnderway
  <2> QED  BY <1>1, <2>1, <2>2 DEF RegisterInv
<1> QED  BY <1>1, <1>5, <1>6, <1>7, <1>8, <1>9, <1>10, VerifyIs

\* A step of the machine finds the registers as they were found, and leaves them so.
LEMMA RunKeepsRegisters == ASSUME RegisterInv, Run PROVE RegisterInv'
<1>1. Served /\ Served' /\ program' = program /\ phase' = phase /\ phase = "accepted" /\ Next
  BY RunKeepsServed DEF RegisterInv, Run
<1>2. TypesUnderway' /\ TypesFound' /\ InitFound'
  <2>1. Charted(program)' <=> Charted(program)
    BY <1>1
  <2> QED  BY <1>1, <2>1 DEF RegisterInv, TypesUnderway, TypesFound, InitFound
<1>3. CASE ~WellStructured(program)
  BY <1>1, <1>2, <1>3 DEF RegisterInv, RunsWritten
<1>4. CASE WellStructured(program)
  <2>1. status = "running" /\ ScanAccepts(program) /\ Len(program) \in Nat /\ program \in Programs
    BY <1>1, MachineRuns, ProgramLength DEF Served, Admitted
  <2>2. Sound
    BY <1>1, <1>4, <2>1 DEF Sound, Served, Admitted, OnTrack, WellStructured
  <2>3. Effect \/ Fault
    BY <1>1, <2>2, MachineEffect DEF Served
  <2>4. Current = At(program, pc) /\ pc \in Nat
    BY <1>1, Numbers DEF Current, Served
  <2>5. ASSUME pc < Len(program)
        PROVE  /\ Charted(program) /\ SpareRegister(program) /\ OnCourse
               /\ Current.op \in RegisterOps => Current.regs[1] \in Registers
    <3>1. 0 < Len(program) /\ pc + 1 \in DOMAIN program
      <4>1. program \in Seq({program[i] : i \in DOMAIN program})
        BY <2>1, XqvmAssumption DEF IsProgram, IsSeq
      <4> QED  BY <2>1, <2>4, <2>5, <4>1
    <3>2. Charted(program)
      BY <1>4, <2>1, <3>1, ChartedProgram DEF WellStructured
    <3>3. program[pc + 1].op \in RegisterOps => program[pc + 1].regs[1] \in Registers
      BY <2>1, <3>1, XqvmAssumption DEF IsProgram
    <3>4. OnCourse
      BY <1>1, <1>4, <2>1, <2>5 DEF RegisterInv, RunsWritten
    <3> QED  BY <1>4, <2>4, <3>2, <3>3, <3>4 DEF WellStructured, At
  <2>6. CASE Fault
    <3>1. ASSUME pc < Len(program), NEW req, Reads(req)
          PROVE  (KindsKnown(program) => Satisfies(Reg.t, req)) /\ (CalldataSet => Reg.t # "Unset")
      <4>1. /\ Charted(program) /\ SpareRegister(program) /\ OnCourse /\ Current.regs[1] \in Registers
        BY <2>5, <3>1 DEF Reads
      <4>2. PICK T : TypesSettled(program, T)
        BY <1>1, <4>1 DEF RegisterInv, TypesFound
      <4>3. PICK F : InitSettled(program, F)
        BY <1>1, <4>1 DEF RegisterInv, InitFound
      <4> QED  BY <2>4, <3>1, <4>1, <4>2, <4>3, CourseReads
    <3>2. status' = "UnsetRegister" => ~CalldataSet
      BY <2>6, <3>1 DEF Fault, AtInstruction
    <3>3. status' = "TypeMismatch" => ~KindsKnown(program)
      BY <2>6, <3>1 DEF Fault, AtInstruction
    <3> QED  BY <1>1, <1>2, <2>6, <3>2, <3>3 DEF RegisterInv, RunsWritten, Fault
  <2>7. CASE Effect
    <3>1. status' = "running"
      BY <2>7 DEF Effect
    <3>2. ASSUME pc' < Len(program)' PROVE OnCourse'
      <4>1. pc' \in 0 .. Len(program) - 1
        <5>1. pc' \in Nat
          BY <1>1 DEF Served, Inv, MachineOK
        <5> QED  BY <1>1, <2>1, <3>2, <5>1
      <4>2. pc < Len(program)
        BY <1>1, <3>1, NextIsAt
      <4> QED  BY <2>4, <2>5, <2>7, <4>1, <4>2, CourseKeeps
    <3> QED  BY <1>1, <1>2, <3>1, <3>2 DEF RegisterInv, RunsWritten
  <2> QED  BY <2>3, <2>6, <2>7
<1> QED  BY <1>3, <1>4

\* A step of nothing keeps the registers.
LEMMA RegistersStutter == ASSUME RegisterInv, UNCHANGED vars PROVE RegisterInv'
<1>1. Served'
  BY ServedStutters DEF RegisterInv
<1>2. UNCHANGED <<program, phase, pc, regs, status, worklist, state, pending>>
  BY DEF vars, machineVars, file, solverVars
<1>3. TypesUnderway' /\ TypesFound' /\ InitFound'
  BY <1>2 DEF RegisterInv, TypesUnderway, TypesFound, InitFound, Underway, Opening
<1>4. OnCourse => OnCourse'
  BY <1>2 DEF OnCourse, StandsIn, Described
<1>5. RunsWritten'
  BY <1>2, <1>4 DEF RegisterInv, RunsWritten
<1> QED  BY <1>1, <1>3, <1>5 DEF RegisterInv

\* An admitted program never reads a register it has not written on the way
\* there, unless the host supplied an unset value; and, where the kinds of what
\* it writes are known, never one that holds another kind of value than the
\* instruction needs: what the two register phases settled on
\* (dataflow/register.rs, dataflow/uninit.rs) holds on every path the machine
\* (vm.rs) can take.
THEOREM AdmittedReadsWritten == VerifiedSpec => []NoRegisterFault
<1>1. VerifiedInit => RegisterInv
  <2> SUFFICES ASSUME VerifiedInit PROVE RegisterInv
    OBVIOUS
  <2> QED  BY ServedInit DEF RegisterInv, TypesUnderway, TypesFound, InitFound, RunsWritten,
                             VerifiedInit, VerifierInit
<1>2. RegisterInv /\ [VerifiedNext]_vars => RegisterInv'
  <2> SUFFICES ASSUME RegisterInv, [VerifiedNext]_vars PROVE RegisterInv'
    OBVIOUS
  <2>1. CASE Verify
    BY <2>1, VerifyKeepsRegisters
  <2>2. CASE Run
    BY <2>2, RunKeepsRegisters
  <2>3. CASE UNCHANGED vars
    BY <2>3, RegistersStutter
  <2> QED  BY <2>1, <2>2, <2>3 DEF VerifiedNext
<1>3. RegisterInv => NoRegisterFault
  <2> SUFFICES ASSUME RegisterInv, WellStructured(program)
               PROVE  /\ status = "UnsetRegister" => ~CalldataSet
                      /\ status = "TypeMismatch" => ~KindsKnown(program)
    BY DEF NoRegisterFault
  <2>1. phase = "accepted" \/ status = "running"
    BY DEF RegisterInv, Served, Fresh
  <2> QED  BY <2>1 DEF RegisterInv, RunsWritten
<1> QED  BY <1>1, <1>2, <1>3, PTL DEF VerifiedSpec
=============================================================================
