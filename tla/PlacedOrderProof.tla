-------------------------- MODULE PlacedOrderProof --------------------------
(***************************************************************************)
(* Proofs about PlacedOrder: for every table of cases, every registry of   *)
(* topologies and every search budget, the job of an order is its model    *)
(* placed as its options say, through any number of set() calls, and the   *)
(* placement search is right whichever way it ends; a draft that the       *)
(* client accepted is one that the chain takes; the winners of an order    *)
(* share its whole reward and are listed as they are paid; best() returns  *)
(* what is paid for; a vector stands for a sample of the model with its    *)
(* energy; and a floor means what the user means by it.                    *)
(*                                                                         *)
(* SearchInv is about the backtracking stack: what is placed so far fits,  *)
(* every node that waits on the stack may be taken where it waits, and     *)
(* every embedding of the model that the search has not ruled out agrees   *)
(* with what is placed up to some depth and goes on from a node that waits *)
(* there.  A full placement therefore fits, and an empty stack leaves no   *)
(* embedding.  It rests on the order of the variables being a permutation  *)
(* of them, which is proved of the recursive function that builds it.      *)
(* OrderInv ties the draft to the search: the options and the job change   *)
(* together, and while a call searches, the search asks the question that  *)
(* its options pose.  TakenInv is about the draft: its options were        *)
(* checked as a whole when they were last merged, and its job has a        *)
(* coefficient for each node and edge of a finite graph whose edges end in *)
(* its nodes.  PaidInv is about an order that is open: whoever is ranked   *)
(* is ranked once, and answered.  StoredInv is about what is stored there: *)
(* every vector has a spin for every node of the job, whoever is ranked is *)
(* ranked at an energy that none of its vectors is below and that one has  *)
(* unless it is known to lack it, and what best() read is what is stored   *)
(* until the next answer.  MadeInv is about the jobs, the draft's and the  *)
(* one whose floors were refused last: each is the model, which has terms, *)
(* with a node of its own for every variable.                              *)
(***************************************************************************)
EXTENDS PlacedOrder, FiniteFacts, TLAPS

-----------------------------------------------------------------------------
(* The order in which a search takes the variables. *)

\* The variable that is chosen next is one of those that are left.
LEMMA MostConstrainedIs ==
    ASSUME NEW rest, rest \subseteq Int, IsFiniteSet(rest), rest # {}, NEW done,
           NEW couplings, IsFiniteSet(Ends(couplings))
    PROVE  MostConstrained(rest, done, couplings) \in rest
<1> DEFINE P == [v \in rest |-> Cardinality(Neighbours(couplings, v) \cap done)]
           D == [v \in rest |-> Cardinality(Neighbours(couplings, v))]
<1>1. \A v : /\ Cardinality(Neighbours(couplings, v) \cap done) \in Nat
             /\ Cardinality(Neighbours(couplings, v)) \in Nat
    <2> SUFFICES ASSUME NEW v
                 PROVE  /\ Cardinality(Neighbours(couplings, v) \cap done) \in Nat
                        /\ Cardinality(Neighbours(couplings, v)) \in Nat
        OBVIOUS
    <2>1. Neighbours(couplings, v) \subseteq Ends(couplings)
        BY DEF Neighbours
    <2>2. IsFiniteSet(Neighbours(couplings, v) \cap done) /\ IsFiniteSet(Neighbours(couplings, v))
        BY <2>1, FS_Subset
    <2>3. QED BY <2>2, FS_CardinalityType
<1>2. P \in [rest -> Nat] /\ D \in [rest -> Nat]
    BY <1>1
<1>3. \E v \in rest : \A w \in rest : \/ P[v] > P[w]
                                      \/ P[v] = P[w] /\ D[v] > D[w]
                                      \/ P[v] = P[w] /\ D[v] = D[w] /\ v <= w
    <2> HIDE DEF P, D
    <2> QED BY <1>2, FirstByMeasures
<1>4. QED BY <1>3 DEF MostConstrained

Longer(before, variables, couplings) ==
    Append(before, MostConstrained(variables \ ToSet(before), ToSet(before), couplings))
GrownTo(g, n, variables, couplings) ==
    g = [k \in 0..n |-> IF k = 0 THEN <<>> ELSE Longer(g[k - 1], variables, couplings)]

\* The recursion has a solution.
LEMMA GrownExists ==
    ASSUME NEW variables, NEW couplings, NEW n \in Nat
    PROVE  \E g : GrownTo(g, n, variables, couplings)
<1> DEFINE bad == {m \in Nat : ~ \E g : GrownTo(g, m, variables, couplings)}
<1>1. SUFFICES ASSUME bad # {} PROVE FALSE
    OBVIOUS
<1>2. PICK m \in bad : \A k \in bad : m <= k
    <2>1. bad \subseteq Nat
        OBVIOUS
    <2> HIDE DEF bad
    <2> QED BY <1>1, <2>1, LeastNatural
<1>3. m # 0
    <2>1. GrownTo([k \in 0..0 |-> <<>>], 0, variables, couplings)
        BY DEF GrownTo
    <2>2. QED BY <2>1
<1>4. m \in Nat /\ m - 1 \in Nat /\ m - 1 \notin bad
    BY <1>2, <1>3
<1>5. PICK g : GrownTo(g, m - 1, variables, couplings)
    BY <1>4
<1> DEFINE h == [k \in 0..m |-> IF k = m THEN Longer(g[m - 1], variables, couplings) ELSE g[k]]
<1>6. GrownTo(h, m, variables, couplings)
    <2>1. \A k \in 0..m : h[k] = IF k = 0 THEN <<>> ELSE Longer(h[k - 1], variables, couplings)
        <3> SUFFICES ASSUME NEW k \in 0..m
                     PROVE  h[k] = IF k = 0 THEN <<>> ELSE Longer(h[k - 1], variables, couplings)
            OBVIOUS
        <3>1. CASE k = m
            BY <1>3, <1>4, <3>1
        <3>2. CASE k # m
            <4>1. k \in 0..(m - 1)
                BY <1>4, <3>2
            <4>2. g[k] = IF k = 0 THEN <<>> ELSE Longer(g[k - 1], variables, couplings)
                BY <1>5, <4>1 DEF GrownTo
            <4>3. k # 0 => h[k - 1] = g[k - 1]
                BY <1>4, <4>1
            <4>4. QED BY <3>2, <4>1, <4>2, <4>3
        <3>3. QED BY <3>1, <3>2
    <2> HIDE DEF h
    <2>2. DOMAIN h = 0..m /\ h = [k \in DOMAIN h |-> h[k]]
        BY DEF h
    <2>3. h = [k \in 0..m |-> IF k = 0 THEN <<>> ELSE Longer(h[k - 1], variables, couplings)]
        BY <2>1, <2>2
    <2>4. QED BY <2>3 DEF GrownTo
<1>7. QED BY <1>2, <1>6

\* The order names every variable, and none twice.
LEMMA OrderIs ==
    ASSUME NEW variables, variables \subseteq Int, IsFiniteSet(variables),
           NEW couplings, IsFiniteSet(Ends(couplings))
    PROVE  LET order == PlacementOrder(variables, couplings)
           IN /\ order \in Seq(variables)
              /\ Len(order) = Cardinality(variables)
              /\ \A i, j \in DOMAIN order : i # j => order[i] # order[j]
              /\ ToSet(order) = variables
<1> DEFINE n == Cardinality(variables)
<1>1. n \in Nat
    BY FS_CardinalityType
<1>2. PICK g : /\ GrownTo(g, n, variables, couplings)
               /\ PlacementOrder(variables, couplings) = g[n]
    <2> DEFINE grown == CHOOSE g : GrownTo(g, n, variables, couplings)
    <2>1. \E g : GrownTo(g, n, variables, couplings)
        BY <1>1, GrownExists
    <2>2. GrownTo(grown, n, variables, couplings)
        BY <2>1
    <2>3. PlacementOrder(variables, couplings) = grown[n]
        BY DEF PlacementOrder, GrownTo, Longer
    <2>4. QED BY <2>2, <2>3
<1> HIDE DEF n
<1> DEFINE good(k) == /\ g[k] \in Seq(variables) /\ Len(g[k]) = k
                      /\ \A i, j \in 1..k : i # j => g[k][i] # g[k][j]
           bad == {k \in 0..n : ~good(k)}
<1>3. bad = {}
    <2>1. SUFFICES ASSUME bad # {} PROVE FALSE
        OBVIOUS
    <2>2. PICK k \in bad : \A m \in bad : k <= m
        <3>1. bad \subseteq Nat
            OBVIOUS
        <3> HIDE DEF bad
        <3> QED BY <2>1, <3>1, LeastNatural
    <2>3. k # 0
        <3>1. g[0] = <<>>
            BY <1>1, <1>2 DEF GrownTo
        <3>2. good(0)
            BY <3>1
        <3>3. QED BY <3>2
    <2>4. k \in 1..n /\ k - 1 \in 0..n /\ k - 1 \notin bad
        BY <1>1, <2>2, <2>3
    <2> DEFINE before == g[k - 1]
               rest == variables \ ToSet(before)
               next == MostConstrained(rest, ToSet(before), couplings)
    <2>5. before \in Seq(variables) /\ Len(before) = k - 1
          /\ \A i, j \in 1..(k - 1) : i # j => before[i] # before[j]
        BY <2>4
    <2>6. g[k] = Append(before, next)
        <3>1. k \in 0..n /\ k # 0
            BY <1>1, <2>4
        <3>2. g[k] = Longer(g[k - 1], variables, couplings)
            BY <1>2, <3>1 DEF GrownTo
        <3>3. QED BY <3>2 DEF Longer
    <2> HIDE DEF before
    <2>7. rest # {}
        <3>1. DOMAIN before = 1..(k - 1)
            BY <2>4, <2>5
        <3>2. IsFiniteSet(1..(k - 1)) /\ Cardinality(1..(k - 1)) = k - 1
            BY <2>4, FS_Interval
        <3>3. IsFiniteSet(ToSet(before)) /\ Cardinality(ToSet(before)) <= k - 1
            <4>1. before \in Surjection(1..(k - 1), ToSet(before))
                BY <2>5, <3>1 DEF Surjection, ToSet
            <4>2. QED BY <3>2, <4>1, FS_Surjection
        <3>4. SUFFICES ASSUME variables \subseteq ToSet(before) PROVE FALSE
            OBVIOUS
        <3>5. n <= Cardinality(ToSet(before))
            BY <3>3, <3>4, FS_Subset DEF n
        <3>6. Cardinality(ToSet(before)) \in Nat
            BY <3>3, FS_CardinalityType
        <3>7. QED BY <1>1, <2>4, <3>3, <3>5, <3>6
    <2>8. next \in variables /\ next \notin ToSet(before)
        <3>1. rest \subseteq Int /\ IsFiniteSet(rest)
            BY FS_Subset
        <3>2. next \in rest
            <4> HIDE DEF rest
            <4> QED BY <2>7, <3>1, MostConstrainedIs
        <3>3. QED BY <3>2
    <2> HIDE DEF next
    <2>9. good(k)
        <3>1. g[k] \in Seq(variables) /\ Len(g[k]) = k
            BY <2>4, <2>5, <2>6, <2>8
        <3>2. \A i \in 1..k : g[k][i] = IF i = k THEN next ELSE before[i]
            BY <2>4, <2>5, <2>6, <2>8
        <3>3. \A i \in 1..(k - 1) : before[i] # next
            BY <2>5, <2>8 DEF ToSet
        <3>4. QED BY <2>4, <2>5, <3>1, <3>2, <3>3
    <2>10. QED BY <2>2, <2>9
<1>4. good(n)
    BY <1>1, <1>3
<1>5. ToSet(g[n]) = variables
    <2> DEFINE order == g[n]
    <2>1. order \in Injection(1..n, ToSet(order)) /\ order \in Surjection(1..n, ToSet(order))
        <3> HIDE DEF order
        <3>1. DOMAIN order = 1..n /\ order = [i \in 1..n |-> order[i]]
            BY <1>1, <1>4 DEF order
        <3>2. order \in [1..n -> ToSet(order)]
            BY <3>1 DEF ToSet
        <3>3. \A i, j \in 1..n : order[i] = order[j] => i = j
            BY <1>4 DEF order
        <3>4. \A t \in ToSet(order) : \E i \in 1..n : order[i] = t
            BY <3>1 DEF ToSet
        <3>5. QED BY <3>1, <3>2, <3>3, <3>4 DEF Injection, Surjection, IsInjective
    <2>2. ToSet(order) \subseteq variables
        BY <1>1, <1>4 DEF ToSet
    <2>3. IsFiniteSet(1..n) /\ Cardinality(1..n) = n
        BY <1>1, FS_Interval
    <2>4. Cardinality(ToSet(order)) = n
        BY <2>1, <2>3, FS_Surjection
    <2>5. QED BY <2>2, <2>4, FS_Subset DEF n
<1>6. QED BY <1>1, <1>2, <1>4, <1>5 DEF n

-----------------------------------------------------------------------------
(* The search.  Its invariant says that what is placed fits, that every    *)
(* node on the stack may be taken where it stands, and that an embedding   *)
(* that was not tried yet goes on from a node of the stack.                *)

GoodGraph(top) == top.nodes \subseteq Int /\ IsFiniteSet(top.nodes)
GoodCouplings(variables, couplings) ==
    \A e \in couplings : e \in variables \X variables /\ e[1] <= e[2]

\* The node may be given to the k-th variable of the order, after those before it.
MayTake(s, at, k, node) ==
    /\ node \in s.top.nodes
    /\ \A i \in 1..(k - 1) : /\ node # at[s.order[i]]
                             /\ Edge(s.order[i], s.order[k]) \in s.couplings
                                  => HasEdge(s.top, at[s.order[i]], node)

\* The first d variables of the order are placed, and no other.
PlacedTo(s, at, used, d) ==
    /\ DOMAIN at = {s.order[i] : i \in 1..d}
    /\ used = {at[v] : v \in DOMAIN at}
    /\ \A i \in 1..d : MayTake(s, at, i, at[s.order[i]])

\* The embedding goes on from a node of the stack at depth k.
GoesOn(s, f, k) ==
    /\ f[s.order[k]] \in s.stack[k]
    /\ \A i \in 1..(k - 1) : f[s.order[i]] = s.at[s.order[i]]

SearchShape(s) ==
    /\ s = [result |-> s.result, top |-> s.top, couplings |-> s.couplings, order |-> s.order,
            stack |-> s.stack, at |-> s.at, used |-> s.used, budget |-> s.budget]
    /\ s.order \in Seq(Int) /\ Len(s.order) >= 1
    /\ \A i, j \in 1..Len(s.order) : i # j => s.order[i] # s.order[j]
    /\ GoodGraph(s.top) /\ GoodCouplings(ToSet(s.order), s.couplings)

SearchGoes(s) ==
    /\ s.stack \in Seq(SUBSET s.top.nodes) /\ Len(s.stack) \in 1..Len(s.order)
    /\ PlacedTo(s, s.at, s.used, Len(s.stack) - 1)
    /\ \A k \in 1..Len(s.stack) : \A node \in s.stack[k] : MayTake(s, s.at, k, node)
    /\ \A f \in Embeddings(ToSet(s.order), Between(s.couplings), s.top) : \E k \in 1..Len(s.stack) : GoesOn(s, f, k)

SearchInv ==
    /\ search = NoSearch \/ SearchShape(search)
    /\ search.result = "searching" => SearchGoes(search)
    /\ search.result = "placed" => DOMAIN search.at = ToSet(search.order)
    /\ SearchIsRight

\* An edge is the same in both directions.
LEMMA EdgeIs ==
    ASSUME NEW u \in Int, NEW v \in Int
    PROVE  /\ Edge(u, v) = Edge(v, u)
           /\ Edge(u, v) = <<u, v>> \/ Edge(u, v) = <<v, u>>
           /\ \A top : HasEdge(top, u, v) = HasEdge(top, v, u)
<1>1. Edge(u, v) = Edge(v, u) /\ (Edge(u, v) = <<u, v>> \/ Edge(u, v) = <<v, u>>)
    BY DEF Edge
<1>2. QED BY <1>1 DEF HasEdge

\* Variables that are all placed as they may be are placed as they fit.
LEMMA PlacedFits ==
    ASSUME NEW s, SearchShape(s), NEW at, NEW used, PlacedTo(s, at, used, Len(s.order))
    PROVE  MappingFits(ToSet(s.order), Between(s.couplings), s.top, at)
<1> DEFINE n == Len(s.order)
<1>1. n \in Nat /\ DOMAIN s.order = 1..n /\ \A i \in 1..n : s.order[i] \in Int
    BY DEF SearchShape
<1>2. ToSet(s.order) = DOMAIN at
    BY <1>1 DEF ToSet, PlacedTo
<1>3. \A i \in 1..n : at[s.order[i]] \in s.top.nodes /\ at[s.order[i]] \in Int
    BY DEF PlacedTo, MayTake, SearchShape, GoodGraph
<1>4. \A i, j \in 1..n : i < j =>
         /\ at[s.order[j]] # at[s.order[i]]
         /\ Edge(s.order[i], s.order[j]) \in s.couplings => HasEdge(s.top, at[s.order[i]], at[s.order[j]])
    <2> SUFFICES ASSUME NEW i \in 1..n, NEW j \in 1..n, i < j
                 PROVE  /\ at[s.order[j]] # at[s.order[i]]
                        /\ Edge(s.order[i], s.order[j]) \in s.couplings
                             => HasEdge(s.top, at[s.order[i]], at[s.order[j]])
        OBVIOUS
    <2>1. MayTake(s, at, j, at[s.order[j]])
        BY DEF PlacedTo
    <2>2. i \in 1..(j - 1)
        BY <1>1
    <2>3. QED BY <2>1, <2>2 DEF MayTake
<1>5. \A v \in ToSet(s.order) : \E i \in 1..n : v = s.order[i]
    BY <1>1 DEF ToSet
<1> HIDE DEF n
<1>6. \A v, w \in ToSet(s.order) : v # w => at[v] # at[w]
    <2> SUFFICES ASSUME NEW v \in ToSet(s.order), NEW w \in ToSet(s.order), v # w PROVE at[v] # at[w]
        OBVIOUS
    <2>1. PICK i \in 1..n, j \in 1..n : v = s.order[i] /\ w = s.order[j]
        BY <1>5
    <2>2. i < j \/ j < i
        BY <1>1, <2>1
    <2>3. QED BY <1>4, <2>1, <2>2
<1>7. \A e \in Between(s.couplings) : HasEdge(s.top, at[e[1]], at[e[2]])
    <2> SUFFICES ASSUME NEW e \in Between(s.couplings) PROVE HasEdge(s.top, at[e[1]], at[e[2]])
        OBVIOUS
    <2>1. e \in s.couplings /\ e \in ToSet(s.order) \X ToSet(s.order) /\ e[1] <= e[2] /\ e[1] # e[2]
        BY DEF SearchShape, GoodCouplings, Between
    <2>2. PICK i \in 1..n, j \in 1..n : e[1] = s.order[i] /\ e[2] = s.order[j]
        BY <1>5, <2>1
    <2>3. e[1] \in Int /\ e[2] \in Int
        BY <1>1, <2>2
    <2>4. e = Edge(e[1], e[2]) /\ e = Edge(e[2], e[1])
        BY <2>1, <2>3 DEF Edge
    <2>5. i < j \/ j < i
        BY <1>1, <2>1, <2>2, <2>3
    <2>6. CASE i < j
        BY <1>4, <2>1, <2>2, <2>4, <2>6
    <2>7. CASE j < i
        <3>1. HasEdge(s.top, at[e[2]], at[e[1]])
            BY <1>4, <2>1, <2>2, <2>4, <2>7
        <3>2. QED BY <1>3, <2>2, <3>1, EdgeIs
    <2>8. QED BY <2>5, <2>6, <2>7
<1>8. QED BY <1>2, <1>3, <1>5, <1>6, <1>7 DEF MappingFits

\* What an embedding does to two variables of the order.
LEMMA EmbeddingIs ==
    ASSUME NEW s, SearchShape(s), NEW f \in Embeddings(ToSet(s.order), Between(s.couplings), s.top),
           NEW i \in 1..Len(s.order)
    PROVE  /\ f[s.order[i]] \in s.top.nodes
           /\ \A j \in 1..Len(s.order) : i # j =>
                /\ f[s.order[i]] # f[s.order[j]]
                /\ Edge(s.order[i], s.order[j]) \in s.couplings =>
                     HasEdge(s.top, f[s.order[i]], f[s.order[j]])
<1>1. \A k \in 1..Len(s.order) : s.order[k] \in ToSet(s.order) /\ s.order[k] \in Int
    BY DEF ToSet, SearchShape
<1>2. MappingFits(ToSet(s.order), Between(s.couplings), s.top, f)
    BY DEF Embeddings
<1>3. \A k \in 1..Len(s.order) : f[s.order[k]] \in s.top.nodes /\ f[s.order[k]] \in Int
    BY <1>1, <1>2 DEF MappingFits, SearchShape, GoodGraph
<1>4. SUFFICES ASSUME NEW j \in 1..Len(s.order), i # j
               PROVE  /\ f[s.order[i]] # f[s.order[j]]
                      /\ Edge(s.order[i], s.order[j]) \in s.couplings =>
                           HasEdge(s.top, f[s.order[i]], f[s.order[j]])
    BY <1>3
<1>5. s.order[i] # s.order[j]
    BY <1>4 DEF SearchShape
<1>6. f[s.order[i]] # f[s.order[j]]
    BY <1>1, <1>2, <1>5 DEF MappingFits
<1>7. ASSUME Edge(s.order[i], s.order[j]) \in s.couplings
      PROVE  HasEdge(s.top, f[s.order[i]], f[s.order[j]])
    <2> DEFINE e == Edge(s.order[i], s.order[j])
    <2>1. e = <<s.order[i], s.order[j]>> \/ e = <<s.order[j], s.order[i]>>
        BY <1>1, EdgeIs
    <2>2. HasEdge(s.top, f[e[1]], f[e[2]])
        BY <1>2, <1>5, <1>7, <2>1 DEF MappingFits, Between
    <2>3. QED BY <1>3, <2>1, <2>2, EdgeIs
<1>8. QED BY <1>6, <1>7

\* The candidates of the next variable are the nodes that it may take.
LEMMA CandidatesAre ==
    ASSUME NEW s, SearchShape(s), NEW at, NEW used, NEW d \in 0..(Len(s.order) - 1), PlacedTo(s, at, used, d),
           NEW node
    PROVE  node \in Candidates(s, at, used, s.order[d + 1]) <=> MayTake(s, at, d + 1, node)
<1> DEFINE var == s.order[d + 1]
           placed == Neighbours(s.couplings, var) \cap DOMAIN at
<1>1. Len(s.order) \in Nat /\ d + 1 \in 1..Len(s.order) /\ \A i \in 1..d : i \in 1..Len(s.order)
    BY DEF SearchShape
<1>2. \A i \in 1..Len(s.order) : s.order[i] \in Int
    BY DEF SearchShape
<1>3. \A i \in 1..d : s.order[i] # var
    BY SMTT(60), <1>1 DEF SearchShape
<1>4. \A i \in 1..d : s.order[i] \in placed <=> Edge(s.order[i], var) \in s.couplings
    <2> SUFFICES ASSUME NEW i \in 1..d
                 PROVE  s.order[i] \in placed <=> Edge(s.order[i], var) \in s.couplings
        OBVIOUS
    <2>1. Edge(var, s.order[i]) = Edge(s.order[i], var)
        BY <1>1, <1>2, EdgeIs
    <2>2. Edge(var, s.order[i]) \in s.couplings => s.order[i] \in Ends(s.couplings)
        <3>1. Edge(var, s.order[i]) = <<var, s.order[i]>> \/ Edge(var, s.order[i]) = <<s.order[i], var>>
            BY <1>1, <1>2, EdgeIs
        <3>2. QED BY <3>1 DEF Ends
    <2>3. s.order[i] \in DOMAIN at
        BY DEF PlacedTo
    <2>4. QED BY <1>3, <2>1, <2>2, <2>3 DEF Neighbours
<1>5. \A w \in placed : \E i \in 1..d : w = s.order[i]
    BY DEF PlacedTo
<1>6. used = {at[s.order[i]] : i \in 1..d}
    BY DEF PlacedTo
<1>7. node \in Candidates(s, at, used, var) <=>
        /\ node \in s.top.nodes /\ node \notin used
        /\ \A w \in placed : node \in s.top.nodes /\ HasEdge(s.top, at[w], node)
    BY DEF Candidates, Adjacency
<1> HIDE DEF placed
<1>8. (\A w \in placed : HasEdge(s.top, at[w], node)) <=>
        \A i \in 1..d : Edge(s.order[i], var) \in s.couplings => HasEdge(s.top, at[s.order[i]], node)
    BY <1>4, <1>5
<1>9. (d + 1) - 1 = d
    OBVIOUS
<1>10. QED BY <1>6, <1>7, <1>8, <1>9 DEF MayTake

\* What a step of the search leaves as it is.
SameQuestion ==
    search'.top = search.top /\ search'.couplings = search.couplings /\ search'.order = search.order

\* The lowest candidate is taken, and what was promised of the others stays.
LEMMA AdvanceStep ==
    ASSUME SearchInv, Advance
    PROVE  SearchInv' /\ SameQuestion
<1> DEFINE s == search
           d == Len(s.stack)
           var == s.order[d]
           node == Min(s.stack[d])
           at == [v \in DOMAIN s.at \cup {var} |-> IF v = var THEN node ELSE s.at[v]]
           used == s.used \cup {node}
           tried == [s.stack EXCEPT ![d] = @ \ {node}]
           last == d = Len(s.order)
<1>1. SearchShape(s) /\ SearchGoes(s)
    BY DEF SearchInv, Advance, NoSearch
<1>2. d \in 1..Len(s.order) /\ Len(s.order) \in Nat /\ s.stack \in Seq(SUBSET s.top.nodes)
    BY <1>1 DEF SearchGoes, SearchShape
<1>3. MayTake(s, s.at, d, node) /\ node \in s.stack[d]
    <2>1. s.stack[d] # {} /\ s.stack[d] \subseteq s.top.nodes
        BY <1>2 DEF Advance, Depth
    <2>2. s.stack[d] \subseteq Int /\ IsFiniteSet(s.stack[d])
        BY <1>1, <2>1, FS_Subset DEF SearchShape, GoodGraph
    <2>3. node \in s.stack[d]
        BY <2>1, <2>2, MinIs
    <2>4. QED BY <1>1, <1>2, <2>3 DEF SearchGoes
<1>4. /\ s' = [s EXCEPT !.at = at, !.used = used, !.budget = @ - 1,
                        !.result = IF last THEN "placed" ELSE @,
                        !.stack = IF last THEN tried
                                  ELSE Append(tried, Candidates(s, at, used, s.order[d + 1]))]
      /\ s.result = "searching"
    BY DEF Advance, Depth
<1> HIDE DEF node
<1>5. /\ s' = [result |-> s'.result, top |-> s.top, couplings |-> s.couplings, order |-> s.order,
               stack |-> s'.stack, at |-> at, used |-> used, budget |-> s'.budget]
      /\ s'.result = IF last THEN "placed" ELSE "searching"
      /\ s'.stack = IF last THEN tried ELSE Append(tried, Candidates(s, at, used, s.order[d + 1]))
    <2> HIDE DEF at, used, tried, last, d
    <2>1. s = [result |-> s.result, top |-> s.top, couplings |-> s.couplings, order |-> s.order,
               stack |-> s.stack, at |-> s.at, used |-> s.used, budget |-> s.budget]
        BY <1>1 DEF SearchShape
    <2>2. QED BY <1>4, <2>1
<1>6. SearchShape(s)'
    <2> HIDE DEF at, used, tried, last, d
    <2> QED BY <1>1, <1>5 DEF SearchShape
<1>7. \A i \in 1..(d - 1) : s.order[i] # var /\ at[s.order[i]] = s.at[s.order[i]]
    <2>1. \A i \in 1..(d - 1) : i \in 1..Len(s.order) /\ i # d
        BY <1>2
    <2>2. \A i \in 1..(d - 1) : s.order[i] # var
        BY <1>1, <1>2, <2>1 DEF SearchShape
    <2>3. \A i \in 1..(d - 1) : s.order[i] \in DOMAIN s.at
        BY <1>1 DEF SearchGoes, PlacedTo
    <2>4. QED BY <2>2, <2>3
<1>8. at[var] = node
    OBVIOUS
<1>9. \A k \in 1..d : \A m : MayTake(s, at, k, m) <=> MayTake(s, s.at, k, m)
    <2> SUFFICES ASSUME NEW k \in 1..d, NEW m PROVE MayTake(s, at, k, m) <=> MayTake(s, s.at, k, m)
        OBVIOUS
    <2>1. \A i \in 1..(k - 1) : i \in 1..(d - 1)
        BY <1>2
    <2> HIDE DEF at
    <2>2. \A i \in 1..(k - 1) : at[s.order[i]] = s.at[s.order[i]]
        BY <1>7, <2>1
    <2>3. QED BY <2>2 DEF MayTake
<1>10. PlacedTo(s, at, used, d)
    <2>1. DOMAIN at = {s.order[i] : i \in 1..d}
        <3>1. DOMAIN s.at = {s.order[i] : i \in 1..(d - 1)}
            BY <1>1 DEF SearchGoes, PlacedTo
        <3>2. 1..d = (1..(d - 1)) \cup {d}
            BY <1>2
        <3> HIDE DEF d
        <3>3. QED BY <3>1, <3>2
    <2>2. used = {at[v] : v \in DOMAIN at}
        <3>1. s.used = {s.at[v] : v \in DOMAIN s.at}
            BY <1>1 DEF SearchGoes, PlacedTo
        <3>2. var \notin DOMAIN s.at
            BY <1>1, <1>7 DEF SearchGoes, PlacedTo
        <3> HIDE DEF d, var
        <3>3. QED BY <3>1, <3>2
    <2>3. \A i \in 1..d : MayTake(s, at, i, at[s.order[i]])
        <3> SUFFICES ASSUME NEW i \in 1..d PROVE MayTake(s, at, i, at[s.order[i]])
            OBVIOUS
        <3> HIDE DEF at
        <3>1. CASE i = d
            BY <1>3, <1>8, <1>9, <3>1
        <3>2. CASE i # d
            <4>1. i \in 1..(d - 1)
                BY <1>2, <3>2
            <4>2. MayTake(s, s.at, i, s.at[s.order[i]])
                BY <1>1, <4>1 DEF SearchGoes, PlacedTo
            <4>3. QED BY <1>7, <1>9, <4>1, <4>2
        <3>3. QED BY <3>1, <3>2
    <2>4. QED BY <2>1, <2>2, <2>3 DEF PlacedTo
<1> HIDE DEF at, used, last
<1>11. s'.top = s.top /\ s'.couplings = s.couplings /\ s'.order = s.order /\ s'.at = at /\ s'.used = used
    BY <1>5
<1>12. \A k, m, a : MayTake(s', a, k, m) <=> MayTake(s, a, k, m)
    BY <1>11 DEF MayTake
<1>13. CASE last
    <2>1. MappingFits(ToSet(s.order), Between(s.couplings), s.top, at)
        BY <1>1, <1>10, <1>13, PlacedFits DEF last
    <2>2. SearchIsRight'
        BY <1>5, <1>11, <1>13, <2>1 DEF SearchIsRight
    <2>3. DOMAIN at = ToSet(s.order)
        <3>1. DOMAIN at = {s.order[i] : i \in 1..Len(s.order)} /\ DOMAIN s.order = 1..Len(s.order)
            BY <1>1, <1>10, <1>13 DEF PlacedTo, SearchShape, last
        <3>2. QED BY <3>1 DEF ToSet
    <2>4. QED BY <1>5, <1>6, <1>11, <1>13, <2>2, <2>3 DEF SearchInv, SameQuestion
<1>14. CASE ~last
    <2> DEFINE next == Candidates(s, at, used, s.order[d + 1])
    <2>1. d \in 1..(Len(s.order) - 1)
        BY <1>2, <1>14 DEF last
    <2>2. \A m : m \in next <=> MayTake(s, at, d + 1, m)
        BY <1>1, <1>10, <2>1, CandidatesAre
    <2>3. next \subseteq s.top.nodes
        BY <2>2 DEF MayTake
    <2> HIDE DEF next
    <2>4. s'.stack = Append(tried, next)
        BY <1>5, <1>14 DEF next
    <2>5. tried \in Seq(SUBSET s.top.nodes) /\ Len(tried) = d
        BY <1>2
    <2>6. /\ s'.stack \in Seq(SUBSET s.top.nodes) /\ Len(s'.stack) = d + 1
          /\ \A k \in 1..d : s'.stack[k] = tried[k]
          /\ s'.stack[d + 1] = next
        <3> HIDE DEF tried, d
        <3> QED BY <1>2, <2>3, <2>4, <2>5
    <2>7. \A k \in 1..d : tried[k] = IF k = d THEN s.stack[d] \ {node} ELSE s.stack[k]
        BY <1>2
    <2> HIDE DEF tried
    <2>8. PlacedTo(s', s'.at, s'.used, Len(s'.stack) - 1)
        <3>1. Len(s'.stack) - 1 = d
            BY <1>2, <2>6
        <3>2. QED BY <1>10, <1>11, <1>12, <3>1 DEF PlacedTo
    <2>9. \A k \in 1..(d + 1) : \A m \in s'.stack[k] : MayTake(s', s'.at, k, m)
        <3> SUFFICES ASSUME NEW k \in 1..(d + 1), NEW m \in s'.stack[k] PROVE MayTake(s, at, k, m)
            BY <1>11, <1>12
        <3>1. CASE k = d + 1
            BY <2>2, <2>6, <3>1
        <3>2. CASE k # d + 1
            <4>1. k \in 1..d
                BY <1>2, <3>2
            <4>2. m \in s.stack[k]
                BY <2>6, <2>7, <4>1
            <4>3. MayTake(s, s.at, k, m)
                BY <1>1, <4>1, <4>2 DEF SearchGoes
            <4>4. QED BY <1>9, <4>1, <4>3
        <3>3. QED BY <3>1, <3>2
    <2>10. ASSUME NEW f \in Embeddings(ToSet(s.order), Between(s.couplings), s.top)
           PROVE  \E k \in 1..(d + 1) : GoesOn(s', f, k)
        <3>1. PICK k \in 1..d : GoesOn(s, f, k)
            BY <1>1 DEF SearchGoes
        <3>2. \A i \in 1..(k - 1) : f[s.order[i]] = at[s.order[i]]
            <4>1. \A i \in 1..(k - 1) : i \in 1..(d - 1)
                BY <1>2
            <4>2. QED BY <1>7, <3>1, <4>1 DEF GoesOn
        <3>3. CASE ~(k = d /\ f[var] = node)
            <4>1. f[s.order[k]] \in s'.stack[k]
                BY <2>6, <2>7, <3>1, <3>3 DEF GoesOn
            <4>2. k \in 1..(d + 1)
                BY <1>2
            <4>3. QED BY <1>11, <3>2, <4>1, <4>2 DEF GoesOn
        <3>4. CASE k = d /\ f[var] = node
            <4>1. \A i \in 1..d : f[s.order[i]] = at[s.order[i]]
                <5>1. \A i \in 1..d : i # d => i \in 1..(d - 1)
                    BY <1>2
                <5>2. QED BY <1>8, <3>2, <3>4, <5>1
            <4>2. d + 1 \in 1..Len(s.order) /\ \A i \in 1..d : i \in 1..Len(s.order) /\ i # d + 1
                BY <2>1
            <4>3. MayTake(s, at, d + 1, f[s.order[d + 1]])
                <5>1. f[s.order[d + 1]] \in s.top.nodes
                    BY <1>1, <4>2, EmbeddingIs
                <5>2. \A i \in 1..d : /\ f[s.order[i]] # f[s.order[d + 1]]
                                      /\ Edge(s.order[i], s.order[d + 1]) \in s.couplings
                                           => HasEdge(s.top, f[s.order[i]], f[s.order[d + 1]])
                    BY <1>1, <4>2, EmbeddingIs
                <5>3. (d + 1) - 1 = d
                    BY <1>2
                <5>4. QED BY <4>1, <5>1, <5>2, <5>3 DEF MayTake
            <4>4. f[s.order[d + 1]] \in s'.stack[d + 1]
                BY <2>2, <2>6, <4>3
            <4>5. (d + 1) - 1 = d /\ d + 1 \in 1..(d + 1)
                BY <1>2
            <4>6. QED BY <1>11, <4>1, <4>4, <4>5 DEF GoesOn
        <3>5. QED BY <3>3, <3>4
    <2>11. Len(s'.stack) \in 1..Len(s.order)
        BY <2>1, <2>6
    <2>12. SearchGoes(s)'
        BY <1>11, <2>6, <2>8, <2>9, <2>10, <2>11 DEF SearchGoes
    <2>13. SearchIsRight'
        BY <1>5, <1>14 DEF SearchIsRight
    <2>14. QED BY <1>5, <1>6, <1>11, <1>14, <2>12, <2>13 DEF SearchInv, SameQuestion
<1>15. QED BY <1>13, <1>14

\* A search that gives up says nothing.
LEMMA ExhaustStep ==
    ASSUME SearchInv, Exhaust
    PROVE  SearchInv' /\ SameQuestion
<1>1. SearchShape(search)
    BY DEF SearchInv, Exhaust, NoSearch
<1>2. search' = [result |-> "exhausted", top |-> search.top, couplings |-> search.couplings,
                 order |-> search.order, stack |-> search.stack, at |-> search.at, used |-> search.used,
                 budget |-> search.budget]
    BY <1>1 DEF Exhaust, SearchShape
<1>3. SearchShape(search)'
    BY <1>1, <1>2 DEF SearchShape
<1>4. QED BY <1>2, <1>3 DEF SearchInv, SearchIsRight, SameQuestion

\* A depth without candidates holds no embedding.
LEMMA RetreatStep ==
    ASSUME SearchInv, Retreat
    PROVE  SearchInv' /\ SameQuestion
<1> DEFINE s == search
           d == Len(s.stack)
<1>1. SearchShape(s) /\ SearchGoes(s)
    BY DEF SearchInv, Retreat, NoSearch
<1>2. /\ d \in 1..Len(s.order) /\ Len(s.order) \in Nat /\ s.stack \in Seq(SUBSET s.top.nodes)
      /\ s.stack[d] = {} /\ s.result = "searching"
    BY <1>1 DEF SearchGoes, SearchShape, Retreat, Depth
<1>3. s = [result |-> s.result, top |-> s.top, couplings |-> s.couplings, order |-> s.order,
           stack |-> s.stack, at |-> s.at, used |-> s.used, budget |-> s.budget]
    BY <1>1 DEF SearchShape
<1>4. CASE d = 1
    <2>1. s' = [result |-> "none", top |-> s.top, couplings |-> s.couplings, order |-> s.order,
                stack |-> s.stack, at |-> s.at, used |-> s.used, budget |-> s.budget]
        BY <1>3, <1>4 DEF Retreat, Depth
    <2>2. Embeddings(ToSet(s.order), Between(s.couplings), s.top) = {}
        BY <1>1, <1>2, <1>4 DEF SearchGoes, GoesOn
    <2>3. SearchShape(s)'
        BY <1>1, <2>1 DEF SearchShape
    <2>4. SearchIsRight'
        BY <2>1, <2>2 DEF SearchIsRight
    <2>5. QED BY <2>1, <2>3, <2>4 DEF SearchInv, SameQuestion
<1>5. CASE d # 1
    <2> DEFINE parent == s.order[d - 1]
               at == [v \in DOMAIN s.at \ {parent} |-> s.at[v]]
               used == s.used \ {s.at[parent]}
    <2>1. s' = [s EXCEPT !.stack = Front(@), !.used = used, !.at = at]
        BY <1>5 DEF Retreat, Depth
    <2>2. s' = [result |-> "searching", top |-> s.top, couplings |-> s.couplings, order |-> s.order,
                stack |-> Front(s.stack), at |-> at, used |-> used, budget |-> s.budget]
        <3> HIDE DEF at, used
        <3> QED BY <1>2, <1>3, <2>1
    <2>3. d - 1 \in 1..Len(s.order) /\ d - 1 \in 1..(d - 1) /\ (d - 1) - 1 = d - 2
        <3> HIDE DEF d
        <3> QED BY <1>2, <1>5
    <2>4. /\ Front(s.stack) \in Seq(SUBSET s.top.nodes) /\ Len(Front(s.stack)) = d - 1
          /\ \A k \in 1..(d - 1) : Front(s.stack)[k] = s.stack[k]
        BY <1>2, FrontIs
    <2>5. PlacedTo(s, s.at, s.used, d - 1)
        BY <1>1 DEF SearchGoes
    <2>6. \A i \in 1..(d - 2) : s.order[i] # parent /\ i \in 1..(d - 1)
        <3>1. \A i \in 1..(d - 2) : i \in 1..Len(s.order) /\ i # d - 1 /\ i \in 1..(d - 1)
            BY <1>2
        <3>2. QED BY <1>1, <2>3, <3>1 DEF SearchShape
    <2>7. 1..(d - 1) = (1..(d - 2)) \cup {d - 1}
        BY <2>3
    <2>8. DOMAIN at = {s.order[i] : i \in 1..(d - 2)}
        <3>1. DOMAIN s.at = {s.order[i] : i \in 1..(d - 1)}
            BY <2>5 DEF PlacedTo
        <3> HIDE DEF d
        <3>2. QED BY <2>6, <2>7, <3>1
    <2>9. \A i \in 1..(d - 2) : at[s.order[i]] = s.at[s.order[i]]
        BY <2>8
    <2> HIDE DEF at
    <2>10. \A k \in 1..(d - 1) : \A m : MayTake(s, at, k, m) <=> MayTake(s, s.at, k, m)
        <3> SUFFICES ASSUME NEW k \in 1..(d - 1), NEW m PROVE MayTake(s, at, k, m) <=> MayTake(s, s.at, k, m)
            OBVIOUS
        <3>1. \A i \in 1..(k - 1) : i \in 1..(d - 2)
            BY <1>2
        <3>2. \A i \in 1..(k - 1) : at[s.order[i]] = s.at[s.order[i]]
            BY <2>9, <3>1
        <3>3. QED BY <3>2 DEF MayTake
    <2>11. PlacedTo(s, at, used, d - 2)
        <3>1. used = {at[v] : v \in DOMAIN at}
            <4>1. s.used = {s.at[s.order[i]] : i \in 1..(d - 1)}
                BY <2>5 DEF PlacedTo
            <4>2. \A i \in 1..(d - 2) : s.at[s.order[i]] # s.at[parent]
                <5>1. MayTake(s, s.at, d - 1, s.at[parent])
                    BY <2>3, <2>5 DEF PlacedTo
                <5>2. QED BY <2>3, <5>1 DEF MayTake
            <4> HIDE DEF d
            <4>3. {at[v] : v \in DOMAIN at} = {s.at[s.order[i]] : i \in 1..(d - 2)}
                BY <2>8, <2>9
            <4>4. QED BY <2>7, <4>1, <4>2, <4>3
        <3>2. \A i \in 1..(d - 2) : MayTake(s, at, i, at[s.order[i]])
            BY <2>5, <2>6, <2>9, <2>10 DEF PlacedTo
        <3>3. QED BY <2>8, <3>1, <3>2 DEF PlacedTo
    <2> HIDE DEF used
    <2>12. \A k, m, a : MayTake(s', a, k, m) <=> MayTake(s, a, k, m)
        BY <2>2 DEF MayTake
    <2>13. PlacedTo(s', s'.at, s'.used, Len(s'.stack) - 1)
        <3>1. Len(s'.stack) - 1 = d - 2
            BY <2>2, <2>3, <2>4
        <3>2. s'.at = at /\ s'.used = used /\ s'.order = s.order
            BY <2>2
        <3>3. QED BY <2>11, <2>12, <3>1, <3>2 DEF PlacedTo
    <2>14. \A k \in 1..(d - 1) : \A m \in s'.stack[k] : MayTake(s', s'.at, k, m)
        <3> SUFFICES ASSUME NEW k \in 1..(d - 1), NEW m \in s'.stack[k] PROVE MayTake(s', s'.at, k, m)
            OBVIOUS
        <3>1. m \in s.stack[k] /\ k \in 1..d
            BY <1>2, <2>2, <2>4
        <3>2. MayTake(s, s.at, k, m)
            BY <1>1, <3>1 DEF SearchGoes
        <3>3. QED BY <2>2, <2>10, <2>12, <3>2
    <2>15. ASSUME NEW f \in Embeddings(ToSet(s.order), Between(s.couplings), s.top)
           PROVE  \E k \in 1..(d - 1) : GoesOn(s', f, k)
        <3>1. PICK k \in 1..d : GoesOn(s, f, k)
            BY <1>1 DEF SearchGoes
        <3>2. k # d
            BY <1>2, <3>1 DEF GoesOn
        <3>3. k \in 1..(d - 1) /\ \A i \in 1..(k - 1) : i \in 1..(d - 2)
            BY <1>2, <3>2
        <3>4. GoesOn(s', f, k)
            BY <2>2, <2>4, <2>9, <3>1, <3>3 DEF GoesOn
        <3>5. QED BY <3>3, <3>4
    <2>16. Len(s'.stack) = d - 1 /\ Len(s'.stack) \in 1..Len(s.order) /\ s'.stack \in Seq(SUBSET s.top.nodes)
        BY <2>2, <2>3, <2>4
    <2>17. SearchGoes(s)'
        BY <2>2, <2>13, <2>14, <2>15, <2>16 DEF SearchGoes
    <2>18. SearchShape(s)'
        BY <1>1, <2>2 DEF SearchShape
    <2>19. QED BY <2>2, <2>17, <2>18 DEF SearchInv, SearchIsRight, SameQuestion
<1>6. QED BY <1>4, <1>5

-----------------------------------------------------------------------------
(* What is placed. *)

\* The variables of a model of a case are finitely many numbers, its couplings
\* are between them, and a model with a term has a variable.
LEMMA ModelIs ==
    ASSUME case \in DOMAIN Cases
    PROVE  /\ Variables(C.model) \subseteq Int /\ IsFiniteSet(Variables(C.model))
           /\ GoodCouplings(Variables(C.model), Couplings(C.model))
           /\ IsFiniteSet(Ends(Couplings(C.model)))
           /\ HasTerms(C.model) => Variables(C.model) # {}
<1> DEFINE m == C.model
           all == 0..(m.size - 1)
<1>1. IsModel(m)
    BY PlacedOrderAssumption DEF C, IsCase
<1> HIDE DEF m
<1>2. Couplings(m) \subseteq DOMAIN m.quad
    BY DEF Couplings, IsingCoefficients, Between
<1>3. Ends(DOMAIN m.quad) \subseteq all /\ Ends(Couplings(m)) \subseteq Ends(DOMAIN m.quad)
    BY <1>1, <1>2 DEF IsModel, Ends
<1>4. DOMAIN IsingCoefficients(m).h \subseteq all
    BY <1>1, <1>3 DEF IsingCoefficients, IsModel
<1>5. IsFiniteSet(all) /\ all \subseteq Int
    BY <1>1, FS_Interval DEF IsModel
<1>6. Variables(m) \subseteq all /\ Ends(Couplings(m)) \subseteq Variables(m)
    BY <1>3, <1>4 DEF Variables
<1>7. GoodCouplings(Variables(m), Couplings(m))
    <2> SUFFICES ASSUME NEW e \in Couplings(m) PROVE e \in Variables(m) \X Variables(m) /\ e[1] <= e[2]
        BY DEF GoodCouplings
    <2>1. e \in all \X all /\ e[1] <= e[2]
        BY <1>1, <1>2 DEF IsModel
    <2>2. e[1] \in Ends(Couplings(m)) /\ e[2] \in Ends(Couplings(m))
        BY DEF Ends
    <2>3. QED BY <1>6, <2>1, <2>2
<1>8. ASSUME HasTerms(m) PROVE Variables(m) # {}
    <2>1. CASE DOMAIN m.lin # {}
        BY <2>1 DEF Variables, IsingCoefficients
    <2>2. CASE DOMAIN m.quad # {}
        <3>1. Ends(DOMAIN m.quad) # {}
            BY SMTT(60), <2>2 DEF Ends
        <3>2. CASE m.domain = "spin"
            BY <3>1, <3>2 DEF Variables, Couplings, IsingCoefficients
        <3>3. CASE m.domain # "spin"
            BY <3>1, <3>3 DEF Variables, IsingCoefficients
        <3>4. QED BY <3>2, <3>3
    <2>3. QED BY <1>8, <2>1, <2>2 DEF HasTerms
<1>9. QED BY <1>5, <1>6, <1>7, <1>8, FS_Subset DEF m

\* A model fits its own graph, its variables renumbered.
LEMMA NativeFits ==
    ASSUME NEW model, Variables(model) \subseteq Int, IsFiniteSet(Variables(model)),
           GoodCouplings(Variables(model), Couplings(model))
    PROVE  MappingFits(Variables(model), Between(Couplings(model)), NativeTopology(model), NativeMapping(model))
<1> DEFINE variables == Variables(model)
           at == NativeMapping(model)
           below(v) == {w \in variables : w < v}
<1>1. \A v \in variables : at[v] = Cardinality(below(v))
    BY DEF NativeMapping, Rank
<1>2. ASSUME NEW v \in variables, NEW w \in variables, v < w PROVE at[v] # at[w]
    <2>1. v \in Int /\ w \in Int
        OBVIOUS
    <2>2. below(v) \subseteq below(w) /\ v \in below(w) /\ v \notin below(v)
        BY <1>2, <2>1
    <2>3. IsFiniteSet(below(w))
        BY FS_Subset
    <2> HIDE DEF below
    <2>4. Cardinality(below(v)) # Cardinality(below(w))
        BY <2>2, <2>3, FS_Subset
    <2>5. QED BY <1>1, <2>4
<1>3. \A v, w \in variables : v # w => at[v] # at[w]
    <2> SUFFICES ASSUME NEW v \in variables, NEW w \in variables, v # w PROVE at[v] # at[w]
        OBVIOUS
    <2>1. v \in Int /\ w \in Int
        OBVIOUS
    <2>2. v < w \/ w < v
        BY <2>1
    <2>3. QED BY <1>2, <2>2
<1>4. DOMAIN at = variables /\ \A v \in variables : at[v] \in NativeTopology(model).nodes
    BY DEF NativeMapping, NativeTopology, TopologyOf
<1>5. \A e \in Between(Couplings(model)) : HasEdge(NativeTopology(model), at[e[1]], at[e[2]])
    <2> SUFFICES ASSUME NEW e \in Couplings(model)
                 PROVE  Edge(at[e[1]], at[e[2]]) \in NativeTopology(model).edges
        BY DEF Between, HasEdge
    <2> HIDE DEF at
    <2> DEFINE p == <<at[e[1]], at[e[2]]>>
    <2>1. NativeTopology(model).edges = {Edge(q[1], q[2]) : q \in {<<at[c[1]], at[c[2]]>> : c \in Couplings(model)}}
        BY DEF NativeTopology, TopologyOf, at
    <2>2. p \in {<<at[c[1]], at[c[2]]>> : c \in Couplings(model)} /\ Edge(p[1], p[2]) = Edge(at[e[1]], at[e[2]])
        OBVIOUS
    <2>3. QED BY <2>1, <2>2
<1>6. QED BY <1>3, <1>4, <1>5 DEF MappingFits

-----------------------------------------------------------------------------
(* The draft.  Its options and its job go together from the moment there   *)
(* are any, and a running search is about the options that wait for it.    *)

SearchesFor(o) ==
    /\ o.topology # Native /\ o.mapping = None
    /\ search.top = Registered[o.topology]
    /\ search.couplings = Couplings(C.model) /\ ToSet(search.order) = Variables(C.model)

DraftOK == HasJob \/ options # None => Follows(options, job)

OrderInv ==
    /\ case \in DOMAIN Cases
    /\ SearchInv
    /\ IF state = "placing" THEN SearchesFor(pending) ELSE search = NoSearch
    /\ DraftOK

\* The mapping is one the options ask for.
AskedFor(o, mapping) == Follows(o, [mapping |-> mapping])

\* A call that raises leaves the draft, if there was one, as it was.
LEMMA RaisedKeeps ==
    ASSUME DraftOK, Raised, UNCHANGED case
    PROVE  DraftOK' /\ state' # "placing"
BY DEF DraftOK, Raised, HasJob, Follows, Graph, C

\* The options and the job are taken together, or refused together.
LEMMA FinishKeeps ==
    ASSUME DraftOK, UNCHANGED case, NEW o, NEW placed, Follows(o, placed), Finish(o, placed)
    PROVE  DraftOK' /\ state' # "placing"
<1>1. CASE HopelessFloors(o, placed) = {}
    BY <1>1 DEF DraftOK, Finish, HasJob, Follows, Graph, C
<1>2. CASE HopelessFloors(o, placed) # {}
    BY <1>2 DEF DraftOK, Finish, HasJob, Follows, Graph, C
<1>3. QED BY <1>1, <1>2

\* A model placed as the options ask becomes a job that follows them.
LEMMA EncodeKeeps ==
    ASSUME DraftOK, UNCHANGED case, NEW o, NEW mapping, AskedFor(o, mapping), Encode(o, mapping)
    PROVE  DraftOK' /\ state' # "placing"
<1>1. PICK placed \in {ModelToIsing(C.model, mapping)} :
        IF Encodes(placed) THEN Finish(o, placed) ELSE Raised /\ UNCHANGED hopeless
    BY DEF Encode
<1>2. placed.mapping = mapping
    BY DEF ModelToIsing
<1>3. Follows(o, placed)
    BY <1>2 DEF AskedFor, Follows
<1>4. QED BY <1>1, <1>3, FinishKeeps, RaisedKeeps

\* A search begins with the nodes the first variable may take.
LEMMA StartStep ==
    ASSUME NEW variables, variables \subseteq Int, IsFiniteSet(variables), variables # {},
           NEW couplings, GoodCouplings(variables, couplings), IsFiniteSet(Ends(couplings)),
           NEW top, GoodGraph(top), StartSearch(variables, couplings, top)
    PROVE  /\ SearchInv' /\ search'.top = top /\ search'.couplings = couplings
           /\ ToSet(search'.order) = variables
<1> DEFINE order == PlacementOrder(variables, couplings)
           first == Candidates(search', <<>>, {}, order[1])
<1>1. /\ order \in Seq(variables) /\ Len(order) = Cardinality(variables)
      /\ \A i, j \in DOMAIN order : i # j => order[i] # order[j]
      /\ ToSet(order) = variables
    BY OrderIs
<1> HIDE DEF order
<1>2. Len(order) >= 1 /\ order \in Seq(Int)
    <2>1. Cardinality(variables) \in Nat /\ Cardinality(variables) # 0
        BY FS_CardinalityType, FS_EmptySet
    <2>2. order \in Seq(Int)
        BY <1>1, WiderSeq
    <2>3. QED BY <1>1, <2>1, <2>2
<1>3. /\ search' = [result |-> "searching", top |-> top, couplings |-> couplings, order |-> order,
                    stack |-> <<first>>, at |-> <<>>, used |-> {}, budget |-> MaxSteps]
    BY DEF StartSearch, NoSearch, order, Candidates
<1> HIDE DEF first
<1>4. SearchShape(search')
    BY <1>1, <1>2, <1>3 DEF SearchShape
<1>5. PlacedTo(search', <<>>, {}, 0)
    BY DEF PlacedTo
<1>6. \A node : node \in first <=> MayTake(search', <<>>, 1, node)
    BY <1>2, <1>3, <1>4, <1>5, CandidatesAre DEF first
<1>7. SearchGoes(search')
    <2>1. search'.stack \in Seq(SUBSET top.nodes) /\ Len(search'.stack) = 1 /\ search'.stack[1] = first
        <3>1. first \in SUBSET top.nodes
            BY <1>3, <1>6 DEF MayTake
        <3>2. /\ <<first>> \in Seq(SUBSET top.nodes) /\ Len(<<first>>) = 1
              /\ <<first>>[1] = first
            BY <3>1, SingleSeq
        <3>3. QED BY <1>3, <3>2
    <2>2. \A f \in Embeddings(ToSet(order), Between(couplings), top) : GoesOn(search', f, 1)
        <3> SUFFICES ASSUME NEW f \in Embeddings(ToSet(order), Between(couplings), top)
                     PROVE  f[order[1]] \in first
            BY <1>3 DEF GoesOn
        <3>1. f[order[1]] \in top.nodes
            BY <1>2, <1>3, <1>4, EmbeddingIs
        <3>2. QED BY <1>3, <1>6, <3>1 DEF MayTake
    <2>3. \A node \in first : MayTake(search', search'.at, 1, node)
        BY <1>3, <1>6
    <2>4. PlacedTo(search', search'.at, search'.used, Len(search'.stack) - 1)
        BY <1>3, <1>5, <2>1
    <2>5. search'.top = top /\ search'.couplings = couplings /\ search'.order = order
        BY <1>3
    <2>6. 1..Len(search'.stack) = {1} /\ Len(search'.stack) \in 1..Len(order)
        BY <1>2, <2>1
    <2>7. QED BY <2>1, <2>2, <2>3, <2>4, <2>5, <2>6 DEF SearchGoes
<1>8. QED BY <1>1, <1>3, <1>4, <1>7 DEF SearchInv, SearchIsRight

\* The search is forgotten when the call that ran it ends.
LEMMA IdleStep ==
    ASSUME search' = NoSearch
    PROVE  SearchInv'
BY DEF SearchInv, SearchIsRight, NoSearch

\* The model is placed as the options ask, or a search for it begins.
LEMMA PlaceKeeps ==
    ASSUME OrderInv, state # "placing", UNCHANGED case, NEW o, TopologyOk(o), Place(o)
    PROVE  OrderInv'
<1> DEFINE variables == Variables(C.model)
           couplings == Couplings(C.model)
           top == Registered[o.topology]
           settled == UNCHANGED search /\ DraftOK' /\ state' # "placing"
<1>1. /\ case \in DOMAIN Cases /\ search = NoSearch /\ DraftOK
      /\ variables \subseteq Int /\ IsFiniteSet(variables) /\ GoodCouplings(variables, couplings)
      /\ IsFiniteSet(Ends(couplings)) /\ (HasTerms(C.model) => variables # {})
    BY ModelIs DEF OrderInv
<1>2. settled => OrderInv'
    BY <1>1, IdleStep DEF OrderInv
<1>3. CASE ~HasTerms(C.model) \/ (o.topology # Native /\ o.topology \notin DOMAIN Registered)
    <2>1. Raised /\ UNCHANGED search
        BY <1>3 DEF Place
    <2>2. QED BY <1>1, <1>2, <2>1, RaisedKeeps
<1>4. CASE HasTerms(C.model) /\ o.topology = Native
    <2>1. UNCHANGED search /\ (Encode(o, NativeMapping(C.model)) \/ Raised)
        BY <1>4 DEF Place
    <2>2. AskedFor(o, NativeMapping(C.model))
        BY <1>1, <1>4, NativeFits DEF AskedFor, Follows, Graph, TopologyOk
    <2>3. QED BY <1>1, <1>2, <2>1, <2>2, EncodeKeeps, RaisedKeeps
<1>5. CASE HasTerms(C.model) /\ o.topology # Native /\ o.topology \in DOMAIN Registered /\ o.mapping # None
    <2> DEFINE mapping == [v \in variables |-> o.mapping[v]]
    <2>1. /\ UNCHANGED search
          /\ IF MappingFits(variables, couplings, top, o.mapping) THEN Encode(o, mapping)
             ELSE Raised /\ UNCHANGED hopeless
        BY <1>5 DEF Place
    <2>2. CASE MappingFits(variables, couplings, top, o.mapping)
        <3>1. \A e \in Between(couplings) : e \in couplings /\ e[1] \in variables /\ e[2] \in variables
            BY <1>1 DEF Between, GoodCouplings
        <3>2. MappingFits(variables, Between(couplings), top, mapping)
            <4> HIDE DEF variables, couplings, top
            <4> QED BY <2>2, <3>1 DEF MappingFits
        <3>3. \A v \in DOMAIN mapping : v \in DOMAIN o.mapping /\ mapping[v] = o.mapping[v]
            BY <2>2 DEF MappingFits
        <3>4. AskedFor(o, mapping)
            BY <1>5, <3>2, <3>3 DEF AskedFor, Follows, Graph
        <3>5. QED BY <1>1, <1>2, <2>1, <2>2, <3>4, EncodeKeeps
    <2>3. CASE ~MappingFits(variables, couplings, top, o.mapping)
        BY <1>1, <1>2, <2>1, <2>3, RaisedKeeps
    <2>4. QED BY <2>2, <2>3
<1>6. CASE HasTerms(C.model) /\ o.topology # Native /\ o.topology \in DOMAIN Registered /\ o.mapping = None
    <2>1. /\ StartSearch(variables, couplings, top)
          /\ state' = "placing" /\ pending' = o /\ UNCHANGED <<options, job, hopeless>>
        BY <1>6 DEF Place
    <2>2. GoodGraph(top)
        BY <1>6, PlacedOrderAssumption DEF GoodGraph
    <2>3. /\ SearchInv' /\ search'.top = top /\ search'.couplings = couplings
          /\ ToSet(search'.order) = variables
        BY <1>1, <1>6, <2>1, <2>2, StartStep
    <2>4. SearchesFor(pending)'
        BY <1>6, <2>1, <2>3 DEF SearchesFor, C
    <2>5. DraftOK'
        BY <1>1, <2>1 DEF DraftOK, HasJob, Follows, Graph, C
    <2>6. QED BY <1>1, <2>1, <2>3, <2>4, <2>5 DEF OrderInv
<1>7. QED BY <1>3, <1>4, <1>5, <1>6

\* create_order() settles a topology and places the model on it.
LEMMA CreateStep ==
    ASSUME OrderInv, Create
    PROVE  OrderInv'
<1>1. PICK given \in C.creates, strict \in BOOLEAN :
         LET updates == IF strict THEN given ELSE PopMode(given)
             defaults == DefaultOptions(C.client, C.limits)
             o == SettleTopology(Merged(defaults, updates), C.client)
         IN IF /\ defaults.topology # None /\ defaults.reward # None
               /\ strict \/ Cardinality(Given(given)) <= 1
               /\ MergeOk(defaults, updates, C.limits, strict) /\ TopologyOk(o)
            THEN Place(o) ELSE Raised /\ UNCHANGED <<hopeless, search>>
    BY DEF Create
<1> DEFINE updates == IF strict THEN given ELSE PopMode(given)
           o == SettleTopology(Merged(DefaultOptions(C.client, C.limits), updates), C.client)
<1>2. (TopologyOk(o) /\ Place(o)) \/ (Raised /\ UNCHANGED search)
    BY <1>1
<1>3. state # "placing" /\ UNCHANGED case
    BY DEF Create
<1> HIDE DEF o
<1>4. CASE TopologyOk(o) /\ Place(o)
    BY <1>3, <1>4, PlaceKeeps
<1>5. CASE Raised /\ UNCHANGED search
    BY <1>3, <1>5, RaisedKeeps, IdleStep DEF OrderInv
<1>6. QED BY <1>2, <1>4, <1>5

\* What is not placed again was placed as the new options ask too.
LEMMA SetStep ==
    ASSUME OrderInv, Set
    PROVE  OrderInv'
<1>1. PICK updates \in C.sets :
         LET o == SettleTopology(Merged(options, updates), C.client)
         IN IF ~(MergeOk(options, updates, C.limits, TRUE) /\ TopologyOk(o))
            THEN Raised /\ UNCHANGED <<hopeless, search>>
            ELSE IF Replaces(o) THEN Place(o)
            ELSE Finish(o, job) /\ UNCHANGED search
    BY DEF Set
<1> DEFINE o == SettleTopology(Merged(options, updates), C.client)
<1>2. \/ TopologyOk(o) /\ Place(o)
      \/ Raised /\ UNCHANGED search
      \/ ~Replaces(o) /\ Finish(o, job) /\ UNCHANGED search
    BY <1>1
<1>3. state = "draft" /\ UNCHANGED case
    BY DEF Set
<1> HIDE DEF o
<1>4. CASE TopologyOk(o) /\ Place(o)
    BY <1>3, <1>4, PlaceKeeps
<1>5. CASE Raised /\ UNCHANGED search
    BY <1>3, <1>5, RaisedKeeps, IdleStep DEF OrderInv
<1>6. CASE ~Replaces(o) /\ Finish(o, job) /\ UNCHANGED search
    <2>1. Follows(options, job)
        BY <1>3 DEF OrderInv, DraftOK, HasJob
    <2>2. Follows(o, job)
        BY <1>6, <2>1 DEF Follows, Graph, Replaces
    <2>3. DraftOK' /\ state' # "placing"
        BY <1>3, <1>6, <2>2, FinishKeeps DEF OrderInv
    <2>4. QED BY <1>3, <1>6, <2>3, IdleStep DEF OrderInv
<1>7. QED BY <1>2, <1>4, <1>5, <1>6

\* A step of the search leaves the draft alone.
LEMMA SearchingStep ==
    ASSUME OrderInv, Searching
    PROVE  OrderInv'
<1>1. SearchInv' /\ SameQuestion
    BY AdvanceStep, ExhaustStep, RetreatStep DEF OrderInv, Searching, SearchStep
<1>2. /\ state = "placing" /\ state' = state
      /\ UNCHANGED <<case, options, job, pending>>
    BY DEF Searching
<1>3. SearchesFor(pending)'
    BY <1>1, <1>2 DEF OrderInv, SearchesFor, SameQuestion, C
<1>4. DraftOK'
    BY <1>2 DEF OrderInv, DraftOK, HasJob, Follows, Graph, C
<1>5. QED BY <1>1, <1>2, <1>3, <1>4 DEF OrderInv

\* A call whose search is over encodes what the search found, or raises.
LEMMA PlacedStep ==
    ASSUME OrderInv, Placed
    PROVE  OrderInv'
<1>1. /\ state = "placing" /\ UNCHANGED case /\ search' = NoSearch
      /\ IF search.result = "placed" THEN Encode(pending, search.at) ELSE Raised /\ UNCHANGED hopeless
    BY DEF Placed
<1>2. DraftOK /\ SearchesFor(pending) /\ SearchIsRight
    BY <1>1 DEF OrderInv, SearchInv
<1>3. CASE search.result = "placed"
    <2>1. AskedFor(pending, search.at)
        BY <1>2, <1>3 DEF SearchesFor, SearchIsRight, AskedFor, Follows, Graph
    <2>2. QED BY <1>1, <1>2, <1>3, <2>1, EncodeKeeps, IdleStep DEF OrderInv
<1>4. CASE search.result # "placed"
    BY <1>1, <1>2, <1>4, RaisedKeeps, IdleStep DEF OrderInv
<1>5. QED BY <1>3, <1>4

\* The chain and the reads of its answers leave the draft alone.
LEMMA ChainStep ==
    ASSUME OrderInv, Propose \/ Solve \/ ReadAnswers \/ ReadRanking \/ UNCHANGED vars
    PROVE  OrderInv'
<1>1. UNCHANGED <<case, options, job, pending, search>>
    BY DEF Propose, Solve, ReadAnswers, ReadRanking, vars, draftVars
<1>2. (state' = state) \/ (state = "draft" /\ state' \in {"open", "failed"})
    BY DEF Propose, Solve, ReadAnswers, ReadRanking, vars, draftVars
<1>3. DraftOK'
    BY <1>1, <1>2 DEF OrderInv, DraftOK, HasJob, Follows, Graph, C
<1>4. SearchInv'
    BY <1>1 DEF OrderInv, SearchInv, SearchShape, SearchGoes, GoesOn, PlacedTo, MayTake, SearchIsRight
<1>5. (state = "placing" => SearchesFor(pending)') /\ (state' = "placing" <=> state = "placing")
    BY <1>1, <1>2 DEF OrderInv, SearchesFor, C
<1>6. QED BY <1>1, <1>3, <1>4, <1>5 DEF OrderInv

\* The invariant holds in every behaviour.
LEMMA OrderHolds == Spec => []OrderInv
<1>1. Init => OrderInv
    BY DEF Init, OrderInv, DraftOK, HasJob, SearchInv, SearchIsRight, NoSearch
<1>2. OrderInv /\ [Next]_vars => OrderInv'
    BY CreateStep, SetStep, SearchingStep, PlacedStep, ChainStep DEF Next
<1>3. QED BY <1>1, <1>2, PTL DEF Spec

\* The job is the one the options ask for, and the search is right about the
\* graph, whatever the models, the topologies and the calls.
THEOREM JobFollows == Spec => []JobFollowsTheOptions
<1>1. OrderInv => JobFollowsTheOptions
    BY DEF OrderInv, SearchInv, DraftOK, JobFollowsTheOptions
<1>2. QED BY <1>1, OrderHolds, PTL

-----------------------------------------------------------------------------
(* The job as a call. *)

\* A finite graph, and as many coefficients as it has nodes and edges.
JobShape(placed) ==
    /\ GoodGraph(placed.top)
    /\ IsFiniteSet(placed.top.edges) /\ placed.top.edges \subseteq placed.top.nodes \X placed.top.nodes
    /\ \A e \in placed.top.edges : e[1] <= e[2]
    /\ Len(placed.h) = Cardinality(placed.top.nodes) /\ Len(placed.j) = Cardinality(placed.top.edges)

\* The model of a case, placed on numbers, makes such a job.
LEMMA ShapeIs ==
    ASSUME case \in DOMAIN Cases, NEW at, DOMAIN at = Variables(C.model), \A v \in DOMAIN at : at[v] \in Int
    PROVE  JobShape(ModelToIsing(C.model, at))
<1> DEFINE m == C.model
           placed == ModelToIsing(m, at)
           nodes == {at[v] : v \in DOMAIN at}
           pairs == {<<at[e[1]], at[e[2]]>> : e \in Couplings(m)}
           edges == {Edge(e[1], e[2]) : e \in pairs}
<1>1. placed.top = [nodes |-> nodes, edges |-> edges]
    BY DEF ModelToIsing, TopologyOf, Couplings
<1>2. IsFiniteSet(DOMAIN at) /\ GoodCouplings(DOMAIN at, Couplings(m))
    BY ModelIs
<1>3. nodes \subseteq Int /\ IsFiniteSet(nodes) /\ Cardinality(nodes) \in Nat
    <2>1. nodes \subseteq Int
        OBVIOUS
    <2>2. [v \in DOMAIN at |-> at[v]] \in Surjection(DOMAIN at, nodes)
        BY DEF Surjection
    <2> HIDE DEF nodes
    <2>3. IsFiniteSet(nodes)
        BY <1>2, <2>2, FS_Surjection
    <2>4. QED BY <2>1, <2>3, FS_CardinalityType
<1>4. edges \subseteq nodes \X nodes /\ \A e \in edges : e[1] <= e[2]
    <2> SUFFICES ASSUME NEW e \in Couplings(m), NEW f, f = Edge(at[e[1]], at[e[2]])
                 PROVE  f \in nodes \X nodes /\ f[1] <= f[2]
        OBVIOUS
    <2>1. e[1] \in DOMAIN at /\ e[2] \in DOMAIN at
        BY <1>2 DEF GoodCouplings
    <2>2. at[e[1]] \in nodes /\ at[e[2]] \in nodes /\ at[e[1]] \in Int /\ at[e[2]] \in Int
        BY <2>1
    <2> HIDE DEF nodes
    <2>3. QED BY <2>2 DEF Edge
<1>5. IsFiniteSet(edges) /\ Cardinality(edges) \in Nat
    <2> HIDE DEF nodes, edges
    <2>1. IsFiniteSet(nodes \X nodes)
        BY <1>3, FS_Product
    <2>2. IsFiniteSet(edges)
        BY <1>4, <2>1, FS_Subset
    <2>3. QED BY <2>2, FS_CardinalityType
<1>6. Len(placed.h) = Cardinality(placed.top.nodes) /\ Len(placed.j) = Cardinality(placed.top.edges)
    <2> DEFINE top == placed.top
    <2>1. Cardinality(top.nodes) \in Nat /\ Cardinality(top.edges) \in Nat
        BY <1>1, <1>3, <1>5
    <2>2. DOMAIN placed.h = 1..Cardinality(top.nodes) /\ DOMAIN placed.j = 1..Cardinality(top.edges)
        BY DEF ModelToIsing
    <2>3. placed.h = [p \in 1..Cardinality(top.nodes) |-> placed.h[p]]
          /\ placed.j = [p \in 1..Cardinality(top.edges) |-> placed.j[p]]
        BY DEF ModelToIsing
    <2> HIDE DEF placed
    <2> DEFINE a == Cardinality(top.nodes)
               b == Cardinality(top.edges)
    <2> HIDE DEF top, a, b
    <2>4. a \in Nat /\ b \in Nat /\ placed.h = [p \in 1..a |-> placed.h[p]] /\ placed.j = [p \in 1..b |-> placed.j[p]]
        BY <2>1, <2>3 DEF a, b
    <2>5. Len(placed.h) = a /\ Len(placed.j) = b
        BY <2>4
    <2>6. QED BY <2>5 DEF a, b, top
<1>7. QED BY <1>1, <1>3, <1>4, <1>5, <1>6 DEF JobShape, GoodGraph

\* The nodes of the call are those of the job, in their order.
LEMMA NodesAre ==
    ASSUME NEW placed, JobShape(placed)
    PROVE  /\ Len(NodesOf(placed)) = Cardinality(placed.top.nodes) /\ ToSet(NodesOf(placed)) = placed.top.nodes
           /\ NodesOf(placed) \in [1..Cardinality(placed.top.nodes) -> placed.top.nodes]
           /\ \A p \in 1..Cardinality(placed.top.nodes) : IndexOf(placed.top, NodesOf(placed)[p]) = p
<1> DEFINE S == placed.top.nodes
           before == {p \in Int \X Int : p[1] < p[2]}
<1>1. S \subseteq Int /\ IsFiniteSet(S)
    BY DEF JobShape, GoodGraph
<1>2. Orders(before, S)
    <2>1. \A x, y \in S : x \in Int /\ y \in Int /\ (<<x, y>> \in before <=> x < y)
        BY <1>1
    <2> HIDE DEF before
    <2>2. QED BY <2>1 DEF Orders
<1>3. \A q \in [1..Cardinality(S) -> S] :
          (\A i, k \in DOMAIN q : i < k => q[i] < q[k]) <=> InOrder(q, before)
    <2> SUFFICES ASSUME NEW q \in [1..Cardinality(S) -> S]
                 PROVE  \A i, k \in DOMAIN q : <<q[i], q[k]>> \in before <=> q[i] < q[k]
        BY DEF InOrder
    <2>1. \A i \in DOMAIN q : q[i] \in Int
        BY <1>1
    <2>2. QED BY <2>1
<1>4. NodesOf(placed) = CHOOSE q \in [1..Cardinality(S) -> S] : \A i, k \in DOMAIN q : i < k => q[i] < q[k]
    BY DEF NodesOf, Sorted
<1>5. \E q \in [1..Cardinality(S) -> S] : InOrder(q, before)
    <2> HIDE DEF before, S
    <2> QED BY <1>1, <1>2, SortedExists
<1>6. NodesOf(placed) \in [1..Cardinality(S) -> S] /\ InOrder(NodesOf(placed), before)
    <2>1. \E q \in [1..Cardinality(S) -> S] : \A i, k \in DOMAIN q : i < k => q[i] < q[k]
        BY <1>3, <1>5
    <2>2. /\ NodesOf(placed) \in [1..Cardinality(S) -> S]
          /\ \A i, k \in DOMAIN NodesOf(placed) : i < k => NodesOf(placed)[i] < NodesOf(placed)[k]
        BY <1>4, <2>1
    <2>3. QED BY <1>3, <2>2
<1>7. \A x \in S : {m \in S : m <= x} = {y \in S : y = x \/ <<y, x>> \in before}
    BY <1>1
<1> HIDE DEF before, S
<1>8. \A p \in 1..Cardinality(S) : IndexOf(placed.top, NodesOf(placed)[p]) = p
    <2> TAKE p \in 1..Cardinality(S)
    <2> DEFINE x == NodesOf(placed)[p]
    <2>1. x \in S /\ Cardinality(NoLater(x, S, before)) = p
        BY <1>1, <1>2, <1>6, PositionIs
    <2> HIDE DEF x
    <2>2. IndexOf(placed.top, x) = Cardinality({m \in S : m <= x})
        BY DEF IndexOf, S
    <2>3. QED BY <1>7, <2>1, <2>2 DEF x, NoLater
<1>9. QED BY <1>1, <1>2, <1>6, <1>8, SortedIsAll DEF S

\* So are its edges.
LEMMA EdgesAre ==
    ASSUME NEW placed, JobShape(placed)
    PROVE  /\ Len(EdgesOf(placed)) = Cardinality(placed.top.edges) /\ ToSet(EdgesOf(placed)) = placed.top.edges
           /\ EdgesOf(placed) \in [1..Cardinality(placed.top.edges) -> placed.top.edges]
           /\ \A p \in 1..Cardinality(placed.top.edges) :
                EdgeIndex(placed.top, EdgesOf(placed)[p][1], EdgesOf(placed)[p][2]) = p
<1> DEFINE S == placed.top.edges
           below(e, f) == e[1] < f[1] \/ (e[1] = f[1] /\ e[2] < f[2])
           before == {p \in (Int \X Int) \X (Int \X Int) : below(p[1], p[2])}
<1>1. S \subseteq Int \X Int /\ IsFiniteSet(S)
    BY DEF JobShape, GoodGraph
<1>2. Orders(before, S)
    <2>1. \A x, y \in S : <<x, y>> \in before <=> below(x, y)
        BY <1>1
    <2>2. \A x \in S : x = <<x[1], x[2]>> /\ x[1] \in Int /\ x[2] \in Int
        BY <1>1
    <2> HIDE DEF before, S
    <2>3. \A x, y \in S : x = y \/ below(x, y) \/ below(y, x)
        BY <2>2
    <2>4. \A x, y, z \in S : below(x, y) /\ below(y, z) => below(x, z)
        BY <2>2
    <2>5. \A x \in S : ~below(x, x)
        BY <2>2
    <2> HIDE DEF below
    <2>6. QED BY <2>1, <2>3, <2>4, <2>5 DEF Orders
<1>3. \A q \in [1..Cardinality(S) -> S] :
          (\A i, k \in DOMAIN q : i < k => below(q[i], q[k])) <=> InOrder(q, before)
    <2>1. ASSUME NEW q \in [1..Cardinality(S) -> S]
          PROVE  \A i, k \in DOMAIN q : <<q[i], q[k]>> \in before <=> below(q[i], q[k])
        <3>1. \A i \in DOMAIN q : q[i] \in Int \X Int
            BY <1>1
        <3>2. QED BY <3>1
    <2> HIDE DEF below, before
    <2>2. QED BY <2>1 DEF InOrder
<1>4. EdgesOf(placed) = CHOOSE q \in [1..Cardinality(S) -> S] : \A i, k \in DOMAIN q : i < k => below(q[i], q[k])
    BY DEF EdgesOf, Sorted
<1> HIDE DEF below
<1>5. \E q \in [1..Cardinality(S) -> S] : InOrder(q, before)
    <2> HIDE DEF before, S
    <2> QED BY <1>1, <1>2, SortedExists
<1>6. EdgesOf(placed) \in [1..Cardinality(S) -> S] /\ InOrder(EdgesOf(placed), before)
    <2>1. \E q \in [1..Cardinality(S) -> S] : \A i, k \in DOMAIN q : i < k => below(q[i], q[k])
        BY <1>3, <1>5
    <2>2. /\ EdgesOf(placed) \in [1..Cardinality(S) -> S]
          /\ \A i, k \in DOMAIN EdgesOf(placed) : i < k => below(EdgesOf(placed)[i], EdgesOf(placed)[k])
        BY <1>4, <2>1
    <2>3. QED BY <1>3, <2>2
<1>7. \A e \in S : {f \in S : f[1] < e[1] \/ (f[1] = e[1] /\ f[2] <= e[2])}
                       = {f \in S : f = e \/ <<f, e>> \in before}
    <2> SUFFICES ASSUME NEW e \in S, NEW f \in S
                 PROVE  (f[1] < e[1] \/ (f[1] = e[1] /\ f[2] <= e[2])) <=> (f = e \/ <<f, e>> \in before)
        OBVIOUS
    <2>1. f \in Int \X Int /\ e \in Int \X Int
        BY <1>1
    <2>2. <<f, e>> \in before <=> f[1] < e[1] \/ (f[1] = e[1] /\ f[2] < e[2])
        BY <2>1 DEF below
    <2> HIDE DEF before
    <2>3. QED BY <2>1, <2>2
<1> HIDE DEF before, S
<1>8. \A p \in 1..Cardinality(S) : EdgeIndex(placed.top, EdgesOf(placed)[p][1], EdgesOf(placed)[p][2]) = p
    <2> TAKE p \in 1..Cardinality(S)
    <2> DEFINE x == EdgesOf(placed)[p]
    <2>1. x \in S /\ Cardinality(NoLater(x, S, before)) = p
        BY <1>1, <1>2, <1>6, PositionIs
    <2> HIDE DEF x
    <2>2. x = <<x[1], x[2]>> /\ x[1] <= x[2]
        BY <1>1, <2>1 DEF JobShape, S
    <2>3. Edge(x[1], x[2]) = x
        BY <2>2 DEF Edge
    <2>4. EdgeIndex(placed.top, x[1], x[2])
             = Cardinality({f \in S : f[1] < x[1] \/ (f[1] = x[1] /\ f[2] <= x[2])})
        BY <2>3 DEF EdgeIndex, S
    <2>5. QED BY <1>7, <2>1, <2>4 DEF x, NoLater
<1>9. QED BY <1>1, <1>2, <1>6, <1>8, SortedIsAll DEF S

\* The coefficients of a model as spins are whole numbers.
LEMMA CoefficientsAre ==
    ASSUME NEW model, IsModel(model)
    PROVE  /\ \A v \in DOMAIN IsingCoefficients(model).h : IsingCoefficients(model).h[v] \in Int
           /\ \A e \in DOMAIN IsingCoefficients(model).j : IsingCoefficients(model).j[e] \in Int
<1> DEFINE lin == model.lin
           quad == model.quad
           all == 0..(model.size - 1)
           ising == IsingCoefficients(model)
<1>1. /\ \A v \in DOMAIN lin : lin[v] \in Int
      /\ \A e \in DOMAIN quad : quad[e] \in Int
    BY DEF IsModel
<1>2. CASE model.domain = "spin"
    BY <1>2, <1>1 DEF IsingCoefficients
<1>3. CASE model.domain # "spin"
    <2> DEFINE at(v) == At0(lin, v) + At0(quad, <<v, v>>)
               two == [e \in Between(DOMAIN quad) |-> quad[e]]
               ones == [v \in DOMAIN lin \cup Ends(DOMAIN quad) |-> at(v)]
               share(v) == [e \in Touching(two, v) |-> two[e] \div 4]
    <2>1. /\ ising.h = [v \in DOMAIN ones |-> ones[v] \div 2 + Total(share(v))]
          /\ ising.j = [e \in DOMAIN two |-> two[e] \div 4]
        BY <1>3 DEF IsingCoefficients
    <2>2. DOMAIN two \subseteq DOMAIN quad /\ \A e \in DOMAIN two : two[e] \in Int
        BY <1>1 DEF Between
    <2>3. \A v \in DOMAIN ones : ones[v] \in Int
        BY <1>1 DEF At0
    <2>4. IsFiniteSet(DOMAIN quad)
        <3>1. IsFiniteSet(all)
            BY FS_Interval DEF IsModel
        <3> HIDE DEF all
        <3>2. IsFiniteSet(all \X all)
            BY <3>1, FS_Product
        <3>3. DOMAIN quad \subseteq all \X all
            BY DEF IsModel, all
        <3>4. QED BY <3>2, <3>3, FS_Subset
    <2> HIDE DEF two, ones, ising
    <2>5. \A v : Total(share(v)) \in Int
        <3> TAKE v
        <3>1. DOMAIN share(v) \subseteq DOMAIN quad /\ \A e \in DOMAIN share(v) : share(v)[e] \in Int
            BY <2>2 DEF Touching
        <3>2. Total(share(v)) = SumOf(share(v))
            BY DEF Total, SumOf
        <3> HIDE DEF share, quad
        <3>3. IsFiniteSet(DOMAIN share(v))
            BY <2>4, <3>1, FS_Subset
        <3>4. QED BY <3>1, <3>2, <3>3, SumInt
    <2> HIDE DEF share
    <2>6. \A v \in DOMAIN ising.h : ising.h[v] \in Int
        <3>1. DOMAIN ising.h = DOMAIN ones /\ \A v \in DOMAIN ones : ising.h[v] = ones[v] \div 2 + Total(share(v))
            BY <2>1
        <3>2. QED BY <2>3, <2>5, <3>1
    <2>7. \A e \in DOMAIN ising.j : ising.j[e] \in Int
        <3>1. DOMAIN ising.j = DOMAIN two /\ \A e \in DOMAIN two : ising.j[e] = two[e] \div 4
            BY <2>1
        <3>2. QED BY <2>2, <3>1
    <2>8. QED BY <2>6, <2>7 DEF ising
<1>4. QED BY <1>2, <1>3

\* A whole number rounds to one.
LEMMA RoundIs ==
    ASSUME NEW n \in Int
    PROVE  RoundMilli(n) \in Int
BY DEF RoundMilli, Milli

\* A job has a whole coefficient for each node and edge, and its variables are
\* on its nodes.
JobOK(placed) ==
    /\ JobShape(placed)
    /\ placed.h \in [1..Cardinality(placed.top.nodes) -> Int]
    /\ placed.j \in [1..Cardinality(placed.top.edges) -> Int]
    /\ \A v \in DOMAIN placed.mapping : placed.mapping[v] \in placed.top.nodes

\* The model of a case, placed on numbers, makes such a job.
LEMMA JobIs ==
    ASSUME case \in DOMAIN Cases, NEW at, DOMAIN at = Variables(C.model), \A v \in DOMAIN at : at[v] \in Int
    PROVE  JobOK(ModelToIsing(C.model, at))
<1> DEFINE m == C.model
           placed == ModelToIsing(m, at)
           ising == IsingCoefficients(m)
           image(e) == <<at[e[1]], at[e[2]]>>
           nodeOf(p) == CHOOSE v \in DOMAIN at : IndexOf(placed.top, at[v]) = p
           edgeOf(p) == CHOOSE e \in DOMAIN ising.j : EdgeIndex(placed.top, image(e)[1], image(e)[2]) = p
           field(p) == IF nodeOf(p) \in DOMAIN ising.h THEN ising.h[nodeOf(p)] ELSE 0
           n == Cardinality(placed.top.nodes)
           k == Cardinality(placed.top.edges)
<1>1. JobShape(placed)
    BY ShapeIs
<1>2. /\ \A v \in DOMAIN ising.h : ising.h[v] \in Int
      /\ \A e \in DOMAIN ising.j : ising.j[e] \in Int
    <2>1. IsModel(m)
        BY PlacedOrderAssumption DEF C, IsCase
    <2> HIDE DEF m
    <2>2. QED BY <2>1, CoefficientsAre
<1>3. /\ placed.h = [p \in 1..n |-> RoundMilli(field(p))]
      /\ placed.j = [p \in 1..k |-> RoundMilli(ising.j[edgeOf(p)])]
      /\ placed.mapping = at
      /\ placed.top = TopologyOf({at[v] : v \in DOMAIN at}, {image(e) : e \in DOMAIN ising.j})
    BY DEF ModelToIsing
<1> HIDE DEF placed, ising
<1>4. \A p \in 1..n : RoundMilli(field(p)) \in Int
    <2> TAKE p \in 1..n
    <2>1. field(p) \in Int
        BY <1>2
    <2> HIDE DEF field
    <2>2. QED BY <2>1, RoundIs
<1>5. \A p \in 1..k : RoundMilli(ising.j[edgeOf(p)]) \in Int
    <2> TAKE p \in 1..k
    <2> DEFINE q == EdgesOf(placed)
    <2>1. q[p] \in placed.top.edges /\ EdgeIndex(placed.top, q[p][1], q[p][2]) = p
        BY <1>1, EdgesAre
    <2>2. PICK e \in DOMAIN ising.j : q[p] = Edge(image(e)[1], image(e)[2])
        <3> DEFINE pairs == {image(e) : e \in DOMAIN ising.j}
        <3>1. placed.top = TopologyOf({at[v] : v \in DOMAIN at}, pairs)
            BY <1>3
        <3> HIDE DEF q, pairs
        <3>2. placed.top.edges = {Edge(r[1], r[2]) : r \in pairs}
            BY <3>1 DEF TopologyOf
        <3>3. PICK r \in pairs : q[p] = Edge(r[1], r[2])
            BY <2>1, <3>2
        <3>4. QED BY <3>3 DEF pairs
    <2>3. Edge(q[p][1], q[p][2]) = q[p]
        <3>1. q[p][1] \in Int /\ q[p][2] \in Int /\ q[p] = <<q[p][1], q[p][2]>> /\ q[p][1] <= q[p][2]
            BY <1>1, <2>1 DEF JobShape, GoodGraph
        <3>2. QED BY <3>1 DEF Edge
    <2>4. EdgeIndex(placed.top, image(e)[1], image(e)[2]) = p
        BY <2>1, <2>2, <2>3 DEF EdgeIndex
    <2>5. edgeOf(p) \in DOMAIN ising.j
        BY <2>4
    <2> HIDE DEF edgeOf
    <2>6. QED BY <1>2, <2>5, RoundIs
<1> HIDE DEF field, edgeOf, nodeOf
<1>6. placed.h \in [1..n -> Int] /\ placed.j \in [1..k -> Int]
    BY <1>3, <1>4, <1>5
<1>7. \A v \in DOMAIN placed.mapping : placed.mapping[v] \in placed.top.nodes
    BY <1>3 DEF TopologyOf
<1>8. QED BY <1>1, <1>6, <1>7 DEF JobOK, placed

-----------------------------------------------------------------------------
(* The options. *)

\* An allowlist that was not given raw was built, and lists something.
AccessSound(access) ==
    /\ access.raw \/ Constructible(access)
    /\ ~access.open => None \notin {access.accounts, access.types}

OptionsTyped(o) ==
    /\ DOMAIN o = OrderOptionNames
    /\ o.reward \in Nat /\ (o.min_solutions = None \/ o.min_solutions \in Int)
    /\ o.max_energy = None \/ o.max_energy \in Int
    /\ AccessSound(o.access)

\* Options that passed every check as a whole.
OptionsOK(o) == OptionsTyped(o) /\ WithinLimits(o, C.limits)

\* The deprecated name of access does not change what is given.
LEMMA PopModeKeeps ==
    ASSUME NEW updates, IsUpdate(updates)
    PROVE  IsUpdate(PopMode(updates))
<1> DEFINE given == Given(updates)
           popped == PopMode(updates)
<1>1. DOMAIN popped = (DOMAIN updates \ AccessNames) \cup {"access" : g \in given}
    BY DEF PopMode
<1>2. {"reward", "min_solutions", "max_energy"} \cap AccessNames = {}
    BY DEF AccessNames
<1>3. \A name \in DOMAIN popped : name # "access" => name \in DOMAIN updates /\ popped[name] = updates[name]
    BY DEF PopMode
<1>4. "access" \in DOMAIN popped => \E g \in given : popped["access"] = updates[g]
    <2> SUFFICES ASSUME "access" \in DOMAIN popped PROVE \E g \in given : popped["access"] = updates[g]
        OBVIOUS
    <2>1. given # {}
        BY <1>1 DEF AccessNames
    <2>2. popped["access"] = updates[CHOOSE g \in given : TRUE]
        BY <1>1 DEF PopMode
    <2>3. (CHOOSE g \in given : TRUE) \in given
        BY <2>1
    <2>4. QED BY <2>2, <2>3
<1>5. Given(popped) \subseteq {"access"} \cap DOMAIN popped
    BY <1>1 DEF Given, AccessNames
<1> HIDE DEF given, popped
<1>6. \A name \in Given(popped) : \E g \in Given(updates) : popped[name] = updates[g]
    BY <1>4, <1>5 DEF given
<1>7. \A name \in Given(popped) :
         /\ popped[name].raw \/ Constructible(popped[name])
         /\ None \notin {popped[name].accounts, popped[name].types}
    BY <1>6 DEF IsUpdate
<1>8. /\ "reward" \in DOMAIN popped => popped.reward \in Nat
      /\ \A name \in DOMAIN popped \cap {"min_solutions", "max_energy"} : popped[name] = None \/ popped[name] \in Int
    BY <1>3 DEF IsUpdate
<1>9. QED BY <1>7, <1>8 DEF IsUpdate, popped

\* Options and a change make options again.
LEMMA MergedIs ==
    ASSUME NEW current, OptionsTyped(current), NEW updates, IsUpdate(updates),
           NEW o, o = Merged(current, updates), o.access # None
    PROVE  OptionsTyped(o)
<1>1. /\ DOMAIN o = OrderOptionNames
      /\ \A name \in OrderOptionNames :
            o[name] = IF name \in DOMAIN updates THEN updates[name] ELSE current[name]
    BY DEF Merged, OptionsTyped
<1>2. {"reward", "min_solutions", "max_energy", "access"} \subseteq OrderOptionNames
    BY DEF OrderOptionNames
<1>3. /\ o.reward \in Nat
      /\ (o.min_solutions = None \/ o.min_solutions \in Int) /\ (o.max_energy = None \/ o.max_energy \in Int)
    BY <1>1, <1>2 DEF OptionsTyped, IsUpdate
<1>4. AccessSound(o.access)
    <2>1. CASE "access" \in DOMAIN updates
        <3>1. o.access = updates["access"] /\ "access" \in Given(updates)
            BY <1>1, <1>2, <2>1 DEF Given, AccessNames
        <3>2. QED BY <3>1 DEF AccessSound, IsUpdate
    <2>2. CASE "access" \notin DOMAIN updates
        BY <1>1, <1>2, <2>2 DEF OptionsTyped
    <2>3. QED BY <2>1, <2>2
<1>5. QED BY <1>1, <1>3, <1>4 DEF OptionsTyped

\* The topology is settled after the checks, which do not read it.
LEMMA SettledIs ==
    ASSUME NEW o, OptionsOK(o), NEW client
    PROVE  OptionsOK(SettleTopology(o, client))
<1> DEFINE s == SettleTopology(o, client)
<1>1. /\ DOMAIN s = OrderOptionNames
      /\ \A name \in OrderOptionNames \ {"topology"} : s[name] = o[name]
    BY DEF SettleTopology, OptionsOK, OptionsTyped
<1> HIDE DEF s
<1>2. /\ s.reward = o.reward /\ s.access = o.access /\ s.resolution = o.resolution
      /\ s.deadline_blocks = o.deadline_blocks /\ s.block_wait = o.block_wait
      /\ s.min_solutions = o.min_solutions /\ s.min_diversity = o.min_diversity /\ s.max_energy = o.max_energy
    BY <1>1 DEF OrderOptionNames
<1>3. OptionsTyped(s)
    BY <1>1, <1>2 DEF OptionsOK, OptionsTyped
<1>4. WithinLimits(s, C.limits)
    BY <1>2 DEF OptionsOK, WithinLimits, MinSolutionsOk, MinDiversityOk
<1>5. QED BY <1>3, <1>4 DEF OptionsOK, s

\* The client's defaults, once it has a reward, are options.
LEMMA DefaultsAre ==
    ASSUME case \in DOMAIN Cases, DefaultOptions(C.client, C.limits).reward # None
    PROVE  OptionsTyped(DefaultOptions(C.client, C.limits))
<1> DEFINE o == DefaultOptions(C.client, C.limits)
           sources == <<C.client.reward, C.client.env_reward, C.limits.min_reward>>
           given == {i \in DOMAIN sources : sources[i] # None}
<1>1. \A i \in DOMAIN sources : sources[i] = None \/ sources[i] \in Nat
    BY PlacedOrderAssumption DEF IsCase, C
<1>2. DOMAIN o = OrderOptionNames /\ o.min_solutions = None /\ o.max_energy = None /\ o.access = Open
    BY DEF DefaultOptions, OrderOptionNames
<1>3. o.reward = IF given = {} THEN None ELSE sources[Min(given)]
    BY DEF DefaultOptions, ResolveReward, FirstOf
<1>4. given \subseteq 1..3 /\ IsFiniteSet(given)
    <2>1. given \subseteq 1..3
        OBVIOUS
    <2> DEFINE three == 3
    <2>2. three \in Int /\ given \subseteq 1..three
        BY <2>1
    <2> HIDE DEF given, three
    <2>3. IsFiniteSet(1..three)
        BY <2>2, FS_Interval
    <2>4. IsFiniteSet(given)
        BY <2>2, <2>3, FS_Subset
    <2>5. QED BY <2>1, <2>4
<1>5. given # {}
    BY <1>3
<1>6. Min(given) \in given
    <2> HIDE DEF given
    <2>1. given \subseteq Int
        BY <1>4
    <2>2. QED BY <1>4, <1>5, <2>1, MinIs
<1>7. o.reward \in Nat
    <2>1. Min(given) \in DOMAIN sources /\ sources[Min(given)] # None
        BY <1>6
    <2> HIDE DEF sources, given, o
    <2>2. QED BY <1>1, <1>3, <1>5, <2>1
<1>8. AccessSound(o.access)
    BY <1>2 DEF AccessSound, Open, Constructible
<1> HIDE DEF o
<1>9. QED BY <1>2, <1>7, <1>8 DEF OptionsTyped, o

-----------------------------------------------------------------------------
(* A call that the chain takes. *)

\* Checked options and a job of a graph make a call that is not refused.
LEMMA CallIsTaken ==
    ASSUME NEW o, OptionsOK(o), NEW placed, JobOK(placed), o.resolution.variant \in Variants
    PROVE  ChainTakes(CallParams(o, placed), C.limits)
<1> DEFINE call == CallParams(o, placed)
           limits == C.limits
<1>1. /\ call.reward = o.reward /\ call.deadline_blocks = o.deadline_blocks /\ call.block_wait = o.block_wait
      /\ call.mode = AccessToChain(o.access) /\ call.resolution = o.resolution
      /\ call.floors = ChainFloors(o, placed)
      /\ call.nodes = NodesOf(placed) /\ call.edges = EdgesOf(placed) /\ call.h = placed.h /\ call.j = placed.j
    BY DEF CallParams
<1> HIDE DEF call
<1>2. /\ AtLeast(o.reward, limits.min_reward)
      /\ AtMost(o.deadline_blocks, limits.max_deadline_blocks) /\ AtMost(o.block_wait, limits.max_block_wait)
      /\ AccessOk(o.access, limits) /\ ResolutionOk(o.resolution, limits)
      /\ MinSolutionsOk(o, limits) /\ MinDiversityOk(o)
    BY DEF OptionsOK, WithinLimits
<1> HIDE DEF limits
<1>3. ~call.mode.open =>
         /\ call.mode.miners # None \/ call.mode.miner_types # None
         /\ call.mode.miners # None => AtMost(Cardinality(call.mode.miners), limits.max_bid_miners)
         /\ call.mode.miner_types # None => Cardinality(call.mode.miner_types) <= MaxBidTypes
    <2> SUFFICES ASSUME ~o.access.open
                 PROVE  /\ call.mode.miners # None \/ call.mode.miner_types # None
                        /\ call.mode.miners # None => AtMost(Cardinality(call.mode.miners), limits.max_bid_miners)
                        /\ call.mode.miner_types # None => Cardinality(call.mode.miner_types) <= MaxBidTypes
        BY <1>1 DEF AccessToChain
    <2>1. /\ call.mode.miners = IF o.access.accounts = {} THEN None ELSE o.access.accounts
          /\ call.mode.miner_types = IF o.access.types = {} THEN None ELSE o.access.types
        BY <1>1 DEF AccessToChain
    <2>2. Constructible(o.access) /\ o.access.accounts # None /\ o.access.types # None
        BY <1>2 DEF OptionsOK, OptionsTyped, AccessSound, AccessOk
    <2>3. AtMost(Cardinality(o.access.accounts), limits.max_bid_miners)
        BY <1>2 DEF AccessOk
    <2>4. (o.access.accounts # {} \/ o.access.types # {}) /\ Cardinality(o.access.types) <= MaxBidTypes
        BY <2>2 DEF Constructible
    <2>5. QED BY <2>1, <2>2, <2>3, <2>4
<1>4. call.resolution.variant # "SingleBest" => call.resolution.n \in 1..MaxWinners
    BY <1>1, <1>2 DEF ResolutionOk, Readable
<1>5. /\ call.floors.solutions # None =>
            call.floors.solutions >= 1 /\ AtMost(call.floors.solutions, limits.max_solutions)
      /\ call.floors.diversity # None /\ call.floors.solutions # None => call.floors.solutions >= 2
    <2>1. /\ call.floors.solutions = o.min_solutions
          /\ call.floors.diversity = IF o.min_diversity = 0 THEN None ELSE o.min_diversity
        BY <1>1 DEF ChainFloors
    <2>2. o.min_solutions = None
          \/ (o.min_solutions \in Int /\ o.min_solutions >= 1 /\ AtMost(o.min_solutions, limits.max_solutions))
        BY <1>2 DEF MinSolutionsOk, OptionsOK, OptionsTyped
    <2>3. o.min_diversity # None /\ o.min_diversity # 0 => o.min_solutions # 1
        <3> SUFFICES ASSUME o.min_diversity # None, o.min_diversity # 0 PROVE o.min_solutions # 1
            OBVIOUS
        <3>1. o.min_diversity \in 0..(MilliScale \div 2) /\ ~(o.min_diversity > 0 /\ o.min_solutions = 1)
            BY <1>2 DEF MinDiversityOk
        <3>2. o.min_diversity > 0
            BY <3>1 DEF MilliScale
        <3>3. QED BY <3>1, <3>2
    <2>4. QED BY <2>1, <2>2, <2>3
<1>6. Len(call.h) = Len(call.nodes) /\ Len(call.j) = Len(call.edges)
    BY <1>1, NodesAre, EdgesAre DEF JobOK, JobShape
<1>7. \A e \in ToSet(call.edges) : {e[1], e[2]} \subseteq ToSet(call.nodes)
    <2>1. ToSet(call.edges) = placed.top.edges /\ ToSet(call.nodes) = placed.top.nodes
        BY <1>1, NodesAre, EdgesAre DEF JobOK
    <2>2. QED BY <2>1 DEF JobOK, JobShape
<1>8. ChainTakes(call, limits)
    BY <1>1, <1>2, <1>3, <1>4, <1>5, <1>6, <1>7 DEF ChainTakes
<1>9. QED BY <1>8 DEF call, limits

-----------------------------------------------------------------------------
(* The draft. *)

DraftTaken == HasJob \/ options # None => OptionsOK(options) /\ JobOK(job)

TakenInv ==
    /\ state # "failed" /\ DraftTaken
    /\ state = "placing" => OptionsOK(pending)

\* What a step that ends a call has to keep.
Settles == DraftTaken' /\ state' \notin {"placing", "failed"}

\* A call that raises leaves the draft, if there was one, as it was.
LEMMA RaisedSettles ==
    ASSUME DraftTaken, Raised, UNCHANGED case
    PROVE  Settles
BY DEF DraftTaken, Raised, HasJob, Settles, OptionsOK, C

\* The options and the job are taken together, or refused together.
LEMMA FinishSettles ==
    ASSUME DraftTaken, UNCHANGED case, NEW o, OptionsOK(o), NEW placed, JobOK(placed), Finish(o, placed)
    PROVE  Settles
<1>1. CASE HopelessFloors(o, placed) = {}
    BY <1>1 DEF DraftTaken, Finish, HasJob, Settles, OptionsOK, C
<1>2. CASE HopelessFloors(o, placed) # {}
    BY <1>2 DEF DraftTaken, Finish, HasJob, Settles, OptionsOK, C
<1>3. QED BY <1>1, <1>2

\* A model placed on numbers becomes a job that a call can carry.
LEMMA EncodeSettles ==
    ASSUME case \in DOMAIN Cases, DraftTaken, UNCHANGED case, NEW o, OptionsOK(o),
           NEW at, DOMAIN at = Variables(C.model), \A v \in DOMAIN at : at[v] \in Int, Encode(o, at)
    PROVE  Settles
<1>1. PICK placed \in {ModelToIsing(C.model, at)} :
        IF Encodes(placed) THEN Finish(o, placed) ELSE Raised /\ UNCHANGED hopeless
    BY DEF Encode
<1>2. JobOK(placed)
    BY JobIs
<1>3. QED BY <1>1, <1>2, FinishSettles, RaisedSettles

\* A model's own graph numbers its variables.
LEMMA NativePlaces ==
    ASSUME case \in DOMAIN Cases
    PROVE  LET at == NativeMapping(C.model)
           IN DOMAIN at = Variables(C.model) /\ \A v \in DOMAIN at : at[v] \in Int
<1> DEFINE at == NativeMapping(C.model)
           variables == Variables(C.model)
           below(v) == {w \in variables : w < v}
<1>1. DOMAIN at = variables /\ \A v \in variables : at[v] = Cardinality(below(v))
    BY DEF NativeMapping, Rank
<1>2. IsFiniteSet(variables)
    BY ModelIs
<1> HIDE DEF at, variables
<1>3. \A v \in variables : below(v) \in SUBSET variables
    OBVIOUS
<1> HIDE DEF below
<1>4. \A v \in variables : IsFiniteSet(below(v))
    BY <1>2, <1>3, FS_Subset
<1>5. \A v \in variables : Cardinality(below(v)) \in Nat
    BY <1>4, FS_CardinalityType
<1>6. QED BY <1>1, <1>5 DEF at, variables

\* The model is placed, or waits for a search with options that were checked.
LEMMA PlaceTakes ==
    ASSUME OrderInv, TakenInv, UNCHANGED case, NEW o, OptionsOK(o), Place(o)
    PROVE  TakenInv'
<1> DEFINE variables == Variables(C.model)
           couplings == Couplings(C.model)
           top == Registered[o.topology]
<1>1. case \in DOMAIN Cases /\ DraftTaken /\ IsFiniteSet(variables)
    BY ModelIs DEF OrderInv, TakenInv
<1>2. Settles => TakenInv'
    BY DEF Settles, TakenInv
<1>3. CASE ~HasTerms(C.model) \/ (o.topology # Native /\ o.topology \notin DOMAIN Registered)
    <2>1. Raised
        BY <1>3 DEF Place
    <2>2. QED BY <1>1, <1>2, <2>1, RaisedSettles
<1>4. CASE HasTerms(C.model) /\ o.topology = Native
    <2>1. Encode(o, NativeMapping(C.model)) \/ Raised
        BY <1>4 DEF Place
    <2> DEFINE at == NativeMapping(C.model)
    <2>2. DOMAIN at = variables /\ \A v \in DOMAIN at : at[v] \in Int
        BY <1>1, NativePlaces
    <2> HIDE DEF at
    <2>3. QED BY <1>1, <1>2, <2>1, <2>2, EncodeSettles, RaisedSettles DEF at
<1>5. CASE HasTerms(C.model) /\ o.topology # Native /\ o.topology \in DOMAIN Registered /\ o.mapping # None
    <2> DEFINE at == [v \in variables |-> o.mapping[v]]
    <2>1. IF MappingFits(variables, couplings, top, o.mapping) THEN Encode(o, at)
          ELSE Raised /\ UNCHANGED hopeless
        BY <1>5 DEF Place
    <2>2. CASE MappingFits(variables, couplings, top, o.mapping)
        <3>1. \A v \in variables : o.mapping[v] \in top.nodes
            BY <2>2 DEF MappingFits
        <3>2. DOMAIN at = variables /\ \A v \in DOMAIN at : at[v] \in Int
            BY <1>5, <3>1, PlacedOrderAssumption
        <3>3. Encode(o, at)
            BY <2>1, <2>2
        <3> HIDE DEF at
        <3>4. QED BY <1>1, <1>2, <3>2, <3>3, EncodeSettles
    <2>3. CASE ~MappingFits(variables, couplings, top, o.mapping)
        BY <1>1, <1>2, <2>1, <2>3, RaisedSettles
    <2>4. QED BY <2>2, <2>3
<1>6. CASE HasTerms(C.model) /\ o.topology # Native /\ o.topology \in DOMAIN Registered /\ o.mapping = None
    <2>1. state' = "placing" /\ pending' = o /\ UNCHANGED <<options, job>>
        BY <1>6 DEF Place
    <2>2. OptionsOK(pending)'
        BY <2>1 DEF OptionsOK, C
    <2>3. DraftTaken'
        BY <1>1, <2>1 DEF DraftTaken, HasJob, OptionsOK, C
    <2>4. QED BY <2>1, <2>2, <2>3 DEF TakenInv
<1>7. QED BY <1>3, <1>4, <1>5, <1>6

\* create_order() checks the defaults and the change as a whole.
LEMMA CreateChecks ==
    ASSUME OrderInv, Create
    PROVE  (\E o : OptionsOK(o) /\ Place(o)) \/ (Raised /\ UNCHANGED hopeless)
<1>1. PICK given \in C.creates, strict \in BOOLEAN :
         LET updates == IF strict THEN given ELSE PopMode(given)
             defaults == DefaultOptions(C.client, C.limits)
             o == SettleTopology(Merged(defaults, updates), C.client)
         IN IF /\ defaults.topology # None /\ defaults.reward # None
               /\ strict \/ Cardinality(Given(given)) <= 1
               /\ MergeOk(defaults, updates, C.limits, strict) /\ TopologyOk(o)
            THEN Place(o) ELSE Raised /\ UNCHANGED <<hopeless, search>>
    BY DEF Create
<1> DEFINE updates == IF strict THEN given ELSE PopMode(given)
           defaults == DefaultOptions(C.client, C.limits)
           merged == Merged(defaults, updates)
           o == SettleTopology(merged, C.client)
<1>2. UNCHANGED case /\ case \in DOMAIN Cases
    BY DEF Create, OrderInv
<1>3. IsUpdate(updates)
    <2>1. IsUpdate(given)
        BY <1>2, PlacedOrderAssumption DEF IsCase, C
    <2>2. QED BY <2>1, PopModeKeeps
<1>4. \/ Place(o) /\ defaults.reward # None /\ MergeOk(defaults, updates, C.limits, strict)
      \/ Raised /\ UNCHANGED hopeless
    BY <1>1
<1> HIDE DEF updates
<1>5. CASE Place(o) /\ defaults.reward # None /\ MergeOk(defaults, updates, C.limits, strict)
    <2>1. OptionsTyped(defaults)
        BY <1>2, <1>5, DefaultsAre
    <2>2. merged.access # None /\ WithinLimits(merged, C.limits)
        BY <1>5 DEF MergeOk, Coerced
    <2> HIDE DEF defaults
    <2>3. OptionsTyped(merged)
        BY <1>3, <2>1, <2>2, MergedIs
    <2> HIDE DEF merged
    <2>4. OptionsOK(o)
        BY <2>2, <2>3, SettledIs DEF OptionsOK
    <2> HIDE DEF o
    <2>5. QED BY <1>5, <2>4
<1>6. QED BY <1>4, <1>5

\* set() checks the options it has and the change as a whole.
LEMMA SetChecks ==
    ASSUME OrderInv, OptionsOK(options), Set
    PROVE  \/ \E o : OptionsOK(o) /\ (Place(o) \/ Finish(o, job))
           \/ Raised /\ UNCHANGED hopeless
<1>1. PICK updates \in C.sets :
         LET o == SettleTopology(Merged(options, updates), C.client)
         IN IF ~(MergeOk(options, updates, C.limits, TRUE) /\ TopologyOk(o))
            THEN Raised /\ UNCHANGED <<hopeless, search>>
            ELSE IF Replaces(o) THEN Place(o)
            ELSE Finish(o, job) /\ UNCHANGED search
    BY DEF Set
<1> DEFINE merged == Merged(options, updates)
           o == SettleTopology(merged, C.client)
<1>2. case \in DOMAIN Cases
    BY DEF OrderInv
<1>3. IsUpdate(updates)
    BY <1>2, PlacedOrderAssumption DEF IsCase, C
<1>4. \/ MergeOk(options, updates, C.limits, TRUE) /\ (Place(o) \/ Finish(o, job))
      \/ Raised /\ UNCHANGED hopeless
    BY <1>1
<1>5. CASE MergeOk(options, updates, C.limits, TRUE) /\ (Place(o) \/ Finish(o, job))
    <2>1. merged.access # None /\ WithinLimits(merged, C.limits)
        BY <1>5 DEF MergeOk, Coerced
    <2>2. OptionsTyped(merged)
        BY <1>2, <1>3, <2>1, MergedIs DEF OptionsOK
    <2> HIDE DEF merged
    <2>3. OptionsOK(o)
        BY <2>1, <2>2, SettledIs DEF OptionsOK
    <2> HIDE DEF o
    <2>4. QED BY <1>5, <2>3
<1>6. QED BY <1>4, <1>5

\* So the draft is one that the chain takes, if there is one.
LEMMA CreateTakes ==
    ASSUME OrderInv, TakenInv, Create
    PROVE  TakenInv'
<1>1. UNCHANGED case
    BY DEF Create
<1>2. CASE \E o : OptionsOK(o) /\ Place(o)
    BY <1>1, <1>2, PlaceTakes
<1>3. CASE Raised
    BY <1>1, <1>3, RaisedSettles DEF TakenInv, Settles
<1>4. QED BY <1>2, <1>3, CreateChecks

\* And it stays so.
LEMMA SetTakes ==
    ASSUME OrderInv, TakenInv, Set
    PROVE  TakenInv'
<1>1. UNCHANGED case /\ OptionsOK(options) /\ JobOK(job) /\ DraftTaken
    BY DEF Set, TakenInv, DraftTaken, HasJob
<1>2. CASE \E o : OptionsOK(o) /\ (Place(o) \/ Finish(o, job))
    <2>1. PICK o : OptionsOK(o) /\ (Place(o) \/ Finish(o, job))
        BY <1>2
    <2>2. CASE Place(o)
        BY <1>1, <2>1, <2>2, PlaceTakes
    <2>3. CASE Finish(o, job)
        BY <1>1, <2>1, <2>3, FinishSettles DEF TakenInv, Settles
    <2>4. QED BY <2>1, <2>2, <2>3
<1>3. CASE Raised
    BY <1>1, <1>3, RaisedSettles DEF TakenInv, Settles
<1>4. QED BY <1>1, <1>2, <1>3, SetChecks

\* What the search found places the model on nodes of its graph.
LEMMA PlacedTakes ==
    ASSUME OrderInv, TakenInv, Placed
    PROVE  TakenInv'
<1> DEFINE variables == Variables(C.model)
<1>1. /\ state = "placing" /\ UNCHANGED case
      /\ IF search.result = "placed" THEN Encode(pending, search.at) ELSE Raised /\ UNCHANGED hopeless
    BY DEF Placed
<1>2. case \in DOMAIN Cases /\ DraftTaken /\ OptionsOK(pending) /\ SearchInv /\ ToSet(search.order) = variables
    BY <1>1 DEF OrderInv, TakenInv, SearchesFor
<1>3. CASE search.result = "placed"
    <2>1. DOMAIN search.at = variables /\ \A v \in variables : search.at[v] \in search.top.nodes
        BY <1>2, <1>3 DEF SearchInv, SearchIsRight, MappingFits
    <2>2. search.top.nodes \subseteq Int
        BY <1>2, <1>3 DEF SearchInv, SearchShape, GoodGraph, NoSearch
    <2>3. Encode(pending, search.at)
        BY <1>1, <1>3
    <2>4. Settles
        BY <1>1, <1>2, <2>1, <2>2, <2>3, EncodeSettles
    <2>5. QED BY <2>4 DEF Settles, TakenInv
<1>4. CASE search.result # "placed"
    BY <1>1, <1>2, <1>4, RaisedSettles DEF TakenInv, Settles
<1>5. QED BY <1>3, <1>4

\* The chain takes the draft that is sent.
LEMMA ProposeTakes ==
    ASSUME OrderInv, TakenInv, Propose
    PROVE  TakenInv'
<1>1. OptionsOK(options) /\ JobOK(job) /\ options.resolution.variant \in Variants
    BY DEF Propose, TakenInv, DraftTaken, HasJob
<1>2. ChainTakes(CallParams(options, job), C.limits)
    BY <1>1, CallIsTaken
<1>3. state' = "open" /\ UNCHANGED <<case, options, job, pending>>
    BY <1>2 DEF Propose
<1>4. QED BY <1>1, <1>3 DEF TakenInv, DraftTaken, HasJob, OptionsOK, C

\* Nothing else touches the draft.
LEMMA OthersTake ==
    ASSUME TakenInv, Searching \/ Solve \/ ReadAnswers \/ ReadRanking \/ UNCHANGED vars
    PROVE  TakenInv'
<1>1. UNCHANGED <<case, state, options, job, pending>>
    BY DEF Searching, Solve, ReadAnswers, ReadRanking, vars, draftVars
<1>2. QED BY <1>1 DEF TakenInv, DraftTaken, HasJob, OptionsOK, C

\* So it is in every state.
LEMMA TakenHolds == Spec => []TakenInv
<1>1. Init => TakenInv
    BY DEF Init, TakenInv, DraftTaken, HasJob
<1>2. OrderInv /\ TakenInv /\ [Next]_vars => TakenInv'
    BY CreateTakes, SetTakes, PlacedTakes, ProposeTakes, OthersTake DEF Next
<1>3. QED BY <1>1, <1>2, OrderHolds, PTL DEF Spec

\* A draft that the client accepts is one that the chain takes, whatever the
\* options, the limits and the number of set() calls: set() checks the merged
\* options again, and not the change alone.
THEOREM AcceptedHolds == Spec => []AcceptedIsTaken
<1>1. TakenInv => AcceptedIsTaken
    BY DEF TakenInv, AcceptedIsTaken
<1>2. QED BY <1>1, TakenHolds, PTL

-----------------------------------------------------------------------------
(* The shares of a reward. *)

\* The sum of the weights k, k - 1, ... 1 is half of k * (k + 1), which is even.
LEMMA WeightsAddUp ==
    ASSUME NEW k \in Nat, k # 0
    PROVE  /\ (k * (k + 1)) \div 2 \in Nat \ {0}
           /\ k * (k + 1) = 2 * ((k * (k + 1)) \div 2)
<1> DEFINE m == k \div 2
           p == k * (k + 1)
<1>1. m \in Nat /\ (k = 2 * m \/ k = 2 * m + 1)
    BY DivIs
<1> HIDE DEF m
<1>2. p \in Nat /\ p # 0
    <2>1. k >= 1 /\ k + 1 >= 1
        OBVIOUS
    <2>2. k * (k + 1) >= 1
        BY <2>1
    <2>3. QED BY <2>2
<1>3. PICK t \in Nat : p = 2 * t
    <2>1. CASE k = 2 * m
        <3>1. m * (k + 1) \in Nat /\ p = 2 * (m * (k + 1))
            BY <1>1, <2>1
        <3>2. QED BY <3>1
    <2>2. CASE k = 2 * m + 1
        <3>1. k * (m + 1) \in Nat /\ p = 2 * (k * (m + 1))
            BY <1>1, <2>2
        <3>2. QED BY <3>1
    <2>3. QED BY <1>1, <2>1, <2>2
<1> HIDE DEF p
<1>4. p \div 2 = t
    BY <1>2, <1>3
<1>5. QED BY <1>2, <1>3, <1>4 DEF p

\* A weighted share is the quotient of the weighted reward: what is left of the
\* reward by the first division is divided again, and no unit is lost.
LEMMA ShareIs ==
    ASSUME NEW reward \in Nat, NEW total \in Nat \ {0}, NEW w \in Nat
    PROVE  /\ (reward \div total) * w + ((reward % total) * w) \div total = (reward * w) \div total
           /\ (reward * w) \div total \in Nat
           /\ total * ((reward * w) \div total) <= reward * w
<1> DEFINE q == reward \div total
           m == reward % total
<1>1. q \in Nat /\ m \in Nat /\ reward = total * q + m
    BY DivIs
<1> HIDE DEF q, m
<1>2. q * w \in Nat /\ m * w \in Nat /\ reward * w \in Nat
    <2>1. \A i, j \in Nat : i * j \in Nat
        OBVIOUS
    <2>2. QED BY <1>1, <2>1
<1>3. reward * w = (q * w) * total + m * w
    <2>1. reward * w = (total * q) * w + m * w
        BY <1>1
    <2>2. (total * q) * w = (q * w) * total
        BY <1>1
    <2>3. QED BY <2>1, <2>2
<1>4. (reward * w) \div total = q * w + (m * w) \div total
    <2> DEFINE x == q * w
               y == m * w
    <2>1. x \in Nat /\ y \in Nat
        BY <1>2
    <2>2. reward * w = x * total + y
        BY <1>3
    <2> HIDE DEF x, y
    <2>3. (x * total + y) \div total = x + y \div total
        BY <2>1, DivOfSum
    <2>4. QED BY <2>2, <2>3 DEF x, y
<1> DEFINE a == reward * w
<1> HIDE DEF a
<1>5. a \in Nat
    BY <1>2 DEF a
<1>6. a \div total \in Nat /\ total * (a \div total) <= a
    <2>1. a \div total \in Nat /\ a % total \in 0..(total - 1) /\ a = total * (a \div total) + (a % total)
        BY <1>5, DivIs
    <2> DEFINE b == a \div total
               c == a % total
    <2> HIDE DEF b, c
    <2>2. b \in Nat /\ c \in 0..(total - 1) /\ a = total * b + c
        BY <2>1 DEF b, c
    <2>3. total * b <= a
        BY <1>5, <2>2
    <2>4. QED BY <2>2, <2>3 DEF b
<1>7. QED BY <1>4, <1>6 DEF q, m, a

\* The shares of k ranked solvers add up to the reward, none is more than the
\* one before it, and below the first each is what its weight makes.
Splits(shares, variant, k, reward) ==
    /\ shares = [i \in 1..k |-> shares[i]]
    /\ SumOf(shares) = reward
    /\ \A i, j \in 1..k : i < j => shares[i] >= shares[j]
    /\ variant = "TopNWeighted" =>
         \A i \in 2..k : shares[i] = (reward * (k + 1 - i)) \div ((k * (k + 1)) \div 2)

\* That is so of the three rules.
LEMMA SharesSplit ==
    ASSUME NEW variant, NEW k \in Nat, k # 0, NEW reward \in Nat, variant = "SingleBest" => k = 1
    PROVE  Splits(Shares(variant, k, reward), variant, k, reward)
<1> DEFINE shares == Shares(variant, k, reward)
<1> SUFFICES /\ shares = [i \in 1..k |-> shares[i]]
             /\ SumOf(shares) = reward
             /\ \A i, j \in 1..k : i < j => shares[i] >= shares[j]
             /\ variant = "TopNWeighted" =>
                  \A i \in 2..k : shares[i] = (reward * (k + 1 - i)) \div ((k * (k + 1)) \div 2)
    BY DEF Splits
<1>1. IsFiniteSet(1..k) /\ Cardinality(1..k) = k /\ 1 \in 1..k
    BY FS_Interval
\* Every rank has its share, and what is left goes to the first.
<1>2. ASSUME NEW base \in [1..k -> Nat], SumOf(base) <= reward, \A i, j \in 1..k : i < j => base[i] >= base[j],
             shares = [base EXCEPT ![1] = @ + (reward - SumOf(base))]
      PROVE  /\ shares = [i \in 1..k |-> shares[i]] /\ SumOf(shares) = reward
             /\ \A i, j \in 1..k : i < j => shares[i] >= shares[j]
             /\ \A i \in 2..k : shares[i] = base[i]
    <2>1. SumOf(base) \in Nat /\ base[1] \in Nat
        BY <1>1, SumNat
    <2> DEFINE more == reward - SumOf(base)
    <2>2. more \in Nat
        BY <1>2, <2>1
    <2> HIDE DEF shares
    <2>3. /\ shares = [i \in 1..k |-> shares[i]] /\ shares[1] = base[1] + more
          /\ \A i \in 1..k : i # 1 => shares[i] = base[i]
        BY <1>1, <1>2
    <2>4. SumOf(shares) = SumOf(base) - base[1] + shares[1]
        <3>1. shares[1] \in Nat
            BY <2>1, <2>2, <2>3
        <3>2. /\ DOMAIN base = 1..k /\ DOMAIN shares = 1..k
              /\ \A i \in 1..k : base[i] \in Nat
              /\ \A i \in (1..k) \ {1} : shares[i] = base[i]
            BY <2>3
        <3> HIDE DEF more
        <3>3. QED BY <1>1, <3>1, <3>2, SumExcept
    <2>5. SumOf(shares) = reward
        BY <2>1, <2>3, <2>4
    <2>6. ASSUME NEW i \in 1..k, NEW j \in 1..k, i < j
          PROVE  shares[i] >= shares[j]
        <3>1. base[i] \in Nat /\ base[j] \in Nat /\ base[i] >= base[j] /\ shares[j] = base[j]
            BY <1>2, <2>3, <2>6
        <3>2. shares[i] >= base[i]
            BY <2>1, <2>2, <2>3, <3>1
        <3>3. QED BY <2>1, <2>2, <2>3, <3>1, <3>2
    <2>7. QED BY <2>3, <2>5, <2>6
<1>3. CASE variant = "SingleBest"
    <2>1. shares = <<reward>> /\ k = 1
        BY <1>3 DEF Shares
    <2>2. SumOf(<<reward>>) = reward
        <3> DEFINE none == [i \in {} |-> 0]
                   one == <<reward>>
        <3>1. IsFiniteSet(DOMAIN none) /\ DOMAIN none = {} /\ (\A i \in DOMAIN none : none[i] \in Nat)
            BY FS_EmptySet
        <3>2. DOMAIN one = {1} /\ one[1] = reward
            OBVIOUS
        <3>3. SumOf(none) = 0
            <4> HIDE DEF none
            <4> QED BY <3>1, SumNat
        <3>4. SumOf(one) = SumOf(none) + one[1]
            <4>1. 1 \notin DOMAIN none /\ DOMAIN one = DOMAIN none \cup {1} /\ one[1] \in Nat
                  /\ (\A i \in DOMAIN none : one[i] = none[i])
                BY <3>1, <3>2
            <4> HIDE DEF none, one
            <4> QED BY <3>1, <4>1, SumExtend
        <3>5. QED BY <3>2, <3>3, <3>4
    <2> HIDE DEF shares
    <2>3. shares = [i \in 1..k |-> shares[i]] /\ SumOf(shares) = reward /\ variant # "TopNWeighted"
        BY <1>3, <2>1, <2>2
    <2>4. \A i, j \in 1..k : i < j => shares[i] >= shares[j]
        BY <2>1
    <2>5. QED BY <2>3, <2>4 DEF shares
<1>4. CASE variant = "TopNEqual"
    <2> DEFINE base == [r \in 1..k |-> reward \div k]
    <2>1. reward \div k \in Nat /\ reward % k \in Nat /\ reward = k * (reward \div k) + (reward % k)
        BY DivIs
    <2>2. base \in [1..k -> Nat] /\ DOMAIN base = 1..k /\ \A i \in 1..k : base[i] = reward \div k
        BY <2>1
    <2>3. SumOf(base) = k * (reward \div k)
        <3> DEFINE c == reward \div k
        <3>1. c \in Nat /\ \A i \in DOMAIN base : base[i] = c
            BY <2>1
        <3> HIDE DEF c, base
        <3>2. SumOf(base) = k * c
            BY <1>1, <2>2, <3>1, SumConstant
        <3>3. QED BY <3>2 DEF c
    <2>4. SumOf(base) <= reward /\ reward - SumOf(base) = reward % k
        <3> DEFINE b == k * (reward \div k)
                   c == reward % k
        <3>1. b \in Int
            BY <2>1
        <3> HIDE DEF b, c
        <3>2. reward = b + c /\ c \in Nat /\ SumOf(base) = b
            BY <2>1, <2>3 DEF b, c
        <3>3. reward - SumOf(base) = c /\ SumOf(base) <= reward
            BY <3>1, <3>2
        <3>4. QED BY <3>3 DEF c
    <2>5. shares = [base EXCEPT ![1] = @ + (reward - SumOf(base))]
        <3>1. shares = [r \in 1..k |-> reward \div k + (IF r = 1 THEN reward % k ELSE 0)]
            BY <1>4 DEF Shares
        <3> DEFINE c == reward % k
        <3>2. \A r \in 1..k : base[r] + (IF r = 1 THEN c ELSE 0) = IF r = 1 THEN base[1] + c ELSE base[r]
            BY <1>1, <2>2
        <3>3. QED BY <1>1, <2>2, <2>4, <3>1, <3>2
    <2>6. \A i, j \in 1..k : i < j => base[i] >= base[j]
        BY <2>1
    <2> HIDE DEF base, shares
    <2>7. shares = [i \in 1..k |-> shares[i]] /\ SumOf(shares) = reward /\ \A i, j \in 1..k : i < j => shares[i] >= shares[j]
        BY <1>2, <2>2, <2>4, <2>5, <2>6
    <2>8. QED BY <1>4, <2>7 DEF shares
<1>5. CASE variant # "SingleBest" /\ variant # "TopNEqual"
    <2> DEFINE total == (k * (k + 1)) \div 2
               base == [r \in 1..k |-> (reward \div total) * (k + 1 - r) + ((reward % total) * (k + 1 - r)) \div total]
    <2>1. shares = [base EXCEPT ![1] = @ + (reward - SumOf(base))]
        BY <1>5 DEF Shares, Total, SumOf
    <2>2. total \in Nat \ {0} /\ k * (k + 1) = 2 * total
        BY WeightsAddUp
    <2> HIDE DEF total
    <2>3. \A r \in 1..k : /\ base[r] = (reward * (k + 1 - r)) \div total
                           /\ base[r] \in Nat /\ total * base[r] <= reward * (k + 1 - r)
        <3> SUFFICES ASSUME NEW r \in 1..k
                     PROVE  /\ base[r] = (reward * (k + 1 - r)) \div total
                            /\ base[r] \in Nat /\ total * base[r] <= reward * (k + 1 - r)
            OBVIOUS
        <3> DEFINE w == k + 1 - r
        <3>1. w \in Nat
            OBVIOUS
        <3>2. base[r] = (reward \div total) * w + ((reward % total) * w) \div total
            OBVIOUS
        <3> HIDE DEF w, base
        <3>3. /\ (reward \div total) * w + ((reward % total) * w) \div total = (reward * w) \div total
              /\ (reward * w) \div total \in Nat
              /\ total * ((reward * w) \div total) <= reward * w
            BY <2>2, <3>1, ShareIs
        <3>4. base[r] = (reward * w) \div total
            BY <3>2, <3>3
        <3>5. QED BY <3>3, <3>4 DEF w
    <2>4. base \in [1..k -> Nat]
        BY <2>3
    <2> HIDE DEF base
    <2>5. SumOf(base) <= reward
        <3> DEFINE g == [n \in 0..k |-> reward * (n * (2 * k + 1 - n))]
        <3>1. g \in [0..k -> Int] /\ g[0] = 0
            OBVIOUS
        <3>2. \A n \in 1..k : (2 * total) * base[n] <= g[n] - g[n - 1]
            <4> SUFFICES ASSUME NEW n \in 1..k PROVE (2 * total) * base[n] <= g[n] - g[n - 1]
                OBVIOUS
            <4>1. n * (2 * k + 1 - n) - (n - 1) * (2 * k + 1 - (n - 1)) = 2 * (k + 1 - n)
                OBVIOUS
            <4> DEFINE a == n * (2 * k + 1 - n)
                       b == (n - 1) * (2 * k + 1 - (n - 1))
                       w == k + 1 - n
            <4>2. a \in Int /\ b \in Int /\ w \in Int /\ a - b = 2 * w /\ n \in 0..k /\ n - 1 \in 0..k
                BY <4>1
            <4>3. g[n] = reward * a /\ g[n - 1] = reward * b
                BY <4>2
            <4>4. base[n] \in Nat /\ total * base[n] <= reward * w
                BY <2>3
            <4> HIDE DEF a, b, w, g
            <4>5. g[n] - g[n - 1] = 2 * (reward * w)
                <5>1. reward * a - reward * b = reward * (a - b)
                    BY <4>2
                <5>2. reward * (2 * w) = 2 * (reward * w)
                    BY <4>2
                <5>3. QED BY <4>2, <4>3, <5>1, <5>2
            <4>6. (2 * total) * base[n] = 2 * (total * base[n])
                BY <2>2, <4>4
            <4> DEFINE left == total * base[n]
                       right == reward * w
            <4>7. left \in Int /\ right \in Int /\ left <= right
                BY <2>2, <4>2, <4>4
            <4> HIDE DEF left, right
            <4>8. 2 * left <= 2 * right
                BY <4>7
            <4>9. QED BY <4>5, <4>6, <4>8 DEF left, right
        <3> HIDE DEF g
        <3>3. (2 * total) * SumOf(base) <= g[k]
            <4> DEFINE c == 2 * total
            <4>1. c \in Nat
                BY <2>2
            <4> HIDE DEF c
            <4>2. \A n \in 1..k : c * base[n] <= g[n] - g[n - 1]
                BY <3>2 DEF c
            <4>3. c * SumOf(base) <= g[k]
                BY <2>4, <3>1, <4>1, <4>2, SumBelow
            <4>4. QED BY <4>3 DEF c
        <3>4. g[k] = (2 * total) * reward
            <4>1. g[k] = reward * (k * (2 * k + 1 - k)) /\ 2 * k + 1 - k = k + 1
                BY DEF g
            <4>2. g[k] = reward * (2 * total)
                BY <2>2, <4>1
            <4>3. QED BY <2>2, <4>2
        <3>5. SumOf(base) \in Nat
            BY <1>1, <2>4, SumNat
        <3> DEFINE c == 2 * total
                   t == SumOf(base)
        <3>6. c \in Nat \ {0} /\ t \in Nat /\ c * t <= c * reward
            BY <2>2, <3>3, <3>4, <3>5
        <3> HIDE DEF c, t
        <3>7. SUFFICES ASSUME t >= reward + 1 PROVE FALSE
            BY <3>6 DEF t
        <3>8. c * t >= c * (reward + 1)
            BY <3>6, <3>7
        <3>9. c * (reward + 1) = c * reward + c
            BY <3>6
        <3> DEFINE x == c * t
                   y == c * reward
        <3>10. x \in Int /\ y \in Int /\ x <= y /\ x >= y + c
            BY <3>6, <3>8, <3>9
        <3> HIDE DEF x, y
        <3>11. QED BY <3>6, <3>10
    <2>6. ASSUME NEW i \in 1..k, NEW j \in 1..k, i < j
          PROVE  base[i] >= base[j]
        <3> DEFINE a == reward * (k + 1 - j)
                   b == reward * (k + 1 - i)
        <3>1. a \in Nat /\ b \in Nat /\ a <= b
            <4> DEFINE v == k + 1 - j
                       w == k + 1 - i
            <4>1. v \in Nat /\ w \in Nat /\ v <= w
                BY <2>6
            <4> HIDE DEF v, w
            <4>2. reward * v \in Nat /\ reward * w \in Nat /\ reward * v <= reward * w
                BY <4>1
            <4>3. QED BY <4>2 DEF v, w
        <3>2. base[i] = b \div total /\ base[j] = a \div total
            BY <2>3
        <3> HIDE DEF a, b
        <3>3. a \div total <= b \div total
            BY <2>2, <3>1, DivMonotone
        <3>4. base[i] \in Nat /\ base[j] \in Nat
            BY <2>4
        <3>5. QED BY <3>2, <3>3, <3>4
    <2>7. /\ shares = [i \in 1..k |-> shares[i]] /\ SumOf(shares) = reward
          /\ \A i, j \in 1..k : i < j => shares[i] >= shares[j]
          /\ \A i \in 2..k : shares[i] = base[i]
        <3> HIDE DEF shares
        <3> QED BY <1>2, <2>1, <2>4, <2>5, <2>6
    <2>8. \A i \in 2..k : shares[i] = (reward * (k + 1 - i)) \div ((k * (k + 1)) \div 2)
        <3>1. \A i \in 2..k : i \in 1..k
            OBVIOUS
        <3> HIDE DEF shares
        <3>2. QED BY <2>3, <2>7, <3>1 DEF total
    <2>9. QED BY <2>7, <2>8
<1>6. QED BY <1>3, <1>4, <1>5

-----------------------------------------------------------------------------
(* The ranking. *)

\* No solver is ranked twice.
RankedOnce == /\ ranking \in Seq(ToSet(ranking))
              /\ \A i, k \in DOMAIN ranking : i # k => ranking[i].solver # ranking[k].solver

\* An answer takes the solver's earlier place or a new one, and the ranking is cut.
LEMMA RankInIs ==
    ASSUME RankedOnce, NEW call, Places(call) \in Nat, Len(ranking) <= Places(call), NEW entry
    PROVE  /\ RankIn(call, entry) \in Seq(ToSet(ranking) \cup {entry})
           /\ \A i, k \in DOMAIN RankIn(call, entry) :
                i # k => RankIn(call, entry)[i].solver # RankIn(call, entry)[k].solver
           /\ Len(RankIn(call, entry)) <= Places(call)
           /\ \/ /\ RankIn(call, entry) = ranking
                 /\ \E i \in DOMAIN ranking : ranking[i].solver = entry.solver /\ ranking[i].energy <= entry.energy
              \/ \A i \in DOMAIN RankIn(call, entry) :
                   RankIn(call, entry)[i].solver = entry.solver => RankIn(call, entry)[i] = entry
<1> DEFINE S == ToSet(ranking) \cup {entry}
           known == {i \in DOMAIN ranking : ranking[i].solver = entry.solver}
           others == IF known = {} THEN ranking ELSE RemoveAt(ranking, Min(known))
           ahead == Cardinality({i \in DOMAIN others : others[i].energy <= entry.energy})
           list == InsertAt(others, ahead + 1, entry)
           cut == SubSeq(list, 1, Min({Places(call), Len(list)}))
           apart(q) == \A i, k \in 1..Len(q) : i # k => q[i].solver # q[k].solver
<1>1. ranking \in Seq(S) /\ Len(ranking) \in Nat /\ DOMAIN ranking = 1..Len(ranking) /\ apart(ranking)
    <2>1. ranking \in Seq(S)
        BY WiderSeq DEF RankedOnce
    <2>2. QED BY <2>1 DEF RankedOnce
<1> DEFINE better == \E i \in DOMAIN ranking : ranking[i].solver = entry.solver /\ ranking[i].energy <= entry.energy
<1>2. RankIn(call, entry) = cut \/ (RankIn(call, entry) = ranking /\ better)
    BY DEF RankIn
<1> HIDE DEF better
<1> HIDE DEF S
<1>3. others \in Seq(S) /\ apart(others) /\ \A i \in 1..Len(others) : others[i].solver # entry.solver
    <2>1. CASE known = {}
        BY <1>1, <2>1
    <2>2. CASE known # {}
        <3> DEFINE m == Min(known)
        <3>1. m \in known
            <4>1. known \subseteq 1..Len(ranking) /\ IsFiniteSet(1..Len(ranking)) /\ known \subseteq Int
                BY <1>1, FS_Interval
            <4> HIDE DEF known
            <4>2. IsFiniteSet(known)
                BY <4>1, FS_Subset
            <4>3. QED BY <2>2, <4>1, <4>2, MinIs
        <3> HIDE DEF m
        <3>2. m \in 1..Len(ranking) /\ ranking[m].solver = entry.solver
            BY <1>1, <3>1
        <3>3. others = RemoveAt(ranking, m)
            BY <2>2 DEF m
        <3> HIDE DEF others
        <3>4. /\ others \in Seq(S) /\ Len(others) = Len(ranking) - 1
              /\ \A i \in 1..(Len(ranking) - 1) : others[i] = IF i < m THEN ranking[i] ELSE ranking[i + 1]
            BY <1>1, <3>2, <3>3, RemoveAtIs
        <3> DEFINE from(i) == IF i < m THEN i ELSE i + 1
        <3>5. \A i \in 1..Len(others) : from(i) \in 1..Len(ranking) /\ from(i) # m /\ others[i] = ranking[from(i)]
            BY <1>1, <3>2, <3>4
        <3>6. \A i, k \in 1..Len(others) : i # k => from(i) # from(k)
            BY <1>1, <3>2, <3>4
        <3> HIDE DEF from
        <3>7. QED BY SMTT(60), <1>1, <3>2, <3>4, <3>5, <3>6
    <2>3. QED BY <2>1, <2>2
<1> HIDE DEF known, others
<1>4. Len(others) \in Nat /\ ahead + 1 \in 1..(Len(others) + 1)
    <2> DEFINE lower == {i \in DOMAIN others : others[i].energy <= entry.energy}
               n == Len(others)
    <2>1. lower \subseteq 1..n /\ n \in Nat
        BY <1>3
    <2> HIDE DEF lower, n
    <2> n \in Nat
        BY <2>1
    <2>2. IsFiniteSet(1..n) /\ Cardinality(1..n) = n
        BY FirstNumbers
    <2>3. IsFiniteSet(lower) /\ Cardinality(lower) <= n
        BY <2>1, <2>2, FS_Subset
    <2>4. Cardinality(lower) \in Nat
        BY <2>3, FS_CardinalityType
    <2>5. Cardinality(lower) + 1 \in 1..(n + 1)
        BY <2>1, <2>3, <2>4
    <2>6. QED BY <2>1, <2>5 DEF lower, n
<1> DEFINE m == ahead + 1
<1>5. m \in 1..(Len(others) + 1) /\ list = InsertAt(others, m, entry)
    BY <1>4
<1> HIDE DEF ahead, m, list
<1>6. /\ list \in Seq(S) /\ Len(list) = Len(others) + 1
      /\ \A i \in 1..(Len(others) + 1) :
            list[i] = IF i < m THEN others[i] ELSE IF i = m THEN entry ELSE others[i - 1]
    <2>1. entry \in S /\ others \in Seq(S)
        BY <1>3 DEF S
    <2>2. m \in 1..(Len(others) + 1) /\ list = InsertAt(others, m, entry)
        BY <1>5
    <2> HIDE DEF others
    <2>3. /\ InsertAt(others, m, entry) \in Seq(S) /\ Len(InsertAt(others, m, entry)) = Len(others) + 1
          /\ \A i \in 1..(Len(others) + 1) : InsertAt(others, m, entry)[i] =
                IF i < m THEN others[i] ELSE IF i = m THEN entry ELSE others[i - 1]
        BY <2>1, <2>2, InsertAtIs, SMTT(60)
    <2>4. QED BY <2>2, <2>3
<1>7. apart(list)
    <2> SUFFICES ASSUME NEW i \in 1..Len(list), NEW k \in 1..Len(list), i < k
                 PROVE  list[i].solver # list[k].solver
        BY <1>4, <1>6
    <2> DEFINE from(x) == IF x < m THEN x ELSE x - 1
    <2>1. \A x \in 1..Len(list) : x # m => from(x) \in 1..Len(others) /\ list[x] = others[from(x)]
        BY <1>4, <1>5, <1>6
    <2>2. i # m /\ k # m => from(i) # from(k)
        BY <1>4, <1>5, <1>6
    <2>3. list[m] = entry
        BY <1>5, <1>6
    <2> HIDE DEF from
    <2>4. CASE i = m
        BY <1>3, <2>1, <2>3, <2>4
    <2>5. CASE k = m
        BY <1>3, <2>1, <2>3, <2>5
    <2>6. CASE i # m /\ k # m
        BY <1>3, <2>1, <2>2, <2>6
    <2>7. QED BY <2>4, <2>5, <2>6
<1> DEFINE c == Min({Places(call), Len(list)})
<1>8. c \in Nat /\ c <= Len(list) /\ c <= Places(call)
    <2> DEFINE ends == {Places(call), Len(list)}
    <2>1. ends \subseteq Nat /\ ends # {}
        BY <1>4, <1>6
    <2>2. IsFiniteSet(ends)
        <3>1. IsFiniteSet({} \cup {Places(call)})
            BY FS_EmptySet, FS_AddElement
        <3>2. IsFiniteSet(({} \cup {Places(call)}) \cup {Len(list)})
            BY <3>1, FS_AddElement
        <3>3. ends = ({} \cup {Places(call)}) \cup {Len(list)}
            OBVIOUS
        <3>4. QED BY <3>2, <3>3
    <2> HIDE DEF ends
    <2>3. ends \subseteq Int
        BY <2>1
    <2>4. Min(ends) \in ends /\ \A e \in ends : Min(ends) <= e
        BY <2>1, <2>2, <2>3, MinIs
    <2>5. Min(ends) \in Nat /\ Min(ends) <= Len(list) /\ Min(ends) <= Places(call)
        BY <2>1, <2>4 DEF ends
    <2>6. QED BY <2>5 DEF ends
<1> HIDE DEF c
<1>9. cut \in Seq(S) /\ Len(cut) = c /\ \A i \in 1..c : cut[i] = list[i]
    <2>1. cut = SubSeq(list, 1, c)
        BY DEF c
    <2> HIDE DEF cut
    <2>2. QED BY <1>6, <1>8, <2>1
<1> HIDE DEF cut
<1>10. apart(cut)
    BY <1>6, <1>7, <1>8, <1>9
<1>11. \A i \in 1..c : cut[i].solver = entry.solver => cut[i] = entry
    <2> SUFFICES ASSUME NEW i \in 1..c, list[i].solver = entry.solver PROVE list[i] = entry
        BY <1>9
    <2>1. i \in 1..(Len(others) + 1) /\ i \in Nat /\ m \in Nat
        BY <1>4, <1>5, <1>6, <1>8
    <2>2. CASE i < m
        BY <1>3, <1>4, <1>5, <1>6, <2>1, <2>2
    <2>3. CASE i = m
        BY <1>6, <2>1, <2>3
    <2>4. CASE i > m
        <3>1. i - 1 \in 1..Len(others) /\ list[i] = others[i - 1]
            BY <1>4, <1>5, <1>6, <2>1, <2>4
        <3>2. QED BY <1>3, <3>1
    <2>5. QED BY <2>1, <2>2, <2>3, <2>4
<1>12. \A q \in {ranking, cut} : q \in Seq(S) /\ apart(q) /\ Len(q) <= Places(call)
    BY <1>1, <1>8, <1>9, <1>10
<1>13. \A q \in Seq(S) : DOMAIN q = 1..Len(q)
    OBVIOUS
<1> DEFINE ranked == RankIn(call, entry)
<1>14. CASE ranked = cut
    <2> HIDE DEF ranked
    <2>1. ranked \in Seq(S) /\ apart(ranked) /\ Len(ranked) <= Places(call)
          /\ DOMAIN ranked = 1..Len(ranked) /\ Len(ranked) = c
        BY <1>9, <1>12, <1>13, <1>14
    <2>2. \A i \in DOMAIN ranked : ranked[i].solver = entry.solver => ranked[i] = entry
        BY <1>11, <1>14, <2>1
    <2>3. QED BY <2>1, <2>2 DEF S, ranked
<1>15. CASE ranked = ranking /\ better
    <2> HIDE DEF ranked
    <2>1. ranked \in Seq(S) /\ apart(ranked) /\ Len(ranked) <= Places(call) /\ DOMAIN ranked = 1..Len(ranked)
        BY <1>12, <1>13, <1>15
    <2>2. QED BY <1>15, <2>1 DEF S, ranked, better
<1>16. QED BY <1>2, <1>14, <1>15

-----------------------------------------------------------------------------
(* Who is listed. *)

\* No one has two of the first k places, and those who have the first j of them.
Apart(solvers, k) == \A i, l \in 1..k : i # l => solvers[i] # solvers[l]
Top(solvers, j) == {solvers[i] : i \in 1..j}

\* If no one has two places, then j places are taken by j solvers.
LEMMA TopIs ==
    ASSUME NEW solvers, NEW k \in Nat, Apart(solvers, k), NEW j \in 0..k
    PROVE  IsFiniteSet(Top(solvers, j)) /\ Cardinality(Top(solvers, j)) = j
<1> DEFINE T == Top(solvers, j)
           f == [i \in 1..j |-> solvers[i]]
<1>1. j \in Nat /\ \A i \in 1..j : i \in 1..k
    OBVIOUS
<1>2. IsFiniteSet(1..j) /\ Cardinality(1..j) = j
    BY <1>1, FirstNumbers
<1>3. f \in Surjection(1..j, T)
    BY DEF Surjection, Top
<1>4. f \in Injection(1..j, T)
    BY <1>1 DEF Injection, IsInjective, Top, Apart
<1> HIDE DEF f, T
<1>5. IsFiniteSet(T) /\ Cardinality(T) = j
    BY <1>2, <1>3, <1>4, FS_Surjection
<1>6. QED BY <1>5 DEF T

\* The smaller of two numbers is the least.
LEMMA MinOfTwo ==
    ASSUME NEW a \in Int, NEW b \in Int, a < b
    PROVE  Min({a} \cup {b}) = a
<1> DEFINE S == {a} \cup {b}
<1>1. IsFiniteSet(S)
    BY FS_Singleton, FS_AddElement
<1>2. S \subseteq Int /\ S # {} /\ a \in S /\ \A e \in S : e = a \/ e = b
    OBVIOUS
<1> HIDE DEF S
<1>3. Min(S) \in S /\ \A e \in S : Min(S) <= e
    BY <1>1, <1>2, MinIs
<1>4. Min(S) = a \/ Min(S) = b
    BY <1>2, <1>3
<1>5. Min(S) <= a
    BY <1>2, <1>3
<1>6. Min(S) = a
    BY <1>4, <1>5
<1>7. QED BY <1>6 DEF S

\* The solvers that are ranked are listed first, in the order of their ranks.
LEMMA RankedFirst ==
    ASSUME NEW stored, IsFiniteSet(DOMAIN stored), NEW T, NEW ranked \in Seq(T),
           \A i \in DOMAIN ranked : ranked[i].solver \in DOMAIN stored,
           \A i, l \in DOMAIN ranked : i # l => ranked[i].solver # ranked[l].solver,
           NEW m \in DOMAIN ranked
    PROVE  SolversListed(stored, ranked)[m] = ranked[m].solver
<1> DEFINE S == DOMAIN stored
           k == Len(ranked)
           solvers == [i \in 1..k |-> ranked[i].solver]
           at(s) == {i \in DOMAIN ranked : ranked[i].solver = s}
           place(s) == Min({i \in DOMAIN ranked : ranked[i].solver = s} \cup {Len(ranked) + 1})
           before(s, t) == \/ place(s) < place(t)
                           \/ place(s) = place(t) /\ stored[s].energy < stored[t].energy
                           \/ place(s) = place(t) /\ stored[s].energy = stored[t].energy
                                /\ stored[s].at < stored[t].at
           earlier(s) == {t \in DOMAIN stored \ {s} : before(t, s)}
           top(j) == Top(solvers, j)
<1>1. k \in Nat /\ DOMAIN ranked = 1..k
    OBVIOUS
<1>2. /\ \A i \in 1..k : solvers[i] \in S /\ solvers[i] = ranked[i].solver
      /\ \A i, l \in 1..k : i # l => solvers[i] # solvers[l]
    BY <1>1
<1>3. SolversListed(stored, ranked) =
         [n \in 1..Cardinality(S) |-> CHOOSE s \in S : Cardinality(earlier(s)) = n - 1]
    BY DEF SolversListed
<1>4. \A s : place(s) = Min(at(s) \cup {k + 1})
    OBVIOUS
<1>5. \A i \in 1..k : place(solvers[i]) = i
    <2> TAKE i \in 1..k
    <2>1. at(solvers[i]) = {i}
        BY <1>1, <1>2
    <2> HIDE DEF k, at, place
    <2> DEFINE after == k + 1
    <2>2. i \in Int /\ after \in Int /\ i < after
        BY <1>1
    <2> HIDE DEF after
    <2>3. Min({i} \cup {after}) = i
        BY <2>2, MinOfTwo
    <2>4. QED BY <1>4, <2>1, <2>3 DEF after
<1>6. \A s : (\A i \in 1..k : solvers[i] # s) => place(s) = k + 1
    <2> SUFFICES ASSUME NEW s, \A i \in 1..k : solvers[i] # s PROVE place(s) = k + 1
        OBVIOUS
    <2>1. at(s) = {}
        BY <1>1, <1>2
    <2> HIDE DEF k, at, place
    <2> DEFINE ends == {k + 1}
    <2>2. IsFiniteSet(ends)
        BY FS_Singleton
    <2>3. ends \subseteq Int /\ ends # {} /\ \A e \in ends : e = k + 1
        BY <1>1
    <2> HIDE DEF ends
    <2>4. Min(ends) = k + 1
        BY <2>2, <2>3, MinIs
    <2>5. {} \cup {k + 1} = ends
        BY DEF ends
    <2>6. QED BY <1>4, <2>1, <2>4, <2>5
<1> HIDE DEF place, solvers, k, at
<1>7. \A s : place(s) \in Int
    <2> TAKE s
    <2>1. (\A i \in 1..k : solvers[i] # s) \/ \E i \in 1..k : solvers[i] = s
        OBVIOUS
    <2>2. k + 1 \in Int /\ \A i \in 1..k : i \in Int
        BY <1>1
    <2>3. QED BY <1>5, <1>6, <2>1, <2>2
<1>8. \A i \in 1..k : earlier(solvers[i]) = top(i - 1)
    <2> TAKE i \in 1..k
    <2>1. ASSUME NEW t \in earlier(solvers[i]) PROVE t \in top(i - 1)
        <3>1. t \in S /\ t # solvers[i] /\ place(t) <= i
            <4>1. t \in S /\ t # solvers[i] /\ before(t, solvers[i])
                BY <2>1
            <4>2. place(t) <= place(solvers[i])
                BY <1>7, <4>1
            <4>3. QED BY <1>5, <4>1, <4>2
        <3>2. PICK l \in 1..k : solvers[l] = t
            BY <1>1, <1>6, <3>1
        <3>3. place(t) = l /\ l # i /\ l <= i
            BY <1>5, <3>1, <3>2
        <3>4. l \in 1..(i - 1)
            BY <1>1, <3>3
        <3>5. QED BY <3>2, <3>4 DEF Top
    <2>2. ASSUME NEW t \in top(i - 1) PROVE t \in earlier(solvers[i])
        <3>1. PICK l \in 1..(i - 1) : solvers[l] = t
            BY <2>2 DEF Top
        <3>2. l \in 1..k /\ l < i
            BY <1>1
        <3>3. place(t) < place(solvers[i]) /\ t \in S /\ t # solvers[i]
            BY <1>2, <1>5, <3>1, <3>2
        <3>4. QED BY <3>3
    <2>3. QED BY <2>1, <2>2
<1>9. \A s \in S : (\A i \in 1..k : solvers[i] # s) => top(k) \subseteq earlier(s)
    <2> SUFFICES ASSUME NEW s \in S, \A i \in 1..k : solvers[i] # s, NEW i \in 1..k
                 PROVE  solvers[i] \in earlier(s)
        BY DEF Top
    <2>1. place(solvers[i]) < place(s)
        BY <1>1, <1>5, <1>6
    <2>2. QED BY <1>2, <2>1
<1>10. \A j \in 0..k : IsFiniteSet(top(j)) /\ Cardinality(top(j)) = j
    <2>1. Apart(solvers, k)
        BY <1>2 DEF Apart
    <2>2. QED BY <1>1, <2>1, TopIs
<1>11. \A s \in S : earlier(s) \in SUBSET S
    OBVIOUS
<1>12. top(k) \in SUBSET S
    BY <1>2 DEF Top
<1> HIDE DEF earlier, top, S
<1>13. k <= Cardinality(S) /\ Cardinality(S) \in Nat /\ m \in 1..Cardinality(S) /\ m \in 1..k
    <2>1. IsFiniteSet(S)
        BY DEF S
    <2>2. Cardinality(top(k)) <= Cardinality(S) /\ Cardinality(S) \in Nat
        BY <1>12, <2>1, FS_Subset, FS_CardinalityType
    <2>3. Cardinality(top(k)) = k
        BY <1>1, <1>10
    <2>4. QED BY <1>1, <2>2, <2>3
<1>14. Cardinality(earlier(solvers[m])) = m - 1
    <2>1. m - 1 \in 0..k
        BY <1>1, <1>13
    <2>2. QED BY <1>8, <1>10, <1>13, <2>1
<1>15. ASSUME NEW s \in S, Cardinality(earlier(s)) = m - 1
       PROVE  s = solvers[m]
    <2>1. CASE \A i \in 1..k : solvers[i] # s
        <3>1. IsFiniteSet(S)
            BY DEF S
        <3>2. IsFiniteSet(earlier(s))
            BY <1>11, <3>1, FS_Subset
        <3>3. Cardinality(top(k)) <= Cardinality(earlier(s))
            BY <1>9, <2>1, <3>2, FS_Subset
        <3>4. k <= m - 1
            BY <1>1, <1>10, <1>15, <3>3
        <3>5. QED BY <1>1, <1>13, <3>4
    <2>2. CASE \E i \in 1..k : solvers[i] = s
        <3>1. PICK i \in 1..k : solvers[i] = s
            BY <2>2
        <3>2. i - 1 \in 0..k
            BY <1>1
        <3>3. Cardinality(earlier(s)) = i - 1
            BY <1>8, <1>10, <3>1, <3>2
        <3>4. i = m
            BY <1>1, <1>13, <1>15, <3>3
        <3>5. QED BY <3>1, <3>4
    <2>3. QED BY <2>1, <2>2
<1>16. solvers[m] \in S
    BY <1>2, <1>13
<1>17. (CHOOSE s \in S : Cardinality(earlier(s)) = m - 1) = solvers[m]
    BY <1>14, <1>15, <1>16
<1>18. SolversListed(stored, ranked)[m] = CHOOSE s \in S : Cardinality(earlier(s)) = m - 1
    BY <1>3, <1>13
<1>19. QED BY <1>2, <1>13, <1>17, <1>18

-----------------------------------------------------------------------------
(* The order that is open. *)

\* Nobody is ranked before the order is open; then at most as many as it pays,
\* each once, and each of them answered.
PaidInv ==
    /\ RankedOnce /\ IsFiniteSet(DOMAIN answers)
    /\ \A i \in DOMAIN ranking : ranking[i].solver \in DOMAIN answers
    /\ state # "open" => ranking = <<>>
    /\ state = "open" => /\ posted.reward \in Nat /\ Places(posted) \in Nat
                         /\ Len(ranking) <= Places(posted)

\* Whoever edits a draft opens nothing.
LEMMA DraftStaysUnpaid ==
    ASSUME PaidInv, Create \/ Set \/ Searching \/ Placed
    PROVE  PaidInv'
<1>1. UNCHANGED chainVars
    BY DEF Create, Set, Searching, Placed
<1>2. state # "open" /\ state' # "open"
    <2>1. Raised => state' # "open"
        BY DEF Raised
    <2>2. \A o, placed : Finish(o, placed) => state' # "open"
        BY DEF Finish
    <2>3. \A o, at : Encode(o, at) => state' # "open"
        BY <2>1, <2>2 DEF Encode
    <2>4. \A o : Place(o) => state' # "open"
        BY <2>1, <2>3 DEF Place
    <2>5. QED BY <2>1, <2>2, <2>3, <2>4 DEF Create, Set, Searching, Placed
<1>3. QED BY <1>1, <1>2 DEF PaidInv, RankedOnce, chainVars, Places

\* An order is opened with nobody ranked.
LEMMA ProposeStaysUnpaid ==
    ASSUME PaidInv, TakenInv, Propose
    PROVE  PaidInv'
<1> DEFINE call == CallParams(options, job)
<1>1. OptionsOK(options) /\ JobOK(job) /\ options.resolution.variant \in Variants /\ ranking = <<>>
    BY DEF Propose, TakenInv, DraftTaken, HasJob, PaidInv
<1>2. ChainTakes(call, C.limits)
    BY <1>1, CallIsTaken
<1>3. posted' = call /\ UNCHANGED <<answers, ranking>>
    BY DEF Propose
<1>4. call.reward \in Nat /\ call.resolution = options.resolution
    BY <1>1 DEF CallParams, OptionsOK, OptionsTyped
<1> HIDE DEF call
<1>5. Places(call) \in Nat
    <2>1. call.resolution.variant # "SingleBest" => call.resolution.n \in 1..MaxWinners
        BY <1>2 DEF ChainTakes
    <2>2. \A n \in 1..MaxWinners : n \in Nat
        BY DEF MaxWinners
    <2>3. QED BY <2>1, <2>2 DEF Places
<1>6. Places(posted') \in Nat /\ posted'.reward \in Nat
    BY <1>3, <1>4, <1>5
<1>7. Len(ranking) = 0 /\ Len(ranking) <= Places(posted')
    BY <1>1, <1>6
<1>8. QED BY <1>1, <1>3, <1>6, <1>7 DEF PaidInv, RankedOnce, Places

\* An answer is stored, and its solver ranked as RankIn says.
LEMMA SolveRanks ==
    ASSUME PaidInv, Solve
    PROVE  PaidInv'
<1>1. state = "open" /\ state' = "open" /\ posted' = posted
    BY DEF Solve, Answer, draftVars
<1>2. PICK solver : \E vectors : Answer(solver, vectors)
    BY DEF Solve
<1>3. PICK entry : /\ entry.solver = solver /\ ranking' = RankIn(posted, entry)
                   /\ DOMAIN answers' = DOMAIN answers \cup {solver}
    <2>1. PICK vectors : Answer(solver, vectors)
        BY <1>2
    <2> DEFINE left == Under(posted, vectors)
               energies == {ChainEnergy(posted, left[i]) : i \in DOMAIN left}
               entry == [solver |-> solver, energy |-> Min(energies)]
    <2>2. PICK kept : /\ ranking' = RankIn(posted, entry)
                      /\ answers' = [s \in DOMAIN answers \cup {solver} |->
                           IF s = solver THEN [energy |-> Min(energies), vectors |-> kept, at |-> submissions]
                           ELSE answers[s]]
        BY <2>1 DEF Answer
    <2>3. DOMAIN answers' = DOMAIN answers \cup {solver}
        BY <2>2
    <2>4. entry.solver = solver
        OBVIOUS
    <2> HIDE DEF entry
    <2>5. QED BY <2>2, <2>3, <2>4
<1> DEFINE ranked == RankIn(posted, entry)
<1>4. RankedOnce /\ Places(posted) \in Nat /\ Len(ranking) <= Places(posted) /\ posted.reward \in Nat
    BY <1>1 DEF PaidInv
<1>5. /\ ranked \in Seq(ToSet(ranking) \cup {entry}) /\ Len(ranked) <= Places(posted)
      /\ \A i, k \in DOMAIN ranked : i # k => ranked[i].solver # ranked[k].solver
    BY <1>4, RankInIs
<1>6. ranking' = ranked
    BY <1>3
<1> HIDE DEF ranked
<1>7. IsFiniteSet(DOMAIN answers')
    BY <1>3, FS_AddElement DEF PaidInv
<1>8. \A i \in DOMAIN ranked : ranked[i].solver \in DOMAIN answers \cup {solver}
    <2>1. \A i \in DOMAIN ranked : ranked[i] \in ToSet(ranking) \cup {entry}
        BY <1>5
    <2>2. \A r \in ToSet(ranking) : r.solver \in DOMAIN answers
        BY DEF PaidInv, ToSet
    <2>3. QED BY <1>3, <2>1, <2>2
<1>9. ranked \in Seq(ToSet(ranked))
    BY <1>5 DEF ToSet
<1>10. QED BY <1>1, <1>3, <1>4, <1>5, <1>6, <1>7, <1>8, <1>9 DEF PaidInv, RankedOnce, Places

\* Reading changes nothing on the chain.
LEMMA ReadingPaysNobody ==
    ASSUME PaidInv, ReadAnswers \/ ReadRanking \/ UNCHANGED vars
    PROVE  PaidInv'
<1>1. UNCHANGED <<state, posted, answers, ranking>>
    BY DEF ReadAnswers, ReadRanking, vars, draftVars, chainVars
<1>2. QED BY <1>1 DEF PaidInv, RankedOnce, Places

\* In such a state, what settlement() says splits the reward.
LEMMA PaidSplits ==
    ASSUME PaidInv
    PROVE  PayoutsSplitTheReward
<1> DEFINE paid == Settlement(ranking, C.limits)
           k == Len(ranking)
           variant == posted.resolution.variant
           shares == Shares(variant, k, posted.reward)
<1>1. SUFFICES ASSUME ranking # <<>>, paid # None
               PROVE  /\ Total([i \in DOMAIN paid |-> paid[i].share]) = posted.reward
                      /\ \A i, j \in DOMAIN paid : i < j => paid[i].share >= paid[j].share
                      /\ \A i \in 2..k : variant = "TopNWeighted" =>
                           paid[i].share = (posted.reward * (k + 1 - i)) \div ((k * (k + 1)) \div 2)
                      /\ \A i \in DOMAIN paid : SolversListed(answers, ranking)[i] = paid[i].solver
    BY DEF PayoutsSplitTheReward
<1>2. k \in Nat /\ k # 0 /\ DOMAIN ranking = 1..k
    <2>1. ranking \in Seq(ToSet(ranking))
        BY DEF PaidInv, RankedOnce
    <2>2. QED BY <1>1, <2>1
<1>3. /\ posted.reward \in Nat
      /\ variant = "SingleBest" => k = 1
    <2>1. state = "open"
        BY <1>1 DEF PaidInv
    <2>2. posted.reward \in Nat /\ k <= Places(posted)
        BY <2>1 DEF PaidInv
    <2>3. variant = "SingleBest" => Places(posted) = 1
        BY DEF Places
    <2> HIDE DEF k, variant
    <2>4. QED BY <1>2, <2>2, <2>3
<1>4. paid = [i \in 1..k |-> [solver |-> ranking[i].solver, share |-> shares[i]]]
    BY <1>1, <1>2 DEF Settlement
<1>5. DOMAIN paid = 1..k /\ \A i \in 1..k : paid[i].solver = ranking[i].solver /\ paid[i].share = shares[i]
    <2> HIDE DEF shares, k, paid
    <2> QED BY <1>4
<1>6. /\ shares = [i \in 1..k |-> shares[i]]
      /\ SumOf(shares) = posted.reward
      /\ \A i, j \in 1..k : i < j => shares[i] >= shares[j]
      /\ variant = "TopNWeighted" =>
           \A i \in 2..k : shares[i] = (posted.reward * (k + 1 - i)) \div ((k * (k + 1)) \div 2)
    <2> HIDE DEF k, variant
    <2>1. Splits(shares, variant, k, posted.reward)
        BY <1>2, <1>3, SharesSplit
    <2> HIDE DEF shares
    <2>2. QED BY <2>1 DEF Splits
<1>7. \A i \in 1..k : SolversListed(answers, ranking)[i] = ranking[i].solver
    BY <1>2, RankedFirst DEF PaidInv, RankedOnce
<1> HIDE DEF paid, shares, k, variant
<1>8. Total([i \in DOMAIN paid |-> paid[i].share]) = posted.reward
    <2>1. [i \in DOMAIN paid |-> paid[i].share] = shares
        BY <1>5, <1>6
    <2>2. Total(shares) = SumOf(shares)
        BY DEF Total, SumOf
    <2>3. QED BY <1>6, <2>1, <2>2
<1>9. \A i \in 2..k : i \in 1..k
    BY <1>2
<1>10. QED BY <1>5, <1>6, <1>7, <1>8, <1>9

\* In every state of an order the ranking is one that the rule can pay.
LEMMA PaidHolds == Spec => []PaidInv
<1>1. Init => PaidInv
    <2>1. ASSUME Init PROVE PaidInv
        <3>1. state = "new" /\ ranking = <<>> /\ answers = <<>>
            BY <2>1 DEF Init
        <3>2. DOMAIN answers = {} /\ DOMAIN ranking = {}
            BY <3>1
        <3>3. IsFiniteSet(DOMAIN answers)
            BY <3>2, FS_EmptySet
        <3>4. RankedOnce
            BY <3>1, <3>2 DEF RankedOnce
        <3>5. QED BY <3>1, <3>2, <3>3, <3>4 DEF PaidInv
    <2>2. QED BY <2>1
<1>2. TakenInv /\ PaidInv /\ [Next]_vars => PaidInv'
    BY DraftStaysUnpaid, ProposeStaysUnpaid, SolveRanks, ReadingPaysNobody DEF Next
<1>3. QED BY <1>1, <1>2, TakenHolds, PTL DEF Spec

\* The winners share the whole reward, none gets more than one ranked better,
\* and solvers() lists those who are paid first, whatever the rule, the reward
\* and the answers: nobody is ranked twice, and never more than the rule pays.
THEOREM PayoutsSplit == Spec => []PayoutsSplitTheReward
<1>1. PaidInv => PayoutsSplitTheReward
    BY PaidSplits
<1>2. QED BY <1>1, PaidHolds, PTL

-----------------------------------------------------------------------------
(* Energies. *)

\* A function on a finite set has finitely many values.
LEMMA ValuesFinite ==
    ASSUME NEW f, IsFiniteSet(DOMAIN f)
    PROVE  IsFiniteSet({f[x] : x \in DOMAIN f})
<1> DEFINE T == {f[x] : x \in DOMAIN f}
           g == [x \in DOMAIN f |-> f[x]]
<1>1. g \in Surjection(DOMAIN f, T)
    BY DEF Surjection
<1> HIDE DEF T, g
<1>2. QED BY <1>1, FS_Surjection DEF T

\* A number of a finite set that no other is below is its minimum.
LEMMA LowestIs ==
    ASSUME NEW S, S \subseteq Int, IsFiniteSet(S), NEW m \in S, \A e \in S : m <= e
    PROVE  Min(S) = m
<1>1. Min(S) \in S /\ \A e \in S : Min(S) <= e
    BY MinIs
<1> DEFINE least == Min(S)
<1> HIDE DEF least
<1>2. least \in Int /\ m \in Int /\ least <= m /\ m <= least
    BY <1>1 DEF least
<1>3. least = m
    BY <1>2
<1>4. QED BY <1>3 DEF least

\* The coefficients without their signs.
Absolute(c) == [i \in DOMAIN c |-> Abs(c[i])]

\* What flips the signs of some coefficients adds up within their reach.
LEMMA FlippedIs ==
    ASSUME NEW c, IsFiniteSet(DOMAIN c), \A i \in DOMAIN c : c[i] \in Int,
           NEW f, DOMAIN f = DOMAIN c, \A i \in DOMAIN f : f[i] = c[i] \/ f[i] = -c[i],
           NEW reach, reach = SumOf(Absolute(c))
    PROVE  reach \in Nat /\ SumOf(f) \in Int /\ -reach <= SumOf(f) /\ SumOf(f) <= reach
<1> DEFINE g == Absolute(c)
<1>1. DOMAIN g = DOMAIN c /\ \A i \in DOMAIN c : g[i] = Abs(c[i])
    BY DEF Absolute
<1>2. \A i \in DOMAIN f : f[i] \in Int /\ g[i] \in Nat /\ -g[i] <= f[i] /\ f[i] <= g[i]
    <2> TAKE i \in DOMAIN f
    <2>1. g[i] = IF c[i] < 0 THEN -c[i] ELSE c[i]
        BY <1>1 DEF Abs
    <2>2. c[i] \in Int /\ (f[i] = c[i] \/ f[i] = -c[i])
        OBVIOUS
    <2> HIDE DEF g
    <2>3. QED BY <2>1, <2>2
<1> HIDE DEF g
<1>3. QED BY <1>1, <1>2, SumBetween DEF g

\* The chain reads the coefficients of a call by their place, and the client by
\* the node or the edge that they belong to: both find the same energy,
\* and it is within the reach of the coefficients.
LEMMA ChainEnergyIs ==
    ASSUME NEW o, NEW placed, JobOK(placed), NEW v \in Vectors(placed)
    PROVE  /\ ChainEnergy(CallParams(o, placed), v) = IsingEnergyMilli(placed, v)
           /\ IsingEnergyMilli(placed, v) \in Int /\ Reach(placed) \in Nat
           /\ -Reach(placed) <= IsingEnergyMilli(placed, v) /\ IsingEnergyMilli(placed, v) <= Reach(placed)
<1> DEFINE call == CallParams(o, placed)
           top == placed.top
           q == NodesOf(placed)
           r == EdgesOf(placed)
           n == Cardinality(top.nodes)
           k == Cardinality(top.edges)
           at(node) == IndexOf(top, node)
           fields == [p \in DOMAIN placed.h |-> placed.h[p] * v[p]]
           byPlace == [p \in DOMAIN placed.j |-> placed.j[p] * v[At(call, r[p][1])] * v[At(call, r[p][2])]]
           byEdge == [e \in top.edges |-> placed.j[EdgeIndex(top, e[1], e[2])] * v[at(e[1])] * v[at(e[2])]]
<1>1. /\ placed.h \in [1..n -> Int] /\ placed.j \in [1..k -> Int] /\ IsFiniteSet(top.edges)
      /\ top.edges \subseteq top.nodes \X top.nodes
    BY DEF JobOK, JobShape
<1>2. /\ ToSet(q) = top.nodes /\ q \in [1..n -> top.nodes] /\ \A p \in 1..n : at(q[p]) = p
      /\ ToSet(r) = top.edges /\ r \in [1..k -> top.edges]
      /\ \A p \in 1..k : EdgeIndex(top, r[p][1], r[p][2]) = p
    BY NodesAre, EdgesAre DEF JobOK
<1>3. v \in [1..n -> {-1, 1}]
    BY DEF Vectors
<1>4. call.h = placed.h /\ call.j = placed.j /\ call.nodes = q /\ call.edges = r
    BY DEF CallParams
<1>5. IsFiniteSet(1..n) /\ IsFiniteSet(1..k)
    <2>1. n \in Nat /\ k \in Nat
        BY <1>1, FS_CardinalityType DEF JobOK, JobShape, GoodGraph
    <2> HIDE DEF n, k
    <2>2. QED BY <2>1, FirstNumbers
<1> HIDE DEF call, q, r, at, n, k
<1>6. \A node \in top.nodes : At(call, node) = at(node) /\ at(node) \in 1..n
    <2> TAKE node \in top.nodes
    <2>1. PICK p \in 1..n : q[p] = node
        BY <1>2 DEF ToSet
    <2>2. \A l \in DOMAIN q : q[l] = node => l = p
        BY <1>2, <2>1
    <2>3. (CHOOSE l \in DOMAIN q : q[l] = node) = p
        BY <1>2, <2>1, <2>2
    <2>4. QED BY <1>2, <1>4, <2>1, <2>3 DEF At
<1>7. ChainEnergy(call, v) = Total(fields) + Total(byPlace) /\ IsingEnergyMilli(placed, v) = Total(fields) + Total(byEdge)
    BY <1>4 DEF ChainEnergy, IsingEnergyMilli, at
<1>8. \A a \in top.nodes : v[at(a)] \in {-1, 1} /\ v[At(call, a)] = v[at(a)]
    BY <1>3, <1>6
<1>9. \A e \in top.edges : EdgeIndex(top, e[1], e[2]) \in 1..k
    <2> TAKE e \in top.edges
    <2>1. PICK p \in 1..k : r[p] = e
        BY <1>2 DEF ToSet
    <2>2. QED BY <1>2, <2>1
<1>10. /\ DOMAIN fields = 1..n /\ \A p \in 1..n : fields[p] = placed.h[p] \/ fields[p] = -placed.h[p]
    <2>1. \A p \in 1..n : placed.h[p] \in Int
        BY <1>1
    <2>2. \A p \in 1..n : v[p] = 1 \/ v[p] = -1
        BY <1>3
    <2>3. DOMAIN fields = 1..n /\ \A p \in 1..n : fields[p] = placed.h[p] * v[p]
        BY <1>1
    <2> HIDE DEF fields
    <2>4. QED BY <2>1, <2>2, <2>3
<1>11. /\ DOMAIN byEdge = top.edges /\ \A e \in top.edges : byEdge[e] \in Int
    <2>1. \A e \in top.edges : /\ e[1] \in top.nodes /\ e[2] \in top.nodes
                               /\ placed.j[EdgeIndex(top, e[1], e[2])] \in Int
        BY <1>1, <1>9
    <2>2. QED BY <1>8, <2>1
<1>12. /\ DOMAIN byPlace = 1..k
       /\ \A p \in 1..k : /\ byPlace[p] = byEdge[r[p]]
                          /\ byPlace[p] = placed.j[p] \/ byPlace[p] = -placed.j[p]
    <2>1. DOMAIN byPlace = 1..k
        BY <1>1
    <2>2. ASSUME NEW p \in 1..k, NEW e, e = r[p]
          PROVE  byPlace[p] = byEdge[e] /\ (byPlace[p] = placed.j[p] \/ byPlace[p] = -placed.j[p])
        <3>1. e \in top.edges /\ EdgeIndex(top, e[1], e[2]) = p /\ e[1] \in top.nodes /\ e[2] \in top.nodes
            BY <1>1, <1>2, <2>2
        <3>2. v[At(call, e[1])] = v[at(e[1])] /\ v[At(call, e[2])] = v[at(e[2])]
            BY <1>8, <3>1
        <3>3. byPlace[p] = placed.j[p] * v[At(call, e[1])] * v[At(call, e[2])]
            BY <2>1, <2>2
        <3>4. byEdge[e] = placed.j[p] * v[at(e[1])] * v[at(e[2])]
            BY <3>1
        <3>5. v[at(e[1])] \in {-1, 1} /\ v[at(e[2])] \in {-1, 1} /\ placed.j[p] \in Int
            BY <1>1, <1>8, <3>1
        <3>6. byEdge[e] = placed.j[p] \/ byEdge[e] = -placed.j[p]
            BY <3>4, <3>5
        <3>7. QED BY <3>2, <3>3, <3>4, <3>6
    <2>3. QED BY <2>1, <2>2
<1>13. r \in Bijection(1..k, top.edges)
    <2>1. \A p, l \in 1..k : r[p] = r[l] => p = l
        BY <1>2
    <2>2. \A e \in top.edges : \E p \in 1..k : r[p] = e
        BY <1>2 DEF ToSet
    <2>3. QED BY <1>2, <2>1, <2>2 DEF Bijection, Injection, Surjection, IsInjective
<1> HIDE DEF fields, byPlace, byEdge
<1>14. SumOf(byPlace) = SumOf(byEdge)
    <2>1. /\ IsFiniteSet(DOMAIN byPlace) /\ IsFiniteSet(DOMAIN byEdge) /\ r \in Bijection(DOMAIN byPlace, DOMAIN byEdge)
          /\ \A e \in DOMAIN byEdge : byEdge[e] \in Int
          /\ \A p \in DOMAIN byPlace : byPlace[p] = byEdge[r[p]]
        BY <1>1, <1>5, <1>11, <1>12, <1>13
    <2>2. QED BY <2>1, SumRenamed
<1>15. \A f : Total(f) = SumOf(f)
    BY DEF Total, SumOf
<1>16. Reach(placed) = SumOf(Absolute(placed.h)) + SumOf(Absolute(placed.j))
    BY <1>15 DEF Reach, Absolute
<1>17. /\ SumOf(Absolute(placed.h)) \in Nat /\ SumOf(fields) \in Int
       /\ -SumOf(Absolute(placed.h)) <= SumOf(fields) /\ SumOf(fields) <= SumOf(Absolute(placed.h))
    <2>1. /\ DOMAIN placed.h = DOMAIN fields /\ IsFiniteSet(DOMAIN placed.h)
          /\ \A p \in DOMAIN placed.h : placed.h[p] \in Int
          /\ \A p \in DOMAIN fields : fields[p] = placed.h[p] \/ fields[p] = -placed.h[p]
        BY <1>1, <1>5, <1>10
    <2>2. QED BY <2>1, FlippedIs
<1>18. /\ SumOf(Absolute(placed.j)) \in Nat /\ SumOf(byPlace) \in Int
       /\ -SumOf(Absolute(placed.j)) <= SumOf(byPlace) /\ SumOf(byPlace) <= SumOf(Absolute(placed.j))
    <2>1. /\ DOMAIN placed.j = DOMAIN byPlace /\ IsFiniteSet(DOMAIN placed.j)
          /\ \A p \in DOMAIN placed.j : placed.j[p] \in Int
          /\ \A p \in DOMAIN byPlace : byPlace[p] = placed.j[p] \/ byPlace[p] = -placed.j[p]
        BY <1>1, <1>5, <1>12
    <2>2. QED BY <2>1, FlippedIs
<1>19. QED BY <1>7, <1>14, <1>15, <1>16, <1>17, <1>18 DEF call

\* A vector of spins decodes to a sample whose energy is a number.
LEMMA SampleEnergyIs ==
    ASSUME NEW model, IsModel(model), NEW placed, JobOK(placed), NEW v \in Vectors(placed)
    PROVE  SampleEnergy(model, placed, v) \in Int
<1> DEFINE x == DecodeSolution(model, placed, v)
           all == 0..(model.size - 1)
           n == Cardinality(placed.top.nodes)
           at(w) == IndexOf(placed.top, placed.mapping[w])
           fields == [w \in DOMAIN model.lin |-> model.lin[w] * x[w]]
           pairs == [e \in DOMAIN model.quad |-> model.quad[e] * x[e[1]] * x[e[2]]]
<1>1. \A w \in DOMAIN placed.mapping : v[at(w)] \in Int
    <2> TAKE w \in DOMAIN placed.mapping
    <2> DEFINE q == NodesOf(placed)
    <2>1. placed.mapping[w] \in placed.top.nodes /\ ToSet(q) = placed.top.nodes /\ DOMAIN q = 1..n
          /\ \A p \in 1..n : IndexOf(placed.top, q[p]) = p
        BY NodesAre DEF JobOK
    <2> HIDE DEF q
    <2>2. PICK p \in 1..n : q[p] = placed.mapping[w]
        BY <2>1 DEF ToSet
    <2>3. at(w) = p
        BY <2>1, <2>2
    <2>4. v[p] \in {-1, 1}
        BY DEF Vectors
    <2>5. QED BY <2>3, <2>4
<1>2. \A w \in all : x[w] \in Int
    <2> TAKE w \in all
    <2> DEFINE s == v[at(w)]
    <2>1. x[w] = IF w \notin DOMAIN placed.mapping THEN (IF model.domain = "binary" THEN 0 ELSE -1)
                 ELSE IF model.domain = "binary" THEN (s + 1) \div 2 ELSE s
        BY DEF DecodeSolution
    <2> HIDE DEF s, x
    <2>2. w \in DOMAIN placed.mapping => s \in Int
        BY <1>1 DEF s
    <2>3. QED BY <2>1, <2>2
<1>3. IsFiniteSet(DOMAIN model.lin) /\ IsFiniteSet(DOMAIN model.quad)
    <2>1. IsFiniteSet(all)
        <3>1. model.size \in Nat
            BY DEF IsModel
        <3>2. model.size - 1 \in Int
            BY <3>1
        <3>3. QED BY <3>2, FS_Interval
    <2> HIDE DEF all
    <2>2. IsFiniteSet(all \X all)
        BY <2>1, FS_Product
    <2>3. DOMAIN model.lin \subseteq all /\ DOMAIN model.quad \subseteq all \X all
        BY DEF IsModel, all
    <2>4. QED BY <2>1, <2>2, <2>3, FS_Subset
<1> HIDE DEF x
<1>4. DOMAIN fields = DOMAIN model.lin /\ \A w \in DOMAIN fields : fields[w] \in Int
    BY <1>2 DEF IsModel
<1>5. DOMAIN pairs = DOMAIN model.quad /\ \A e \in DOMAIN pairs : pairs[e] \in Int
    <2> SUFFICES ASSUME NEW e \in DOMAIN model.quad PROVE model.quad[e] * x[e[1]] * x[e[2]] \in Int
        OBVIOUS
    <2>1. e[1] \in all /\ e[2] \in all /\ model.quad[e] \in Int
        BY DEF IsModel
    <2>2. x[e[1]] \in Int /\ x[e[2]] \in Int
        BY <1>2, <2>1
    <2>3. QED BY <2>1, <2>2
<1>6. SampleEnergy(model, placed, v) = Total(fields) + Total(pairs)
    BY DEF SampleEnergy, ModelEnergy, x
<1> HIDE DEF fields, pairs
<1>7. SumOf(fields) \in Int /\ SumOf(pairs) \in Int
    BY <1>3, <1>4, <1>5, SumInt
<1>8. \A f : Total(f) = SumOf(f)
    BY DEF Total, SumOf
<1>9. QED BY <1>6, <1>7, <1>8

-----------------------------------------------------------------------------
(* The first of some solutions. *)

\* What a decoded solution is compared by.
Comparable(decoded) == \A d \in decoded : /\ d.energy \in Int /\ d.solver \in Int /\ d.index \in Int
                                          /\ d.leader \in BOOLEAN

\* Any two solutions are compared, so there is a first, and it has the lowest energy.
LEMMA FirstIs ==
    ASSUME NEW decoded, IsFiniteSet(decoded), decoded # {}, Comparable(decoded)
    PROVE  First(decoded) \in decoded /\ \A d \in decoded : First(decoded).energy <= d.energy
<1> DEFINE before == {p \in decoded \X decoded : Before(p[1], p[2])}
<1>1. \A a, b \in decoded : <<a, b>> \in before <=> Before(a, b)
    OBVIOUS
<1>2. \A a, b \in decoded : Before(a, b) \/ Before(b, a)
    <2> SUFFICES ASSUME NEW a \in decoded, NEW b \in decoded PROVE Before(a, b) \/ Before(b, a)
        OBVIOUS
    <2>1. /\ a.energy \in Int /\ b.energy \in Int /\ a.solver \in Int /\ b.solver \in Int
          /\ a.index \in Int /\ b.index \in Int /\ a.leader \in BOOLEAN /\ b.leader \in BOOLEAN
        BY DEF Comparable
    <2>2. QED BY <2>1 DEF Before
<1>3. \A a, b, c \in decoded : Before(a, b) /\ Before(b, c) => Before(a, c)
    <2> SUFFICES ASSUME NEW a \in decoded, NEW b \in decoded, NEW c \in decoded, Before(a, b), Before(b, c)
                 PROVE  Before(a, c)
        OBVIOUS
    <2>1. /\ a.energy \in Int /\ b.energy \in Int /\ c.energy \in Int
          /\ a.solver \in Int /\ b.solver \in Int /\ c.solver \in Int
          /\ a.index \in Int /\ b.index \in Int /\ c.index \in Int
          /\ a.leader \in BOOLEAN /\ b.leader \in BOOLEAN /\ c.leader \in BOOLEAN
        BY DEF Comparable
    <2>2. QED BY <2>1 DEF Before
<1> HIDE DEF before
<1>4. PICK a \in decoded : \A b \in decoded : <<a, b>> \in before
    <2>1. \A x, y \in decoded : <<x, y>> \in before \/ <<y, x>> \in before
        BY <1>1, <1>2
    <2>2. \A x, y, z \in decoded : <<x, y>> \in before /\ <<y, z>> \in before => <<x, z>> \in before
        BY <1>1, <1>3
    <2>3. QED BY <2>1, <2>2, FirstElement
<1>5. \A b \in decoded : Before(a, b)
    BY <1>1, <1>4
<1>6. First(decoded) \in decoded /\ \A b \in decoded : Before(First(decoded), b)
    <2>1. \E x \in decoded : \A b \in decoded : Before(x, b)
        BY <1>5
    <2>2. QED BY <2>1, Zenon DEF First
<1>7. \A d \in decoded : First(decoded).energy \in Int /\ d.energy \in Int
    BY <1>6 DEF Comparable
<1>8. QED BY <1>6, <1>7 DEF Before

-----------------------------------------------------------------------------
(* The pick. *)

\* A solver stored one vector or more, each with a spin for every node.
Batch(placed, vectors) == \E k \in Nat \ {0} : vectors \in [1..k -> Vectors(placed)]
GoodAnswers(placed, stored) ==
    /\ IsFiniteSet(DOMAIN stored) /\ DOMAIN stored \subseteq Int
    /\ \A s \in DOMAIN stored : Batch(placed, stored[s].vectors)

\* The i-th vector of a solver, decoded.
Solution(model, placed, stored, leader, s, i) ==
    [solver |-> s, index |-> i, leader |-> s = leader,
     energy |-> SampleEnergy(model, placed, stored[s].vectors[i]),
     milli |-> IsingEnergyMilli(placed, stored[s].vectors[i])]
Slots(stored) == UNION {{<<s, i>> : i \in DOMAIN stored[s].vectors} : s \in DOMAIN stored}

\* The places of the stored vectors are finitely many, and each solver has one.
LEMMA SlotsAre ==
    ASSUME NEW placed, NEW stored, GoodAnswers(placed, stored)
    PROVE  /\ IsFiniteSet(Slots(stored))
           /\ \A s \in DOMAIN stored : /\ IsFiniteSet(DOMAIN stored[s].vectors) /\ 1 \in DOMAIN stored[s].vectors
                                       /\ DOMAIN stored[s].vectors \subseteq Int
                                       /\ \A i \in DOMAIN stored[s].vectors : stored[s].vectors[i] \in Vectors(placed)
<1> DEFINE ofSolver(s) == {<<s, i>> : i \in DOMAIN stored[s].vectors}
           family == [s \in DOMAIN stored |-> ofSolver(s)]
<1>1. ASSUME NEW s \in DOMAIN stored
      PROVE  /\ IsFiniteSet(DOMAIN stored[s].vectors) /\ 1 \in DOMAIN stored[s].vectors
             /\ DOMAIN stored[s].vectors \subseteq Int
             /\ \A i \in DOMAIN stored[s].vectors : stored[s].vectors[i] \in Vectors(placed)
    <2>1. PICK k \in Nat \ {0} : stored[s].vectors \in [1..k -> Vectors(placed)]
        BY <1>1 DEF GoodAnswers, Batch
    <2>2. IsFiniteSet(1..k)
        BY FirstNumbers
    <2>3. QED BY <2>1, <2>2
<1>2. ASSUME NEW s \in DOMAIN stored PROVE IsFiniteSet(ofSolver(s))
    <2> DEFINE f == [i \in DOMAIN stored[s].vectors |-> <<s, i>>]
    <2>1. IsFiniteSet({f[i] : i \in DOMAIN f})
        <3>1. IsFiniteSet(DOMAIN f)
            BY <1>1
        <3> HIDE DEF f
        <3>2. QED BY <3>1, ValuesFinite
    <2>2. ofSolver(s) = {f[i] : i \in DOMAIN f}
        OBVIOUS
    <2>3. QED BY <2>1, <2>2
<1>3. IsFiniteSet({family[s] : s \in DOMAIN family}) /\ \A T \in {family[s] : s \in DOMAIN family} : IsFiniteSet(T)
    <2>1. DOMAIN family = DOMAIN stored /\ \A s \in DOMAIN stored : family[s] = ofSolver(s)
        OBVIOUS
    <2> HIDE DEF family, ofSolver
    <2>2. IsFiniteSet(DOMAIN family)
        BY <2>1 DEF GoodAnswers
    <2>3. QED BY <1>2, <2>1, <2>2, ValuesFinite
<1>4. Slots(stored) = UNION {family[s] : s \in DOMAIN family}
    BY DEF Slots
<1> HIDE DEF family, ofSolver
<1>5. IsFiniteSet(UNION {family[s] : s \in DOMAIN family})
    BY <1>3, FS_UNION
<1>6. QED BY <1>1, <1>4, <1>5

\* What is decoded is every stored vector, and can be compared.
LEMMA DecodedIs ==
    ASSUME NEW model, IsModel(model), NEW placed, JobOK(placed), NEW stored, GoodAnswers(placed, stored), NEW leader,
           NEW decoded, decoded = Decoded(model, placed, stored, leader)
    PROVE  /\ IsFiniteSet(decoded) /\ Comparable(decoded)
           /\ \A d \in decoded : /\ d.milli \in Int
                                 /\ \E s \in DOMAIN stored : \E i \in DOMAIN stored[s].vectors :
                                      d = Solution(model, placed, stored, leader, s, i)
           /\ \A s \in DOMAIN stored : \A i \in DOMAIN stored[s].vectors :
                Solution(model, placed, stored, leader, s, i) \in decoded
<1> DEFINE sol(s, i) == Solution(model, placed, stored, leader, s, i)
           f == [p \in Slots(stored) |-> sol(p[1], p[2])]
<1>1. decoded = UNION {{sol(s, i) : i \in DOMAIN stored[s].vectors} : s \in DOMAIN stored}
    BY DEF Decoded, Solution
<1>2. \A s \in DOMAIN stored : \A i \in DOMAIN stored[s].vectors :
         /\ i \in Int /\ s \in Int /\ stored[s].vectors[i] \in Vectors(placed) /\ <<s, i>> \in Slots(stored)
    <2>1. \A s \in DOMAIN stored : \A i \in DOMAIN stored[s].vectors : <<s, i>> \in Slots(stored)
        BY DEF Slots
    <2>2. QED BY <2>1, SlotsAre DEF GoodAnswers
<1> HIDE DEF sol
<1>3. \A s \in DOMAIN stored : \A i \in DOMAIN stored[s].vectors : sol(s, i) \in decoded
    BY <1>1
<1>4. \A d \in decoded : \E s \in DOMAIN stored : \E i \in DOMAIN stored[s].vectors : d = sol(s, i)
    BY <1>1
<1>5. IsFiniteSet(decoded)
    <2>1. decoded = {f[p] : p \in DOMAIN f}
        <3>1. \A p \in Slots(stored) : \E s \in DOMAIN stored : \E i \in DOMAIN stored[s].vectors : p = <<s, i>>
            BY DEF Slots
        <3>2. \A p \in DOMAIN f : f[p] \in decoded
            BY <1>3, <3>1
        <3>3. \A d \in decoded : \E p \in DOMAIN f : d = f[p]
            <4> SUFFICES ASSUME NEW d \in decoded PROVE \E p \in DOMAIN f : d = f[p]
                OBVIOUS
            <4>1. PICK s \in DOMAIN stored : \E i \in DOMAIN stored[s].vectors : d = sol(s, i)
                BY <1>4
            <4>2. PICK i \in DOMAIN stored[s].vectors : d = sol(s, i)
                BY <4>1
            <4>3. <<s, i>> \in DOMAIN f /\ f[<<s, i>>] = sol(s, i)
                BY <1>2
            <4>4. QED BY <4>2, <4>3
        <3> HIDE DEF f
        <3>4. QED BY <3>2, <3>3
    <2>2. IsFiniteSet(DOMAIN f)
        BY SlotsAre
    <2> HIDE DEF f
    <2>3. QED BY <2>1, <2>2, ValuesFinite
<1>6. ASSUME NEW d \in decoded
      PROVE  d.milli \in Int /\ d.energy \in Int /\ d.solver \in Int /\ d.index \in Int /\ d.leader \in BOOLEAN
    <2>1. PICK s \in DOMAIN stored : \E i \in DOMAIN stored[s].vectors : d = sol(s, i)
        BY <1>4, <1>6
    <2>2. PICK i \in DOMAIN stored[s].vectors : d = sol(s, i)
        BY <2>1
    <2> DEFINE v == stored[s].vectors[i]
    <2>3. v \in Vectors(placed) /\ s \in Int /\ i \in Int
        BY <1>2, <2>2
    <2>4. d.milli = IsingEnergyMilli(placed, v) /\ d.energy = SampleEnergy(model, placed, v)
          /\ d.solver = s /\ d.index = i /\ d.leader = (s = leader)
        BY <2>2 DEF sol, Solution
    <2> HIDE DEF v
    <2>5. IsingEnergyMilli(placed, v) \in Int /\ SampleEnergy(model, placed, v) \in Int
        BY <2>3, ChainEnergyIs, SampleEnergyIs
    <2>6. QED BY <2>3, <2>4, <2>5
<1>7. QED BY <1>3, <1>4, <1>5, <1>6 DEF sol, Comparable

\* The energies of a solver's stored vectors, as samples of the model.
Energies(model, placed, stored, s) ==
    {SampleEnergy(model, placed, stored[s].vectors[i]) : i \in DOMAIN stored[s].vectors}
AllEnergies(model, placed, stored) == UNION {Energies(model, placed, stored, s) : s \in DOMAIN stored}

\* One of a solver's stored vectors has this energy on the chain; and none has less.
Attains(placed, stored, s, milli) ==
    \E i \in DOMAIN stored[s].vectors : IsingEnergyMilli(placed, stored[s].vectors[i]) = milli
NoneBelow(placed, stored, s, milli) ==
    \A i \in DOMAIN stored[s].vectors : milli <= IsingEnergyMilli(placed, stored[s].vectors[i])

\* The first of all solutions has the lowest energy of all.
LEMMA FirstOfAll ==
    ASSUME NEW model, IsModel(model), NEW placed, JobOK(placed), NEW stored, GoodAnswers(placed, stored),
           DOMAIN stored # {}, NEW leader, NEW decoded, decoded = Decoded(model, placed, stored, leader)
    PROVE  First(decoded).energy = Min(AllEnergies(model, placed, stored))
<1> DEFINE sol(s, i) == Solution(model, placed, stored, leader, s, i)
           all == AllEnergies(model, placed, stored)
<1>1. /\ IsFiniteSet(decoded) /\ Comparable(decoded)
      /\ \A d \in decoded : \E s \in DOMAIN stored : \E i \in DOMAIN stored[s].vectors : d = sol(s, i)
      /\ \A s \in DOMAIN stored : \A i \in DOMAIN stored[s].vectors : sol(s, i) \in decoded
    BY DecodedIs
<1>2. \A s, i : sol(s, i).energy = SampleEnergy(model, placed, stored[s].vectors[i])
    BY DEF Solution
<1> HIDE DEF sol
<1>3. all = {d.energy : d \in decoded}
    <2>1. \A d \in decoded : d.energy \in all
        BY <1>1, <1>2 DEF AllEnergies, Energies
    <2>2. ASSUME NEW e \in all PROVE \E d \in decoded : e = d.energy
        <3>1. PICK s \in DOMAIN stored : e \in Energies(model, placed, stored, s)
            BY <2>2 DEF AllEnergies
        <3>2. PICK i \in DOMAIN stored[s].vectors : e = SampleEnergy(model, placed, stored[s].vectors[i])
            BY <3>1 DEF Energies
        <3>3. QED BY <1>1, <1>2, <3>2
    <2> HIDE DEF all
    <2>3. QED BY <2>1, <2>2
<1> HIDE DEF all
<1>4. decoded # {}
    <2>1. PICK s \in DOMAIN stored : TRUE
        OBVIOUS
    <2>2. 1 \in DOMAIN stored[s].vectors
        BY SlotsAre
    <2>3. QED BY <1>1, <2>2
<1>5. First(decoded) \in decoded /\ \A d \in decoded : First(decoded).energy <= d.energy
    BY <1>1, <1>4, FirstIs
<1>6. IsFiniteSet(all) /\ all \subseteq Int
    <2> DEFINE f == [d \in decoded |-> d.energy]
    <2>1. all = {f[d] : d \in DOMAIN f} /\ DOMAIN f = decoded
        BY <1>3
    <2> HIDE DEF f
    <2>2. IsFiniteSet(all)
        BY <1>1, <2>1, ValuesFinite
    <2>3. QED BY <1>1, <1>3, <2>2 DEF Comparable
<1>7. First(decoded).energy \in all /\ \A e \in all : First(decoded).energy <= e
    BY <1>3, <1>5
<1>8. Min(all) = First(decoded).energy
    BY <1>6, <1>7, LowestIs
<1>9. QED BY <1>8 DEF all

\* PickBest, once the leader is known.
BestWith(model, placed, stored, ranked, leader) ==
    LET decoded == Decoded(model, placed, stored, leader)
        own == {d \in decoded : d.leader}
        choice == First(IF own # {} THEN own ELSE decoded)
        held == IF leader = None THEN stored[choice.solver].energy ELSE ranked[1].energy
        reached == Min({d.milli : d \in {c \in decoded : c.solver = choice.solver}})
    IN [solution |-> IF reached = held THEN choice ELSE First(decoded),
        held |-> held, matches |-> reached = held, leader_read |-> leader # None]

\* The leader of a ranking, and what is true of it.
Leads(placed, stored, ranked, lacking, leader) ==
    /\ leader = IF ranked = <<>> THEN None ELSE ranked[1].solver
    /\ ranked # <<>> => /\ leader \in DOMAIN stored /\ ranked[1].energy \in Int
                        /\ NoneBelow(placed, stored, leader, ranked[1].energy)
                        /\ leader \notin lacking <=> Attains(placed, stored, leader, ranked[1].energy)

\* A pick is the leader's best vector if the leader has the one that ranks it,
\* and else the best of all.
BestOf(best, model, placed, stored, lacking, leader) ==
    IF leader # None /\ leader \notin lacking
    THEN best.matches /\ best.solution.solver = leader
         /\ best.solution.energy = Min(Energies(model, placed, stored, leader))
    ELSE best.solution.energy = Min(AllEnergies(model, placed, stored))

\* best() on what is stored and ranked returns such a pick.
LEMMA BestIs ==
    ASSUME NEW model, IsModel(model), NEW placed, JobOK(placed), NEW stored, GoodAnswers(placed, stored),
           DOMAIN stored # {}, None \notin DOMAIN stored, NEW ranked, NEW lacking, NEW leader,
           Leads(placed, stored, ranked, lacking, leader),
           NEW best, best = PickBest(model, placed, stored, ranked)
    PROVE  BestOf(best, model, placed, stored, lacking, leader)
<1> DEFINE decoded == Decoded(model, placed, stored, leader)
           sol(s, i) == Solution(model, placed, stored, leader, s, i)
           own == {d \in decoded : d.leader}
           choice == First(IF own # {} THEN own ELSE decoded)
           held == IF leader = None THEN stored[choice.solver].energy ELSE ranked[1].energy
           millis == {d.milli : d \in {c \in decoded : c.solver = choice.solver}}
           reached == Min(millis)
<1>1. /\ leader = IF ranked = <<>> THEN None ELSE ranked[1].solver
      /\ ranked # <<>> => /\ leader \in DOMAIN stored /\ ranked[1].energy \in Int
                          /\ NoneBelow(placed, stored, leader, ranked[1].energy)
                          /\ leader \notin lacking <=> Attains(placed, stored, leader, ranked[1].energy)
    BY DEF Leads
<1>2. /\ IsFiniteSet(decoded) /\ Comparable(decoded)
      /\ \A d \in decoded : /\ d.milli \in Int
                            /\ \E s \in DOMAIN stored : \E i \in DOMAIN stored[s].vectors : d = sol(s, i)
      /\ \A s \in DOMAIN stored : \A i \in DOMAIN stored[s].vectors : sol(s, i) \in decoded
    BY DecodedIs
<1>3. First(decoded).energy = Min(AllEnergies(model, placed, stored))
    BY FirstOfAll
<1>4. /\ leader = IF ranked # <<>> /\ ranked[1].solver \in DOMAIN stored THEN ranked[1].solver ELSE None
      /\ leader # None => ranked # <<>> /\ leader \in DOMAIN stored
    BY <1>1
<1>5. best.solution = (IF reached = held THEN choice ELSE First(decoded)) /\ best.matches = (reached = held)
    <2> DEFINE l == IF ranked # <<>> /\ ranked[1].solver \in DOMAIN stored THEN ranked[1].solver ELSE None
    <2>1. PickBest(model, placed, stored, ranked) = BestWith(model, placed, stored, ranked, l)
        BY Zenon DEF PickBest, BestWith
    <2>2. l = leader
        BY <1>4
    <2> HIDE DEF l
    <2>3. best = BestWith(model, placed, stored, ranked, leader)
        BY <2>1, <2>2
    <2>4. best = [solution |-> IF reached = held THEN choice ELSE First(decoded),
                  held |-> held, matches |-> reached = held, leader_read |-> leader # None]
        BY <2>3, Zenon DEF BestWith
    <2> HIDE DEF reached, held, choice, decoded
    <2>5. QED BY <2>4
<1>6. \A s, i : /\ sol(s, i).energy = SampleEnergy(model, placed, stored[s].vectors[i]) /\ sol(s, i).solver = s
                /\ sol(s, i).milli = IsingEnergyMilli(placed, stored[s].vectors[i])
                /\ sol(s, i).leader = (s = leader)
    BY DEF Solution
<1> HIDE DEF sol, decoded, reached, held
<1>7. ASSUME NEW d \in decoded PROVE d.leader = (d.solver = leader) /\ d.solver \in DOMAIN stored
    <2>1. PICK s \in DOMAIN stored : \E i \in DOMAIN stored[s].vectors : d = sol(s, i)
        BY <1>2, <1>7
    <2>2. PICK i \in DOMAIN stored[s].vectors : d = sol(s, i)
        BY <2>1
    <2>3. QED BY <1>6, <2>2
<1>8. CASE leader = None
    <2>1. own = {}
        BY <1>8, <1>7
    <2>2. choice = First(decoded)
        BY <2>1
    <2>3. QED BY <1>3, <1>5, <1>8, <2>2 DEF BestOf
<1>9. CASE leader # None
    <2> DEFINE e == ranked[1].energy
               mine == Energies(model, placed, stored, leader)
    <2>1. /\ leader \in DOMAIN stored /\ e \in Int /\ NoneBelow(placed, stored, leader, e) /\ held = e
          /\ leader \notin lacking <=> Attains(placed, stored, leader, e)
        BY <1>1, <1>4, <1>9 DEF held
    <2> HIDE DEF e
    <2>2. own # {} /\ IsFiniteSet(own) /\ own \subseteq decoded
        <3>1. 1 \in DOMAIN stored[leader].vectors
            BY <2>1, SlotsAre
        <3>2. sol(leader, 1) \in own
            BY <1>2, <1>6, <2>1, <3>1
        <3>3. QED BY <1>2, <3>2, FS_Subset
    <2>3. \A d \in decoded : d.leader <=> d.solver = leader
        BY <1>7
    <2>4. choice \in own /\ \A d \in own : choice.energy <= d.energy
        <3>1. choice = First(own) /\ Comparable(own)
            BY <1>2, <2>2 DEF Comparable
        <3> HIDE DEF own, choice
        <3>2. QED BY <2>2, <3>1, FirstIs
    <2>5. choice.solver = leader /\ choice \in decoded
        BY <2>3, <2>4
    <2> HIDE DEF choice
    <2>6. millis = {d.milli : d \in own}
        BY <2>3, <2>5
    <2>7. \A d \in own : \E i \in DOMAIN stored[leader].vectors : d = sol(leader, i)
        <3> SUFFICES ASSUME NEW d \in own PROVE \E i \in DOMAIN stored[leader].vectors : d = sol(leader, i)
            OBVIOUS
        <3>1. PICK s \in DOMAIN stored : \E i \in DOMAIN stored[s].vectors : d = sol(s, i)
            BY <1>2
        <3>2. s = leader
            BY <1>6, <2>3, <3>1
        <3>3. QED BY <3>1, <3>2
    <2>8. \A i \in DOMAIN stored[leader].vectors : sol(leader, i) \in own
        BY <1>2, <1>6, <2>1
    <2>9. IsFiniteSet(millis) /\ millis \subseteq Int /\ millis # {}
        <3> DEFINE f == [d \in own |-> d.milli]
        <3>1. millis = {f[d] : d \in DOMAIN f} /\ IsFiniteSet(DOMAIN f)
            BY <2>2, <2>6
        <3> HIDE DEF f
        <3>2. IsFiniteSet(millis)
            BY <3>1, ValuesFinite
        <3>3. \A d \in own : d.milli \in Int
            BY <1>2, <2>2
        <3> HIDE DEF own, millis
        <3>4. QED BY <2>2, <2>6, <3>2, <3>3
    <2> DEFINE milli(i) == IsingEnergyMilli(placed, stored[leader].vectors[i])
    <2>10. /\ \A m \in millis : \E i \in DOMAIN stored[leader].vectors : m = milli(i)
           /\ \A i \in DOMAIN stored[leader].vectors : milli(i) \in millis
        <3>1. \A d \in own : \E i \in DOMAIN stored[leader].vectors : d.milli = milli(i)
            BY <1>6, <2>7
        <3>2. \A i \in DOMAIN stored[leader].vectors : \E d \in own : d.milli = milli(i)
            BY <1>6, <2>8
        <3> HIDE DEF millis, own, milli
        <3>3. QED BY <2>6, <3>1, <3>2
    <2>11. \A m \in millis : e <= m
        <3>1. \A i \in DOMAIN stored[leader].vectors : e <= milli(i)
            BY <2>1 DEF NoneBelow
        <3> HIDE DEF millis, milli
        <3>2. QED BY <2>10, <3>1
    <2>12. e \in millis <=> Attains(placed, stored, leader, e)
        <3>1. Attains(placed, stored, leader, e) <=> \E i \in DOMAIN stored[leader].vectors : milli(i) = e
            BY DEF Attains
        <3> HIDE DEF millis, milli
        <3>2. QED BY <2>10, <3>1, Zenon
    <2> HIDE DEF millis
    <2>13. reached \in millis
        BY <2>9, MinIs DEF reached
    <2>14. CASE leader \in lacking
        <3>1. reached # held
            BY <2>1, <2>12, <2>13, <2>14
        <3>2. best.solution = First(decoded)
            BY <1>5, <3>1
        <3>3. QED BY <1>3, <2>14, <3>2 DEF BestOf
    <2>15. CASE leader \notin lacking
        <3>1. reached = e
            BY <2>1, <2>9, <2>11, <2>12, <2>15, LowestIs DEF reached
        <3>2. best.solution = choice /\ best.matches
            BY <1>5, <2>1, <3>1
        <3>3. mine = {d.energy : d \in own}
            <4>1. \A d \in own : d.energy \in mine
                BY <1>6, <2>7 DEF Energies
            <4>2. \A x \in mine : \E d \in own : x = d.energy
                BY <1>6, <2>8 DEF Energies
            <4> HIDE DEF mine, own
            <4>3. QED BY <4>1, <4>2
        <3>4. IsFiniteSet(mine) /\ mine \subseteq Int
            <4> DEFINE f == [d \in own |-> d.energy]
            <4>1. mine = {f[d] : d \in DOMAIN f} /\ IsFiniteSet(DOMAIN f)
                BY <2>2, <3>3
            <4> HIDE DEF f
            <4>2. IsFiniteSet(mine)
                BY <4>1, ValuesFinite
            <4>3. QED BY <1>2, <2>2, <3>3, <4>2 DEF Comparable
        <3> HIDE DEF mine, own
        <3>5. choice.energy \in mine /\ \A x \in mine : choice.energy <= x
            BY <2>4, <3>3
        <3>6. Min(mine) = choice.energy
            BY <3>4, <3>5, LowestIs
        <3>7. QED BY <1>9, <2>5, <2>15, <3>2, <3>6 DEF mine, BestOf
    <2>16. QED BY <2>14, <2>15
<1>10. QED BY <1>8, <1>9

-----------------------------------------------------------------------------
(* What is stored and ranked. *)

\* n vectors, each one of the k vectors of a batch.
Drawn(part, n, vectors, k, V) ==
    /\ n \in Nat /\ part \in [1..n -> V]
    /\ \A i \in 1..n : \E m \in 1..k : part[i] = vectors[m]

\* The vectors that are chosen are vectors of the batch.
LEMMA ChosenIs ==
    ASSUME NEW V, NEW k \in Nat, NEW vectors \in [1..k -> V], NEW S, S \subseteq 1..k
    PROVE  Drawn(Chosen(vectors, S), Cardinality(S), vectors, k, V)
<1> DEFINE n == Cardinality(S)
           before == {p \in Int \X Int : p[1] < p[2]}
           at == CHOOSE q \in [1..n -> S] : \A i, l \in DOMAIN q : i < l => q[i] < q[l]
<1>1. S \subseteq Int /\ IsFiniteSet(S)
    <2>1. IsFiniteSet(1..k) /\ 1..k \subseteq Int
        BY FirstNumbers
    <2>2. QED BY <2>1, FS_Subset
<1>2. n \in Nat
    BY <1>1, FS_CardinalityType
<1>3. Orders(before, S)
    <2>1. \A x, y \in S : x \in Int /\ y \in Int /\ (<<x, y>> \in before <=> x < y)
        BY <1>1
    <2> HIDE DEF before
    <2>2. QED BY <2>1 DEF Orders
<1>4. \E q \in [1..n -> S] : \A i, l \in DOMAIN q : i < l => q[i] < q[l]
    <2>1. PICK q \in [1..n -> S] : InOrder(q, before)
        <3> HIDE DEF before
        <3>1. QED BY <1>1, <1>3, SortedExists
    <2>2. \A i, l \in DOMAIN q : i < l => q[i] < q[l]
        BY <2>1 DEF InOrder
    <2>3. QED BY <2>2
<1>5. at \in [1..n -> S]
    BY <1>4
<1>6. Chosen(vectors, S) = [i \in 1..n |-> vectors[at[i]]]
    BY DEF Chosen, Sorted
<1> HIDE DEF at, n
<1>7. \A i \in 1..n : at[i] \in 1..k
    BY <1>5
<1>8. QED BY <1>2, <1>6, <1>7 DEF n, Drawn

\* What an answer does: one solver's vectors, all of the job, replace those that
\* it stored, none of them below the energy that it enters the ranking with.
Answered(solver, kept, energy) ==
    /\ solver \in C.solvers /\ Batch(job, kept) /\ energy \in Int
    /\ \A i \in DOMAIN kept : energy <= IsingEnergyMilli(job, kept[i])
    /\ answers' = [s \in DOMAIN answers \cup {solver} |->
                     IF s = solver THEN [energy |-> energy, vectors |-> kept, at |-> submissions] ELSE answers[s]]
    /\ ranking' = RankIn(posted, [solver |-> solver, energy |-> energy])
    /\ changed' = IF \A r \in ToSet(ranking') :
                       r.solver = solver => \E i \in DOMAIN kept : IsingEnergyMilli(job, kept[i]) = r.energy
                  THEN changed \ {solver} ELSE changed \cup {solver}

\* The vectors of an answer that are left, and kept, are vectors of the job.
LEMMA KeptIs ==
    ASSUME NEW call, NEW o, NEW placed, JobOK(placed), call = CallParams(o, placed),
           o.min_solutions = None \/ (o.min_solutions \in Int /\ o.min_solutions >= 1),
           NEW vectors, vectors \in Seq(ToSet(vectors)), \A i \in DOMAIN vectors : vectors[i] \in Vectors(placed),
           NEW left, left = Under(call, vectors), left # <<>>,
           NEW kept \in Kept(left, call.floors.solutions)
    PROVE  /\ Batch(placed, left) /\ Batch(placed, kept)
           /\ \A i \in DOMAIN kept : \E m \in DOMAIN left : kept[i] = left[m]
<1> DEFINE V == Vectors(placed)
           n == Len(vectors)
           S == {i \in DOMAIN vectors :
                   call.floors.ceiling = None \/ ChainEnergy(call, vectors[i]) <= call.floors.ceiling}
           count == call.floors.solutions
<1>1. n \in Nat /\ vectors \in [1..n -> V] /\ S \subseteq 1..n
    <2>1. n \in Nat /\ DOMAIN vectors = 1..n /\ vectors = [i \in 1..n |-> vectors[i]]
        OBVIOUS
    <2>2. \A i \in 1..n : vectors[i] \in V
        BY <2>1
    <2> HIDE DEF n, V
    <2>3. vectors \in [1..n -> V]
        BY <2>1, <2>2
    <2>4. QED BY <2>1, <2>3
<1>2. left = Chosen(vectors, S)
    BY Zenon DEF Under
<1> HIDE DEF n, S, V
<1> DEFINE k == Cardinality(S)
<1>3. k \in Nat /\ left \in [1..k -> V]
    <2>1. Drawn(left, k, vectors, n, V)
        BY <1>1, <1>2, ChosenIs
    <2>2. QED BY <2>1 DEF Drawn
<1> HIDE DEF k
<1>4. k # 0
    <2> SUFFICES ASSUME k = 0 PROVE FALSE
        OBVIOUS
    <2>1. left \in [1..0 -> V]
        BY <1>3
    <2>2. left = <<>>
        BY <2>1
    <2>3. QED BY <2>2
<1>5. Batch(placed, left)
    BY <1>3, <1>4 DEF Batch, V
<1>6. count = o.min_solutions
    BY DEF CallParams, ChainFloors
<1> HIDE DEF count
<1>7. CASE count = None
    <2>1. kept = left
        BY <1>7 DEF Kept, count
    <2>2. QED BY <1>5, <2>1
<1>8. CASE count # None
    <2>1. PICK T \in SUBSET DOMAIN left : Cardinality(T) = count /\ kept = Chosen(left, T)
        <3> DEFINE family == {T \in SUBSET DOMAIN left : Cardinality(T) = count}
                   some == {Chosen(left, T) : T \in family}
        <3>1. Kept(left, count) = {part \in some : \A other \in some : Spread(part) >= Spread(other)}
            BY <1>8, Zenon DEF Kept
        <3>2. kept \in Kept(left, count)
            BY DEF count
        <3> HIDE DEF some, count
        <3>3. kept \in some
            BY <3>1, <3>2
        <3>4. QED BY <3>3 DEF some
    <2>2. T \subseteq 1..k
        BY <1>3
    <2>3. /\ Cardinality(T) \in Nat /\ kept \in [1..Cardinality(T) -> V]
          /\ \A i \in 1..Cardinality(T) : \E m \in 1..k : kept[i] = left[m]
        <3>1. Drawn(kept, Cardinality(T), left, k, V)
            BY <1>3, <2>1, <2>2, ChosenIs
        <3>2. QED BY <3>1 DEF Drawn
    <2>4. Cardinality(T) \in Nat \ {0}
        BY <1>6, <1>8, <2>1, <2>3
    <2> HIDE DEF V
    <2>5. Batch(placed, kept)
        BY <2>3, <2>4 DEF Batch, V
    <2>6. QED BY <1>3, <1>5, <2>3, <2>5
<1>9. QED BY <1>7, <1>8

\* An answer that is taken is such an answer, on an order that was sent as the
\* draft says.
LEMMA SolveIs ==
    ASSUME Solve, case \in DOMAIN Cases, OptionsOK(options), JobOK(job), posted = CallParams(options, job)
    PROVE  \E solver, kept, energy : Answered(solver, kept, energy)
<1>1. PICK solver \in C.solvers, vectors \in C.batches :
         (\A i \in DOMAIN vectors : vectors[i] \in Vectors(job)) /\ Answer(solver, vectors)
    BY DEF Solve
<1> DEFINE left == Under(posted, vectors)
           energies == {ChainEnergy(posted, left[i]) : i \in DOMAIN left}
           energy == Min(energies)
           ranked == RankIn(posted, [solver |-> solver, energy |-> energy])
           rank == {r.energy : r \in {q \in ToSet(ranked) : q.solver = solver}}
<1>2. PICK kept \in Kept(left, posted.floors.solutions) :
         /\ left # <<>>
         /\ answers' = [s \in DOMAIN answers \cup {solver} |->
              IF s = solver THEN [energy |-> energy, vectors |-> kept, at |-> submissions] ELSE answers[s]]
         /\ ranking' = ranked
         /\ changed' = IF rank \subseteq {ChainEnergy(posted, kept[i]) : i \in DOMAIN kept}
                       THEN changed \ {solver} ELSE changed \cup {solver}
    BY <1>1, Zenon DEF Answer
<1>3. vectors \in Seq(ToSet(vectors))
    BY PlacedOrderAssumption DEF IsCase, C
<1>4. options.min_solutions = None \/ (options.min_solutions \in Int /\ options.min_solutions >= 1)
    BY DEF OptionsOK, OptionsTyped, WithinLimits, MinSolutionsOk
<1>5. Batch(job, left) /\ Batch(job, kept) /\ \A i \in DOMAIN kept : \E m \in DOMAIN left : kept[i] = left[m]
    <2> HIDE DEF left
    <2>1. left = Under(posted, vectors)
        BY DEF left
    <2>2. QED BY <1>1, <1>2, <1>3, <1>4, <2>1, KeptIs
<1> HIDE DEF left
<1>6. /\ \A i \in DOMAIN left : left[i] \in Vectors(job)
      /\ IsFiniteSet(DOMAIN left) /\ DOMAIN left # {}
      /\ \A i \in DOMAIN kept : kept[i] \in Vectors(job)
    <2>1. PICK k \in Nat \ {0} : left \in [1..k -> Vectors(job)]
        BY <1>5 DEF Batch
    <2>2. PICK n \in Nat \ {0} : kept \in [1..n -> Vectors(job)]
        BY <1>5 DEF Batch
    <2>3. IsFiniteSet(1..k) /\ 1 \in 1..k
        BY FirstNumbers
    <2>4. QED BY <2>1, <2>2, <2>3
<1>7. \A v \in Vectors(job) : ChainEnergy(posted, v) = IsingEnergyMilli(job, v) /\ IsingEnergyMilli(job, v) \in Int
    BY ChainEnergyIs
<1>8. energy \in Int /\ \A i \in DOMAIN left : energy <= ChainEnergy(posted, left[i])
    <2> DEFINE f == [i \in DOMAIN left |-> ChainEnergy(posted, left[i])]
    <2>1. energies = {f[i] : i \in DOMAIN f} /\ IsFiniteSet(DOMAIN f)
        BY <1>6
    <2> HIDE DEF f
    <2>2. IsFiniteSet(energies)
        BY <2>1, ValuesFinite
    <2>3. energies \subseteq Int /\ energies # {} /\ \A i \in DOMAIN left : ChainEnergy(posted, left[i]) \in energies
        BY <1>6, <1>7
    <2> HIDE DEF energies
    <2>4. energy \in energies /\ \A e \in energies : energy <= e
        BY <2>2, <2>3, MinIs
    <2>5. QED BY <2>3, <2>4
<1> HIDE DEF energies, energy, ranked
<1>9. \A i \in DOMAIN kept : energy <= IsingEnergyMilli(job, kept[i])
    <2> SUFFICES ASSUME NEW i \in DOMAIN kept PROVE energy <= IsingEnergyMilli(job, kept[i])
        OBVIOUS
    <2>1. PICK m \in DOMAIN left : kept[i] = left[m]
        BY <1>5
    <2>2. energy <= ChainEnergy(posted, left[m]) /\ left[m] \in Vectors(job)
        BY <1>6, <1>8
    <2>3. QED BY <1>7, <2>1, <2>2
<1>10. rank \subseteq {ChainEnergy(posted, kept[i]) : i \in DOMAIN kept} <=>
         \A r \in ToSet(ranking') : r.solver = solver => \E i \in DOMAIN kept : IsingEnergyMilli(job, kept[i]) = r.energy
    <2> DEFINE stored == {ChainEnergy(posted, kept[i]) : i \in DOMAIN kept}
               has(e) == \E i \in DOMAIN kept : IsingEnergyMilli(job, kept[i]) = e
    <2>1. \A e : e \in stored <=> has(e)
        <3>1. \A i \in DOMAIN kept : ChainEnergy(posted, kept[i]) = IsingEnergyMilli(job, kept[i])
            BY <1>6, <1>7
        <3>2. QED BY <3>1
    <2>2. rank \subseteq stored <=> \A r \in ToSet(ranked) : r.solver = solver => r.energy \in stored
        <3> HIDE DEF stored
        <3>1. QED OBVIOUS
    <2> HIDE DEF stored, has, rank
    <2>3. rank \subseteq stored <=> \A r \in ToSet(ranking') : r.solver = solver => has(r.energy)
        BY <1>2, <2>1, <2>2
    <2>4. QED BY <2>3 DEF stored, has
<1> HIDE DEF rank
<1>11. Answered(solver, kept, energy)
    BY <1>2, <1>5, <1>8, <1>9, <1>10 DEF Answered, ranked
<1>12. QED BY <1>11

\* Whoever is ranked is ranked at an energy that none of its stored vectors is
\* below, and that one of them has unless it is known to lack it.
RankedTrue ==
    \A i \in DOMAIN ranking :
      LET r == ranking[i]
      IN /\ r.energy \in Int /\ NoneBelow(job, answers, r.solver, r.energy)
         /\ r.solver \notin changed <=> Attains(job, answers, r.solver, r.energy)

\* Nothing is stored before the order is open.
Untouched == answers = <<>> /\ ranking = <<>> /\ read = None /\ pick = NoPick

\* What best() read is what is stored, unless an answer arrived since.
ReadTrue ==
    read # None => /\ read.at \in Nat /\ read.at <= submissions
                   /\ read.at = submissions => read.answers = answers /\ answers # <<>>

StoredInv ==
    /\ submissions \in Nat
    /\ state # "open" => Untouched
    /\ state = "open" => posted = CallParams(options, job)
    /\ answers = [s \in DOMAIN answers |-> answers[s]]
    /\ DOMAIN answers \subseteq C.solvers /\ GoodAnswers(job, answers)
    /\ RankedTrue /\ ReadTrue /\ PickIsPaidFor

\* Where nothing is stored, all is so.
LEMMA UntouchedIs ==
    ASSUME Untouched'
    PROVE  /\ answers' = [s \in DOMAIN answers' |-> answers'[s]] /\ DOMAIN answers' \subseteq C.solvers'
           /\ GoodAnswers(job, answers)' /\ RankedTrue' /\ ReadTrue' /\ PickIsPaidFor'
<1>1. answers' = <<>> /\ ranking' = <<>> /\ read' = None /\ pick' = NoPick
    BY DEF Untouched
<1>2. DOMAIN answers' = {} /\ DOMAIN ranking' = {} /\ answers' = [s \in DOMAIN answers' |-> answers'[s]]
    BY <1>1
<1>3. IsFiniteSet(DOMAIN answers')
    BY <1>2, FS_EmptySet
<1>4. GoodAnswers(job, answers)'
    BY <1>2, <1>3 DEF GoodAnswers
<1>5. RankedTrue' /\ ReadTrue' /\ PickIsPaidFor'
    BY <1>1, <1>2 DEF RankedTrue, ReadTrue, PickIsPaidFor, NoPick
<1>6. QED BY <1>2, <1>4, <1>5

\* Whoever edits or places a draft touches nothing that is stored.
LEMMA DraftStores ==
    ASSUME StoredInv, Create \/ Set \/ Searching \/ Placed
    PROVE  StoredInv'
<1>1. UNCHANGED <<chainVars, readVars>>
    BY DEF Create, Set, Searching, Placed
<1>2. state # "open" /\ state' # "open"
    <2>1. Raised => state' # "open"
        BY DEF Raised
    <2>2. \A o, placed : Finish(o, placed) => state' # "open"
        BY DEF Finish
    <2>3. \A o, at : Encode(o, at) => state' # "open"
        BY <2>1, <2>2 DEF Encode
    <2>4. \A o : Place(o) => state' # "open"
        BY <2>1, <2>3 DEF Place
    <2>5. QED BY <2>1, <2>2, <2>3, <2>4 DEF Create, Set, Searching, Placed
<1>3. Untouched' /\ submissions' \in Nat
    BY <1>1, <1>2 DEF StoredInv, Untouched, chainVars, readVars
<1>4. QED BY <1>2, <1>3, UntouchedIs DEF StoredInv

\* An order that is sent carries the draft's call, and has no answer.
LEMMA ProposeStores ==
    ASSUME StoredInv, OrderInv, TakenInv, Propose
    PROVE  StoredInv'
<1>1. Untouched' /\ submissions' \in Nat
    BY DEF Propose, StoredInv, Untouched, readVars
<1>2. posted' = CallParams(options, job) /\ UNCHANGED <<options, job>>
    BY DEF Propose
<1>3. posted' = CallParams(options', job')
    BY <1>2
<1>4. QED BY <1>1, <1>3, UntouchedIs DEF StoredInv

\* Solvers are numbers, and none of them is None.
LEMMA SolversAre ==
    ASSUME case \in DOMAIN Cases
    PROVE  C.solvers \subseteq Int /\ None \notin C.solvers
BY PlacedOrderAssumption DEF IsCase, C

\* An answer keeps the ranking true: for its own solver by what it does, for
\* the others because nothing of theirs changes.
LEMMA AnsweredIs ==
    ASSUME case \in DOMAIN Cases, JobOK(job), StoredInv, PaidInv, state = "open", NEW solver, NEW kept, NEW energy,
           Answered(solver, kept, energy), UNCHANGED <<case, options, job>>
    PROVE  /\ answers' = [s \in DOMAIN answers' |-> answers'[s]] /\ DOMAIN answers' \subseteq C.solvers'
           /\ GoodAnswers(job, answers)' /\ RankedTrue'
<1> DEFINE entry == [solver |-> solver, energy |-> energy]
           has(e) == \E i \in DOMAIN kept : IsingEnergyMilli(job, kept[i]) = e
<1>1. /\ solver \in C.solvers /\ Batch(job, kept) /\ energy \in Int
      /\ \A i \in DOMAIN kept : energy <= IsingEnergyMilli(job, kept[i])
      /\ ranking' = RankIn(posted, entry)
      /\ changed' = IF \A r \in ToSet(ranking') : r.solver = solver => has(r.energy)
                    THEN changed \ {solver} ELSE changed \cup {solver}
    BY DEF Answered
<1>2. /\ DOMAIN answers' = DOMAIN answers \cup {solver}
      /\ answers' = [s \in DOMAIN answers' |-> answers'[s]]
      /\ answers'[solver].vectors = kept
      /\ \A s \in DOMAIN answers : s # solver => answers'[s] = answers[s]
    BY DEF Answered
<1>3. DOMAIN answers' \subseteq C.solvers'
    <2>1. C' = C
        BY DEF C
    <2>2. QED BY <1>1, <1>2, <2>1 DEF StoredInv
<1>4. GoodAnswers(job, answers)'
    <2>1. IsFiniteSet(DOMAIN answers') /\ \A s \in DOMAIN answers' : Batch(job, answers'[s].vectors)
        BY <1>1, <1>2, FS_AddElement DEF StoredInv, GoodAnswers
    <2>2. solver \in Int
        BY <1>1, SolversAre
    <2>3. QED BY <1>2, <2>1, <2>2 DEF StoredInv, GoodAnswers
<1>5. /\ ranking' \in Seq(ToSet(ranking) \cup {entry})
      /\ \A i, k \in DOMAIN ranking' : i # k => ranking'[i].solver # ranking'[k].solver
      /\ \/ /\ ranking' = ranking
            /\ \E i \in DOMAIN ranking : ranking[i].solver = entry.solver /\ ranking[i].energy <= entry.energy
         \/ \A i \in DOMAIN ranking' : ranking'[i].solver = entry.solver => ranking'[i] = entry
    <2>1. RankedOnce /\ Places(posted) \in Nat /\ Len(ranking) <= Places(posted)
        BY DEF PaidInv
    <2> HIDE DEF entry
    <2>2. QED BY <1>1, <2>1, RankInIs
<1>6. ASSUME NEW i \in DOMAIN ranking', ranking'[i].solver # solver
      PROVE  \E k \in DOMAIN ranking : ranking'[i] = ranking[k]
    <2>1. ranking'[i] \in ToSet(ranking) \cup {entry}
        BY <1>5
    <2>2. ranking'[i] \in ToSet(ranking)
        BY <1>6, <2>1
    <2>3. QED BY <2>2 DEF ToSet
<1>7. ASSUME NEW i \in DOMAIN ranking', ranking'[i].solver = solver
      PROVE  ranking'[i].energy \in Int /\ ranking'[i].energy <= energy
    <2>1. CASE ranking'[i] = entry
        BY <1>1, <2>1
    <2>2. CASE ranking' = ranking /\ \E k \in DOMAIN ranking : ranking[k].solver = solver /\ ranking[k].energy <= energy
        <3>1. PICK k \in DOMAIN ranking : ranking[k].solver = solver /\ ranking[k].energy <= energy
            BY <2>2
        <3>2. i = k
            BY <1>5, <1>7, <2>2, <3>1
        <3>3. ranking[k].energy \in Int
            BY DEF StoredInv, RankedTrue
        <3>4. QED BY <2>2, <3>1, <3>2, <3>3
    <2>3. QED BY <1>5, <1>7, <2>1, <2>2
<1>8. ASSUME NEW i \in DOMAIN ranking', NEW r, r = ranking'[i]
      PROVE  /\ r.energy \in Int /\ NoneBelow(job, answers', r.solver, r.energy)
             /\ r.solver \notin changed' <=> Attains(job, answers', r.solver, r.energy)
    <2>1. CASE r.solver = solver
        <3>1. r.energy \in Int /\ r.energy <= energy
            BY <1>7, <1>8, <2>1
        <3>2. NoneBelow(job, answers', solver, r.energy)
            <4>1. \A k \in DOMAIN kept : kept[k] \in Vectors(job)
                BY <1>1 DEF Batch
            <4>2. \A k \in DOMAIN kept : IsingEnergyMilli(job, kept[k]) \in Int
                BY <4>1, ChainEnergyIs
            <4>3. \A k \in DOMAIN kept : r.energy <= IsingEnergyMilli(job, kept[k])
                BY <1>1, <3>1, <4>2
            <4>4. QED BY <1>2, <4>3 DEF NoneBelow
        <3>3. Attains(job, answers', solver, r.energy) <=> has(r.energy)
            BY <1>2 DEF Attains
        <3>4. (\A q \in ToSet(ranking') : q.solver = solver => has(q.energy)) <=> has(r.energy)
            <4>1. r \in ToSet(ranking')
                BY <1>8 DEF ToSet
            <4>2. \A q \in ToSet(ranking') : q.solver = solver => q = r
                BY <1>5, <1>8, <2>1 DEF ToSet
            <4> HIDE DEF has
            <4>3. QED BY <2>1, <4>1, <4>2
        <3> HIDE DEF has
        <3>5. solver \notin changed' <=> has(r.energy)
            BY <1>1, <3>4
        <3>6. QED BY <2>1, <3>1, <3>2, <3>3, <3>5
    <2>2. CASE r.solver # solver
        <3>1. PICK k \in DOMAIN ranking : r = ranking[k]
            BY <1>6, <1>8, <2>2
        <3>2. /\ r.energy \in Int /\ NoneBelow(job, answers, r.solver, r.energy)
              /\ r.solver \notin changed <=> Attains(job, answers, r.solver, r.energy)
            BY <3>1 DEF StoredInv, RankedTrue
        <3>3. r.solver \in DOMAIN answers
            BY <3>1 DEF PaidInv
        <3>4. answers'[r.solver] = answers[r.solver]
            BY <1>2, <2>2, <3>3
        <3>5. r.solver \in changed' <=> r.solver \in changed
            BY <1>1, <2>2
        <3>6. QED BY <3>2, <3>4, <3>5 DEF NoneBelow, Attains
    <2>3. QED BY <2>1, <2>2
<1>9. RankedTrue'
    BY <1>8 DEF RankedTrue
<1>10. QED BY <1>2, <1>3, <1>4, <1>9

\* An answer that is taken makes what best() read out of date.
LEMMA SolveStores ==
    ASSUME StoredInv, OrderInv, TakenInv, PaidInv, Solve
    PROVE  StoredInv'
<1>1. /\ state = "open" /\ state' = "open" /\ case \in DOMAIN Cases
      /\ UNCHANGED <<case, options, job, posted, read>>
      /\ submissions' = submissions + 1 /\ pick' = NoPick
    BY DEF Solve, Answer, draftVars, OrderInv
<1>2. OptionsOK(options) /\ JobOK(job)
    BY <1>1 DEF TakenInv, DraftTaken, HasJob
<1>3. posted = CallParams(options, job) /\ submissions \in Nat /\ ReadTrue
    BY <1>1 DEF StoredInv
<1>4. PICK solver, kept, energy : Answered(solver, kept, energy)
    BY <1>1, <1>2, <1>3, SolveIs
<1>5. /\ answers' = [s \in DOMAIN answers' |-> answers'[s]] /\ DOMAIN answers' \subseteq C.solvers'
      /\ GoodAnswers(job, answers)' /\ RankedTrue'
    BY <1>1, <1>2, <1>4, AnsweredIs
<1>6. submissions' \in Nat /\ ReadTrue'
    BY <1>1, <1>3 DEF ReadTrue
<1>7. PickIsPaidFor'
    BY <1>1 DEF PickIsPaidFor
<1>8. posted' = CallParams(options', job')
    BY <1>1, <1>3
<1>9. QED BY <1>1, <1>5, <1>6, <1>7, <1>8 DEF StoredInv

\* What is stored depends on nothing that a reader changes.
LEMMA ReadingStores ==
    ASSUME StoredInv, UNCHANGED <<case, state, options, job, posted, answers, ranking, changed, submissions>>,
           state = "open" \/ UNCHANGED <<read, pick>>, ReadTrue', PickIsPaidFor'
    PROVE  StoredInv'
<1>1. C' = C
    BY DEF C
<1>2. GoodAnswers(job, answers)' /\ RankedTrue'
    BY DEF StoredInv, GoodAnswers, RankedTrue
<1>3. state' # "open" => Untouched'
    BY DEF StoredInv, Untouched
<1>4. QED BY <1>1, <1>2, <1>3 DEF StoredInv

\* best() reads the answers as they are.
LEMMA ReadAnswersStores ==
    ASSUME StoredInv, ReadAnswers
    PROVE  StoredInv'
<1>1. UNCHANGED <<case, state, options, job, posted, answers, ranking, changed, submissions>> /\ state = "open"
    BY DEF ReadAnswers, draftVars, chainVars
<1>2. read' = [answers |-> answers, at |-> submissions] /\ answers # <<>> /\ pick' = NoPick
    BY DEF ReadAnswers
<1>3. ReadTrue'
    BY <1>1, <1>2 DEF ReadTrue, StoredInv
<1>4. PickIsPaidFor'
    BY <1>2 DEF PickIsPaidFor
<1>5. QED BY <1>1, <1>3, <1>4, ReadingStores

\* best() on what was read, when nothing arrived since: the ranking is true of it.
LEMMA ReadRankingStores ==
    ASSUME StoredInv, OrderInv, TakenInv, PaidInv, ReadRanking
    PROVE  StoredInv'
<1>1. UNCHANGED <<case, state, options, job, posted, answers, ranking, changed, submissions>>
    BY DEF ReadRanking, draftVars, chainVars
<1>2. read # None /\ read' = None /\ state = "open"
    BY DEF ReadRanking, StoredInv, Untouched
<1>3. PICK seen \in {ranking, <<>>} : \E best \in {PickBest(C.model, job, read.answers, seen)} :
        pick' = [solution |-> best.solution, held |-> best.held, matches |-> best.matches,
                 leader_read |-> best.leader_read, stored |-> read.answers, ranked |-> seen, lacking |-> changed,
                 raced |-> read.at # submissions]
    BY DEF ReadRanking
<1> DEFINE best == PickBest(C.model, job, read.answers, seen)
           leader == IF seen = <<>> THEN None ELSE seen[1].solver
<1>4. /\ pick'.solution = best.solution /\ pick'.matches = best.matches /\ pick'.stored = read.answers
      /\ pick'.ranked = seen /\ pick'.lacking = changed /\ pick'.raced = (read.at # submissions)
    <2> HIDE DEF best
    <2>1. best = PickBest(C.model, job, read.answers, seen)
        BY DEF best
    <2>2. QED BY <1>3, <2>1
<1> HIDE DEF best
<1>5. ASSUME ~pick'.raced
      PROVE  IF leader # None /\ leader \notin changed
             THEN best.matches /\ best.solution.solver = leader
                  /\ best.solution.energy = Min(Energies(C.model, job, answers, leader))
             ELSE best.solution.energy = Min(AllEnergies(C.model, job, answers))
    <2>1. read.answers = answers /\ answers # <<>>
        BY <1>2, <1>4, <1>5 DEF StoredInv, ReadTrue
    <2>2. DOMAIN answers # {}
        <3>1. SUFFICES ASSUME DOMAIN answers = {} PROVE FALSE
            OBVIOUS
        <3>2. answers = [s \in {} |-> answers[s]]
            BY <3>1 DEF StoredInv
        <3>3. <<>> = [s \in {} |-> answers[s]]
            OBVIOUS
        <3>4. QED BY <2>1, <3>2, <3>3
    <2>3. IsModel(C.model) /\ None \notin DOMAIN answers
        <3>1. case \in DOMAIN Cases
            BY DEF OrderInv
        <3>2. IsModel(C.model)
            BY <3>1, PlacedOrderAssumption DEF IsCase, C
        <3>3. QED BY <3>1, <3>2, SolversAre DEF StoredInv
    <2>4. JobOK(job) /\ GoodAnswers(job, answers)
        BY <1>2 DEF TakenInv, DraftTaken, HasJob, StoredInv
    <2>5. seen # <<>> => /\ leader \in DOMAIN answers /\ seen[1].energy \in Int
                         /\ NoneBelow(job, answers, leader, seen[1].energy)
                         /\ leader \notin changed <=> Attains(job, answers, leader, seen[1].energy)
        <3> SUFFICES ASSUME seen # <<>>
                     PROVE  /\ leader \in DOMAIN answers /\ seen[1].energy \in Int
                            /\ NoneBelow(job, answers, leader, seen[1].energy)
                            /\ leader \notin changed <=> Attains(job, answers, leader, seen[1].energy)
            OBVIOUS
        <3>1. seen = ranking /\ leader = ranking[1].solver
            BY <1>3
        <3>2. ranking \in Seq(ToSet(ranking))
            BY DEF PaidInv, RankedOnce
        <3>3. 1 \in DOMAIN ranking
            BY <3>1, <3>2
        <3>4. QED BY <3>1, <3>3 DEF PaidInv, StoredInv, RankedTrue
    <2>6. best = PickBest(C.model, job, answers, seen)
        BY <2>1 DEF best
    <2>7. Leads(job, answers, seen, changed, leader)
        BY <2>5 DEF Leads
    <2> HIDE DEF leader
    <2>8. BestOf(PickBest(C.model, job, answers, seen), C.model, job, answers, changed, leader)
        BY <2>2, <2>3, <2>4, <2>7, BestIs
    <2>9. QED BY <2>6, <2>8 DEF BestOf
<1>6. PickIsPaidFor'
    <2>1. SUFFICES ASSUME ~pick'.raced
                   PROVE  IF leader # None /\ leader \notin changed
                          THEN pick'.matches /\ pick'.solution.solver = leader
                               /\ pick'.solution.energy = Min(Energies(C'.model, job', pick'.stored, leader))
                          ELSE pick'.solution.energy = Min(AllEnergies(C'.model, job', pick'.stored))
        BY <1>4, Zenon DEF PickIsPaidFor, Energies, AllEnergies
    <2>2. read.answers = answers
        BY <1>2, <1>4, <2>1 DEF StoredInv, ReadTrue
    <2>3. C' = C
        BY <1>1 DEF C
    <2>4. QED BY <1>1, <1>4, <1>5, <2>1, <2>2, <2>3
<1>7. ReadTrue'
    BY <1>2 DEF ReadTrue
<1>8. QED BY <1>1, <1>2, <1>6, <1>7, ReadingStores

\* Standing still stores nothing.
LEMMA StandingStores ==
    ASSUME StoredInv, UNCHANGED vars
    PROVE  StoredInv'
<1>1. UNCHANGED <<case, state, options, job, posted, answers, ranking, changed, submissions, read, pick>>
    BY DEF vars, draftVars, chainVars, readVars
<1>2. ReadTrue'
    BY <1>1 DEF StoredInv, ReadTrue
<1>3. PickIsPaidFor'
    <2>1. C'.model = C.model
        BY <1>1 DEF C
    <2>2. PickIsPaidFor
        BY DEF StoredInv
    <2> DEFINE leader == IF pick.ranked = <<>> THEN None ELSE pick.ranked[1].solver
    <2>3. PickIsPaidFor <=> (pick # NoPick /\ ~pick.raced
                               => BestOf(pick, C.model, job, pick.stored, pick.lacking, leader))
        BY Zenon DEF PickIsPaidFor, BestOf, Energies, AllEnergies
    <2>4. PickIsPaidFor' <=> (pick' # NoPick /\ ~pick'.raced
                                => BestOf(pick', C'.model, job', pick'.stored, pick'.lacking, leader'))
        BY Zenon DEF PickIsPaidFor, NoPick, BestOf, Energies, AllEnergies
    <2>5. leader' = leader
        BY <1>1
    <2> HIDE DEF leader
    <2>6. QED BY <1>1, <2>1, <2>2, <2>3, <2>4, <2>5
<1>4. QED BY <1>1, <1>2, <1>3, ReadingStores

\* Before anything is sent, nothing is stored.
LEMMA EmptyStores ==
    ASSUME Untouched, state # "open", submissions \in Nat
    PROVE  StoredInv
<1>1. answers = <<>> /\ ranking = <<>> /\ read = None /\ pick = NoPick
    BY DEF Untouched
<1>2. DOMAIN answers = {} /\ DOMAIN ranking = {} /\ answers = [s \in DOMAIN answers |-> answers[s]]
    BY <1>1
<1>3. GoodAnswers(job, answers)
    BY <1>2, FS_EmptySet DEF GoodAnswers
<1>4. RankedTrue /\ ReadTrue /\ PickIsPaidFor
    BY <1>1, <1>2 DEF RankedTrue, ReadTrue, PickIsPaidFor, NoPick
<1>5. QED BY <1>2, <1>3, <1>4 DEF StoredInv

\* So what is stored is true in every state.
LEMMA StoredHolds == Spec => []StoredInv
<1>1. Init => StoredInv
    <2>1. ASSUME Init PROVE StoredInv
        <3>1. Untouched /\ state # "open" /\ submissions \in Nat
            BY <2>1 DEF Init, Untouched
        <3>2. QED BY <3>1, EmptyStores
    <2>2. QED BY <2>1
<1>2. StoredInv /\ OrderInv /\ TakenInv /\ PaidInv /\ [Next]_vars => StoredInv'
    BY DraftStores, ProposeStores, SolveStores, ReadAnswersStores, ReadRankingStores, StandingStores DEF Next
<1>3. QED BY <1>1, <1>2, OrderHolds, TakenHolds, PaidHolds, PTL DEF Spec

\* best() returns the leader's best vector, the one that is paid for, and else
\* the best of all that is stored: whatever the model, the placement, the
\* answers and their order, unless an answer came between its two reads.
THEOREM PickIsPaid == Spec => []PickIsPaidFor
<1>1. StoredInv => PickIsPaidFor
    BY DEF StoredInv
<1>2. QED BY <1>1, StoredHolds, PTL

-----------------------------------------------------------------------------
(* A model in bits and in spins. *)

\* The terms of a sum over variables, and of one over couplings.
Linear(h, s) == [v \in DOMAIN h |-> h[v] * s[v]]
Quadratic(j, s) == [e \in DOMAIN j |-> j[e] * s[e[1]] * s[e[2]]]
\* The couplings of two variables, and those of a variable with itself.
Proper(quad, x) == [e \in Between(DOMAIN quad) |-> Quadratic(quad, x)[e]]
Loops(quad, x, V) == [v \in V |-> At0(quad, <<v, v>>) * x[v]]

\* The terms of a variable with itself are linear, since a bit is its square.
LEMMA LoopsApart ==
    ASSUME NEW V, IsFiniteSet(V), NEW quad, IsFiniteSet(DOMAIN quad),
           \A e \in DOMAIN quad : e \in V \X V /\ quad[e] \in Int, NEW x, \A v \in V : x[v] \in {0, 1}
    PROVE  SumOf(Quadratic(quad, x)) = SumOf(Proper(quad, x)) + SumOf(Loops(quad, x, V))
<1> DEFINE D == DOMAIN quad
           all == Quadratic(quad, x)
           two == Proper(quad, x)
           one == Loops(quad, x, V)
           f == [e \in D |-> IF e[1] # e[2] THEN all[e] ELSE 0]
           g == [e \in D |-> IF e[1] = e[2] THEN all[e] ELSE 0]
           loops == [e \in {d \in D : d[1] = d[2]} |-> all[e]]
           diagonal == [v \in {w \in V : <<w, w>> \in D} |-> one[v]]
           name == [v \in {w \in V : <<w, w>> \in D} |-> <<v, v>>]
<1>1. /\ all = [e \in D |-> quad[e] * x[e[1]] * x[e[2]]] /\ two = [e \in Between(D) |-> all[e]]
      /\ one = [v \in V |-> At0(quad, <<v, v>>) * x[v]]
    BY DEF Quadratic, Proper, Loops
<1> HIDE DEF all, two, one
<1>2. \A e \in D : e[1] \in V /\ e[2] \in V /\ e = <<e[1], e[2]>> /\ quad[e] \in Int
    OBVIOUS
<1>3. \A v \in V : x[v] \in Int
    OBVIOUS
<1>4. \A e \in D : all[e] \in Int
    BY <1>1, <1>2, <1>3
<1>5. SumOf(all) = SumOf(f) + SumOf(g)
    <2>1. /\ DOMAIN f = D /\ DOMAIN g = D /\ DOMAIN all = D
          /\ \A e \in D : f[e] \in Int /\ g[e] \in Int /\ all[e] = f[e] + g[e]
        BY <1>1, <1>4
    <2> HIDE DEF f, g
    <2>2. QED BY <2>1, SumAdd
<1>6. SumOf(f) = SumOf(two)
    <2>1. /\ DOMAIN f = D /\ DOMAIN two \subseteq D /\ \A e \in D : f[e] \in Int
          /\ \A e \in DOMAIN two : two[e] = f[e]
          /\ \A e \in D \ DOMAIN two : f[e] = 0
        BY <1>1, <1>4 DEF Between
    <2> HIDE DEF f
    <2>2. QED BY <2>1, SumWithin
<1>7. SumOf(g) = SumOf(loops)
    <2>1. /\ DOMAIN g = D /\ DOMAIN loops \subseteq D /\ \A e \in D : g[e] \in Int
          /\ \A e \in DOMAIN loops : loops[e] = g[e]
          /\ \A e \in D \ DOMAIN loops : g[e] = 0
        BY <1>4
    <2> HIDE DEF g, loops
    <2>2. QED BY <2>1, SumWithin
<1>8. \A v \in V : one[v] \in Int /\ (<<v, v>> \notin D => one[v] = 0)
    <2> TAKE v \in V
    <2>1. one[v] = At0(quad, <<v, v>>) * x[v]
        BY <1>1
    <2>2. CASE <<v, v>> \in D
        BY <1>2, <1>3, <2>1, <2>2 DEF At0
    <2>3. CASE <<v, v>> \notin D
        <3>1. one[v] = 0 * x[v]
            BY <2>1, <2>3 DEF At0
        <3>2. QED BY <1>3, <3>1
    <2>4. QED BY <2>2, <2>3
<1>9. SumOf(one) = SumOf(diagonal)
    <2>1. /\ DOMAIN one = V /\ DOMAIN diagonal \subseteq V /\ \A v \in V : one[v] \in Int
          /\ \A v \in DOMAIN diagonal : diagonal[v] = one[v]
          /\ \A v \in V \ DOMAIN diagonal : one[v] = 0
        BY <1>1, <1>8
    <2> HIDE DEF diagonal
    <2>2. QED BY <2>1, SumWithin
<1>10. SumOf(diagonal) = SumOf(loops)
    <2>1. IsFiniteSet(DOMAIN diagonal) /\ IsFiniteSet(DOMAIN loops)
        <3>1. DOMAIN diagonal \subseteq V /\ DOMAIN loops \subseteq D
            OBVIOUS
        <3> HIDE DEF diagonal, loops, D
        <3>2. QED BY <3>1, FS_Subset DEF D
    <2>2. \A e \in DOMAIN loops : loops[e] \in Int
        BY <1>4
    <2>3. name \in Bijection(DOMAIN diagonal, DOMAIN loops)
        <3>1. \A v \in DOMAIN diagonal : name[v] = <<v, v>> /\ name[v] \in DOMAIN loops
            OBVIOUS
        <3>2. \A e \in DOMAIN loops : e[1] \in DOMAIN diagonal /\ name[e[1]] = e
            BY <1>2
        <3>3. name \in [DOMAIN diagonal -> DOMAIN loops]
            BY <3>1
        <3>4. \A v, w \in DOMAIN diagonal : name[v] = name[w] => v = w
            BY <3>1
        <3> HIDE DEF name, diagonal, loops
        <3>5. QED BY <3>2, <3>3, <3>4 DEF Bijection, Injection, Surjection, IsInjective
    <2>4. \A v \in DOMAIN diagonal : diagonal[v] = loops[name[v]]
        <3> TAKE v \in DOMAIN diagonal
        <3>1. v \in V /\ <<v, v>> \in D /\ diagonal[v] = quad[<<v, v>>] * x[v]
            BY <1>1 DEF At0
        <3>2. loops[name[v]] = quad[<<v, v>>] * x[v] * x[v]
            BY <1>1, <3>1
        <3>3. quad[<<v, v>>] \in Int /\ x[v] \in {0, 1}
            BY <1>2, <3>1
        <3>4. QED BY <3>1, <3>2, <3>3
    <2> HIDE DEF name, diagonal, loops
    <2>5. QED BY <2>1, <2>2, <2>3, <2>4, SumRenamed
<1>11. QED BY <1>5, <1>6, <1>7, <1>9, <1>10 DEF all, two, one

\* What the couplings of a variable add to its field.
ShareOf(b, v) == SumOf([e \in Touching(b, v) |-> b[e]])
\* What they add to the energy, by variable and by coupling.
ByVariable(b, s, V) == [v \in V |-> s[v] * ShareOf(b, v)]
ByCoupling(b, s) == [e \in DOMAIN b |-> b[e] * s[e[1]] + b[e] * s[e[2]]]

\* What the couplings give to the fields adds up over the variables as it does
\* over the couplings.
LEMMA SharesAre ==
    ASSUME NEW V, IsFiniteSet(V), NEW b, IsFiniteSet(DOMAIN b),
           \A e \in DOMAIN b : e \in V \X V /\ e[1] # e[2] /\ b[e] \in Int, NEW s, \A v \in V : s[v] \in Int
    PROVE  SumOf(ByVariable(b, s, V)) = SumOf(ByCoupling(b, s))
<1> DEFINE D == DOMAIN b
           fields == ByVariable(b, s, V)
           ends == ByCoupling(b, s)
           m == [v \in V |-> [e \in D |-> IF e \in Touching(b, v) THEN b[e] * s[v] ELSE 0]]
           rows == [v \in V |-> SumOf([e \in D |-> m[v][e]])]
           columns == [e \in D |-> SumOf([v \in V |-> m[v][e]])]
<1>1. \A v \in V, e \in D : m[v][e] = (IF e \in Touching(b, v) THEN b[e] * s[v] ELSE 0) /\ m[v][e] \in Int
    <2> TAKE v \in V, e \in D
    <2>1. m[v][e] = IF e \in Touching(b, v) THEN b[e] * s[v] ELSE 0
        OBVIOUS
    <2>2. b[e] \in Int /\ s[v] \in Int
        OBVIOUS
    <2> HIDE DEF m
    <2>3. b[e] * s[v] \in Int
        BY <2>2
    <2>4. QED BY <2>1, <2>3
<1> HIDE DEF m
<1>2. SumOf(rows) = SumOf(columns)
    <2>1. rows = Rows(m, V, D) /\ columns = Columns(m, V, D)
        BY DEF Rows, Columns
    <2> HIDE DEF rows, columns
    <2>2. QED BY <1>1, <2>1, SumSwapped
<1>3. \A v \in V : rows[v] = fields[v]
    <2> TAKE v \in V
    <2> DEFINE row == [e \in D |-> m[v][e]]
               part == [e \in Touching(b, v) |-> m[v][e]]
               share == [e \in Touching(b, v) |-> b[e]]
    <2>1. Touching(b, v) \subseteq D
        BY DEF Touching
    <2>2. /\ DOMAIN row = D /\ DOMAIN part = Touching(b, v) /\ DOMAIN share = Touching(b, v)
          /\ \A e \in D : row[e] = m[v][e]
          /\ \A e \in Touching(b, v) : part[e] = m[v][e] /\ share[e] = b[e]
        OBVIOUS
    <2>3. rows[v] = SumOf(row) /\ fields[v] = s[v] * SumOf(share)
        BY DEF ByVariable, ShareOf
    <2> HIDE DEF row, part, share
    <2>4. SumOf(row) = SumOf(part)
        <3>1. /\ \A e \in DOMAIN row : row[e] \in Int
              /\ \A e \in DOMAIN part : part[e] = row[e]
              /\ \A e \in DOMAIN row \ DOMAIN part : row[e] = 0
            BY <1>1, <2>1, <2>2
        <3>2. QED BY <2>1, <2>2, <3>1, SumWithin
    <2>5. SumOf(part) = s[v] * SumOf(share)
        <3>1. IsFiniteSet(DOMAIN share)
            BY <2>1, <2>2, FS_Subset
        <3>2. \A e \in DOMAIN share : share[e] \in Int /\ part[e] = s[v] * share[e]
            <4> SUFFICES ASSUME NEW e \in Touching(b, v) PROVE share[e] \in Int /\ part[e] = s[v] * share[e]
                BY <2>2
            <4>1. e \in D /\ b[e] \in Int /\ s[v] \in Int
                BY <2>1
            <4>2. part[e] = b[e] * s[v] /\ share[e] = b[e]
                BY <1>1, <2>2, <4>1
            <4>3. QED BY <4>1, <4>2
        <3>3. QED BY <2>2, <3>1, <3>2, SumScaled
    <2>6. QED BY <2>3, <2>4, <2>5
<1>4. \A e \in D : columns[e] = ends[e]
    <2> TAKE e \in D
    <2> DEFINE column == [v \in V |-> m[v][e]]
               pair == [v \in {e[1], e[2]} |-> m[v][e]]
    <2>1. e[1] \in V /\ e[2] \in V /\ e[1] # e[2] /\ b[e] \in Int /\ s[e[1]] \in Int /\ s[e[2]] \in Int
        OBVIOUS
    <2>2. \A v \in V : e \in Touching(b, v) <=> v \in {e[1], e[2]}
        BY DEF Touching
    <2>3. m[e[1]][e] = b[e] * s[e[1]] /\ m[e[2]][e] = b[e] * s[e[2]]
        BY <1>1, <2>1, <2>2
    <2>4. /\ DOMAIN column = V /\ DOMAIN pair = {e[1], e[2]}
          /\ pair[e[1]] = m[e[1]][e] /\ pair[e[2]] = m[e[2]][e]
          /\ \A v \in V : column[v] = m[v][e] /\ column[v] \in Int
          /\ \A v \in {e[1], e[2]} : pair[v] = column[v]
          /\ \A v \in V \ {e[1], e[2]} : column[v] = 0
        BY <1>1, <2>1, <2>2
    <2>5. columns[e] = SumOf(column) /\ ends[e] = b[e] * s[e[1]] + b[e] * s[e[2]]
        BY DEF ByCoupling
    <2> HIDE DEF column, pair
    <2>6. SumOf(column) = SumOf(pair)
        BY <2>1, <2>4, SumWithin
    <2>7. SumOf(pair) = pair[e[1]] + pair[e[2]]
        <3>1. pair[e[1]] \in Int /\ pair[e[2]] \in Int
            BY <2>1, <2>4
        <3>2. QED BY <2>1, <2>4, <3>1, SumOfTwo
    <2>8. QED BY <2>3, <2>4, <2>5, <2>6, <2>7
<1>5. rows = fields
    <2>1. rows = [v \in V |-> rows[v]] /\ fields = [v \in V |-> fields[v]]
        BY DEF ByVariable
    <2> HIDE DEF rows
    <2>2. QED BY <1>3, <2>1
<1>6. columns = ends
    <2>1. columns = [e \in D |-> columns[e]] /\ ends = [e \in D |-> ends[e]]
        BY DEF ByCoupling
    <2> HIDE DEF columns
    <2>2. QED BY <1>4, <2>1
<1>7. QED BY <1>2, <1>5, <1>6

\* A bit, and the spin it stands for.
BitOf(x, s) == s \in {-1, 1} /\ x = (s + 1) \div 2

\* A linear and a coupling term of a binary model as terms of spins.
InSpins(c, s, t, x, y) ==
    /\ x \in {0, 1} /\ c \div 2 \in Int /\ c \div 4 \in Int /\ c = 2 * (c \div 2) /\ c = 4 * (c \div 4)
    /\ c * x = (c \div 2) * s + c \div 2
    /\ c * x * y = (c \div 4) * s * t + ((c \div 4) * s + (c \div 4) * t) + c \div 4

\* So it is of every term: a bit is half a spin and a half.
LEMMA TermInSpins ==
    ASSUME NEW c \in Int, c % 4 = 0, NEW s, NEW t, NEW x, NEW y, BitOf(x, s), BitOf(y, t)
    PROVE  InSpins(c, s, t, x, y)
<1>1. PICK k \in Int : c = 4 * k /\ c \div 4 = k /\ c \div 2 = 2 * k
    <2>1. c = 4 * (c \div 4) /\ c \div 4 \in Int /\ c \div 2 = 2 * (c \div 4)
        OBVIOUS
    <2>2. QED BY <2>1
<1>2. (s = 1 => x = 1) /\ (s = -1 => x = 0) /\ (t = 1 => y = 1) /\ (t = -1 => y = 0)
    <2>1. (1 + 1) \div 2 = 1 /\ (-1 + 1) \div 2 = 0
        OBVIOUS
    <2>2. QED BY <2>1 DEF BitOf
<1> USE DEF InSpins
<1>3. CASE s = 1 /\ t = 1
    BY <1>1, <1>2, <1>3
<1>4. CASE s = 1 /\ t = -1
    BY <1>1, <1>2, <1>4
<1>5. CASE s = -1 /\ t = 1
    BY <1>1, <1>2, <1>5
<1>6. CASE s = -1 /\ t = -1
    BY <1>1, <1>2, <1>6
<1>7. QED BY <1>3, <1>4, <1>5, <1>6 DEF BitOf

\* The couplings and the fields that the terms of bits become.
Quarters(two) == [e \in DOMAIN two |-> two[e] \div 4]
FieldsFrom(ones, two) == [v \in DOMAIN ones |-> ones[v] \div 2 + ShareOf(Quarters(two), v)]

\* The change from bits to spins keeps the energy.
LEMMA ChangeIs ==
    ASSUME NEW ones, IsFiniteSet(DOMAIN ones), \A v \in DOMAIN ones : ones[v] \in Int /\ ones[v] % 4 = 0,
           NEW two, IsFiniteSet(DOMAIN two),
           \A e \in DOMAIN two : /\ e \in (DOMAIN ones) \X (DOMAIN ones) /\ e[1] # e[2]
                                 /\ two[e] \in Int /\ two[e] % 4 = 0,
           NEW s, \A v \in DOMAIN ones : s[v] \in {-1, 1},
           NEW x, \A v \in DOMAIN ones : x[v] = (s[v] + 1) \div 2
    PROVE  SumOf(Linear(ones, x)) + SumOf(Quadratic(two, x))
             = SumOf(Linear(FieldsFrom(ones, two), s)) + SumOf(Quadratic(Quarters(two), s))
                 + (SumOf(ones) \div 2 + SumOf(two) \div 4)
<1> DEFINE V == DOMAIN ones
           b == Quarters(two)
           h == FieldsFrom(ones, two)
           D == DOMAIN two
           a == [v \in V |-> ones[v] \div 2]
           shared == ByVariable(b, s, V)
           ends == ByCoupling(b, s)
           withEnds == [e \in D |-> Quadratic(b, s)[e] + ends[e]]
<1>1. b = [e \in DOMAIN two |-> two[e] \div 4] /\ h = [v \in DOMAIN ones |-> ones[v] \div 2 + ShareOf(b, v)]
    BY DEF Quarters, FieldsFrom
<1> HIDE DEF b, h
<1>2. \A v \in V : /\ ones[v] \in Int /\ a[v] \in Int /\ s[v] \in {-1, 1} /\ x[v] \in {0, 1}
                   /\ ones[v] = 2 * a[v] /\ ones[v] * x[v] = a[v] * s[v] + a[v]
    <2> TAKE v \in V
    <2>1. ones[v] \in Int /\ ones[v] % 4 = 0 /\ s[v] \in {-1, 1} /\ x[v] = (s[v] + 1) \div 2
        OBVIOUS
    <2>2. /\ x[v] \in {0, 1} /\ ones[v] \div 2 \in Int /\ ones[v] = 2 * (ones[v] \div 2)
          /\ ones[v] * x[v] = (ones[v] \div 2) * s[v] + ones[v] \div 2
        <3> DEFINE c == ones[v]
                   p == s[v]
                   y == x[v]
        <3>1. c \in Int /\ c % 4 = 0 /\ BitOf(y, p)
            BY <2>1 DEF BitOf
        <3> HIDE DEF c, p, y
        <3>2. InSpins(c, p, p, y, y)
            BY Zenon, <3>1, TermInSpins
        <3>3. /\ y \in {0, 1} /\ c \div 2 \in Int /\ c = 2 * (c \div 2)
              /\ c * y = (c \div 2) * p + c \div 2
            BY Zenon, <3>2 DEF InSpins
        <3>4. QED BY <3>3 DEF c, p, y
    <2>3. a[v] = ones[v] \div 2
        OBVIOUS
    <2> HIDE DEF a
    <2>4. QED BY Zenon, <2>1, <2>2, <2>3
<1>3. \A e \in D : /\ e[1] \in V /\ e[2] \in V /\ two[e] \in Int /\ b[e] \in Int /\ two[e] = 4 * b[e]
                   /\ two[e] * x[e[1]] * x[e[2]] = b[e] * s[e[1]] * s[e[2]] + (b[e] * s[e[1]] + b[e] * s[e[2]]) + b[e]
    <2> TAKE e \in D
    <2>1. e[1] \in V /\ e[2] \in V /\ two[e] \in Int /\ two[e] % 4 = 0 /\ b[e] = two[e] \div 4
        BY <1>1
    <2>2. /\ s[e[1]] \in {-1, 1} /\ s[e[2]] \in {-1, 1}
          /\ x[e[1]] = (s[e[1]] + 1) \div 2 /\ x[e[2]] = (s[e[2]] + 1) \div 2
        BY <2>1
    <2>3. /\ two[e] \div 4 \in Int /\ two[e] = 4 * (two[e] \div 4)
          /\ two[e] * x[e[1]] * x[e[2]]
               = (two[e] \div 4) * s[e[1]] * s[e[2]]
                   + ((two[e] \div 4) * s[e[1]] + (two[e] \div 4) * s[e[2]]) + two[e] \div 4
        <3> DEFINE c == two[e]
                   p == s[e[1]]
                   q == s[e[2]]
                   y == x[e[1]]
                   z == x[e[2]]
        <3>1. c \in Int /\ c % 4 = 0 /\ BitOf(y, p) /\ BitOf(z, q)
            BY <2>1, <2>2 DEF BitOf
        <3> HIDE DEF c, p, q, y, z
        <3>2. InSpins(c, p, q, y, z)
            BY Zenon, <3>1, TermInSpins
        <3>3. /\ c \div 4 \in Int /\ c = 4 * (c \div 4)
              /\ c * y * z = (c \div 4) * p * q + ((c \div 4) * p + (c \div 4) * q) + c \div 4
            BY Zenon, <3>2 DEF InSpins
        <3>4. QED BY <3>3 DEF c, p, q, y, z
    <2>4. QED BY Zenon, <2>1, <2>3
<1>4. DOMAIN b = D /\ DOMAIN h = V
    BY <1>1
<1>5. \A v \in V : ShareOf(b, v) \in Int /\ h[v] = a[v] + ShareOf(b, v)
    <2> TAKE v \in V
    <2> DEFINE share == [e \in Touching(b, v) |-> b[e]]
    <2>1. DOMAIN share \subseteq D /\ \A e \in DOMAIN share : share[e] \in Int
        BY <1>3, <1>4 DEF Touching
    <2> HIDE DEF share
    <2>2. IsFiniteSet(DOMAIN share)
        BY <2>1, FS_Subset
    <2>3. SumOf(share) \in Int
        BY <2>1, <2>2, SumInt
    <2>4. QED BY <1>1, <2>3 DEF share, ShareOf
<1>6. /\ DOMAIN Linear(ones, x) = V /\ DOMAIN Linear(a, s) = V /\ DOMAIN Linear(h, s) = V /\ DOMAIN a = V
      /\ \A v \in V : /\ Linear(ones, x)[v] = ones[v] * x[v] /\ Linear(a, s)[v] = a[v] * s[v]
                      /\ Linear(h, s)[v] = h[v] * s[v]
    BY <1>4 DEF Linear
<1>7. /\ DOMAIN Quadratic(two, x) = D /\ DOMAIN Quadratic(b, s) = D
      /\ \A e \in D : /\ Quadratic(two, x)[e] = two[e] * x[e[1]] * x[e[2]]
                      /\ Quadratic(b, s)[e] = b[e] * s[e[1]] * s[e[2]]
    BY <1>4 DEF Quadratic
<1>8. /\ DOMAIN shared = V /\ DOMAIN ends = D /\ DOMAIN withEnds = D
      /\ \A v \in V : shared[v] = s[v] * ShareOf(b, v)
      /\ \A e \in D : ends[e] = b[e] * s[e[1]] + b[e] * s[e[2]] /\ withEnds[e] = Quadratic(b, s)[e] + ends[e]
    BY <1>4 DEF ByVariable, ByCoupling
<1> HIDE DEF a, shared, ends, withEnds
<1>9. \A v \in V : a[v] * s[v] \in Int /\ h[v] * s[v] \in Int /\ shared[v] \in Int /\ h[v] * s[v] = a[v] * s[v] + shared[v]
    <2> TAKE v \in V
    <2> DEFINE p == ShareOf(b, v)
    <2>1. a[v] \in Int /\ p \in Int /\ h[v] = a[v] + p /\ s[v] \in {-1, 1} /\ shared[v] = s[v] * p
        BY <1>2, <1>5, <1>8
    <2> HIDE DEF p
    <2>2. CASE s[v] = 1 BY <2>1, <2>2
    <2>3. CASE s[v] = -1 BY <2>1, <2>3
    <2>4. QED BY <2>1, <2>2, <2>3
<1>10. \A e \in D : /\ Quadratic(b, s)[e] \in Int /\ ends[e] \in Int /\ withEnds[e] \in Int
                   /\ Quadratic(two, x)[e] = withEnds[e] + b[e]
    <2> TAKE e \in D
    <2>1. s[e[1]] \in {-1, 1} /\ s[e[2]] \in {-1, 1} /\ b[e] \in Int
        BY <1>3
    <2>2. b[e] * s[e[1]] * s[e[2]] \in Int /\ b[e] * s[e[1]] \in Int /\ b[e] * s[e[2]] \in Int
        BY <2>1
    <2>3. Quadratic(b, s)[e] \in Int /\ ends[e] \in Int /\ withEnds[e] \in Int
        BY <1>7, <1>8, <2>2
    <2>4. Quadratic(two, x)[e] = withEnds[e] + b[e]
        BY <1>3, <1>7, <1>8
    <2>5. QED BY <2>3, <2>4
<1>11. SumOf(Linear(ones, x)) = SumOf(Linear(a, s)) + SumOf(a)
    <2>1. /\ IsFiniteSet(DOMAIN Linear(a, s)) /\ DOMAIN a = DOMAIN Linear(a, s) /\ DOMAIN Linear(ones, x) = DOMAIN Linear(a, s)
          /\ \A i \in DOMAIN Linear(a, s) : Linear(a, s)[i] \in Int /\ a[i] \in Int /\ Linear(ones, x)[i] = Linear(a, s)[i] + a[i]
        BY <1>2, <1>6, <1>9
    <2>2. QED BY <2>1, SumAdd
<1>12. SumOf(ones) = 2 * SumOf(a)
    <2>1. IsFiniteSet(DOMAIN a) /\ DOMAIN ones = DOMAIN a /\ \A v \in DOMAIN a : a[v] \in Int /\ ones[v] = 2 * a[v]
        BY <1>2, <1>6
    <2>2. QED BY <2>1, SumScaled
<1>13. SumOf(Linear(h, s)) = SumOf(Linear(a, s)) + SumOf(shared)
    <2>1. /\ IsFiniteSet(DOMAIN Linear(a, s)) /\ DOMAIN shared = DOMAIN Linear(a, s) /\ DOMAIN Linear(h, s) = DOMAIN Linear(a, s)
          /\ \A i \in DOMAIN Linear(a, s) : Linear(a, s)[i] \in Int /\ shared[i] \in Int /\ Linear(h, s)[i] = Linear(a, s)[i] + shared[i]
        BY <1>6, <1>8, <1>9
    <2>2. QED BY <2>1, SumAdd
<1>14. SumOf(shared) = SumOf(ends)
    <2>1. \A e \in DOMAIN b : e \in V \X V /\ e[1] # e[2] /\ b[e] \in Int
        BY <1>3, <1>4
    <2>2. IsFiniteSet(DOMAIN b) /\ \A v \in V : s[v] \in Int
        BY <1>2, <1>4
    <2>3. QED BY <2>1, <2>2, SharesAre DEF shared, ends
<1>15. SumOf(withEnds) = SumOf(Quadratic(b, s)) + SumOf(ends)
    <2>1. /\ IsFiniteSet(DOMAIN Quadratic(b, s)) /\ DOMAIN ends = DOMAIN Quadratic(b, s) /\ DOMAIN withEnds = DOMAIN Quadratic(b, s)
          /\ \A i \in DOMAIN Quadratic(b, s) : Quadratic(b, s)[i] \in Int /\ ends[i] \in Int /\ withEnds[i] = Quadratic(b, s)[i] + ends[i]
        BY <1>7, <1>8, <1>10
    <2>2. QED BY <2>1, SumAdd
<1>16. SumOf(Quadratic(two, x)) = SumOf(withEnds) + SumOf(b)
    <2>1. /\ IsFiniteSet(DOMAIN withEnds) /\ DOMAIN b = DOMAIN withEnds /\ DOMAIN Quadratic(two, x) = DOMAIN withEnds
          /\ \A i \in DOMAIN withEnds : withEnds[i] \in Int /\ b[i] \in Int /\ Quadratic(two, x)[i] = withEnds[i] + b[i]
        BY <1>3, <1>4, <1>7, <1>8, <1>10
    <2>2. QED BY <2>1, SumAdd
<1>17. SumOf(two) = 4 * SumOf(b)
    <2>1. DOMAIN two = DOMAIN b /\ IsFiniteSet(DOMAIN b) /\ \A e \in DOMAIN b : b[e] \in Int /\ two[e] = 4 * b[e]
        BY <1>3, <1>4
    <2>2. QED BY <2>1, SumScaled
<1>18. /\ SumOf(Linear(a, s)) \in Int /\ SumOf(a) \in Int /\ SumOf(shared) \in Int
       /\ SumOf(ends) \in Int /\ SumOf(Quadratic(b, s)) \in Int /\ SumOf(b) \in Int
    <2>1. SumOf(Linear(a, s)) \in Int /\ SumOf(a) \in Int /\ SumOf(shared) \in Int
        <3>1. \A v \in V : Linear(a, s)[v] \in Int /\ a[v] \in Int /\ shared[v] \in Int
            BY <1>2, <1>6, <1>9
        <3>2. QED BY <1>6, <1>8, <3>1, SumInt
    <2>2. SumOf(ends) \in Int /\ SumOf(Quadratic(b, s)) \in Int /\ SumOf(b) \in Int
        <3>1. \A e \in D : ends[e] \in Int /\ Quadratic(b, s)[e] \in Int /\ b[e] \in Int
            BY <1>3, <1>10
        <3>2. QED BY <1>4, <1>7, <1>8, <3>1, SumInt
    <2>3. QED BY <2>1, <2>2
<1>19. SumOf(ones) \div 2 = SumOf(a) /\ SumOf(two) \div 4 = SumOf(b)
    BY <1>12, <1>17, <1>18
<1>20. QED BY <1>11, <1>13, <1>14, <1>15, <1>16, <1>18, <1>19 DEF b, h

\* The fields of all variables of a model as spins, and its energy as spins.
FieldsOf(model) == [v \in Variables(model) |-> At0(IsingCoefficients(model).h, v)]
SpinEnergy(model, s) ==
    SumOf(Linear(FieldsOf(model), s)) + SumOf(Quadratic(IsingCoefficients(model).j, s)) + IsingCoefficients(model).offset

\* A sample of a model that stands for the spins of its variables.
StandsFor(model, x, s) ==
    \A v \in Variables(model) : /\ s[v] \in {-1, 1}
                                /\ x[v] = IF model.domain = "binary" THEN (s[v] + 1) \div 2 ELSE s[v]

\* The coefficients of a model are on finitely many variables and pairs.
LEMMA ModelFinite ==
    ASSUME NEW model, IsModel(model)
    PROVE  /\ IsFiniteSet(Variables(model)) /\ IsFiniteSet(DOMAIN model.lin) /\ IsFiniteSet(DOMAIN model.quad)
           /\ Variables(model) = DOMAIN model.lin \cup Ends(DOMAIN model.quad)
           /\ \A e \in DOMAIN model.quad : /\ e \in Variables(model) \X Variables(model)
                                           /\ e = <<e[1], e[2]>> /\ model.quad[e] \in Int
           /\ \A v \in DOMAIN model.lin : model.lin[v] \in Int
<1> DEFINE all == 0..(model.size - 1)
           lin == model.lin
           quad == model.quad
<1>1. IsFiniteSet(all)
    BY FS_Interval DEF IsModel
<1>2. /\ DOMAIN lin \subseteq all /\ \A e \in DOMAIN quad : e \in all \X all /\ e[1] <= e[2] /\ quad[e] \in Int
      /\ \A v \in DOMAIN lin : lin[v] \in Int
    BY DEF IsModel
<1>3. model.domain \in {"binary", "spin"}
    BY DEF IsModel
<1> HIDE DEF all
<1>4. Variables(model) = DOMAIN lin \cup Ends(DOMAIN quad)
    <2>1. CASE model.domain = "spin"
        BY <2>1 DEF Variables, Couplings, IsingCoefficients
    <2>2. CASE model.domain # "spin"
        <3>1. DOMAIN IsingCoefficients(model).h = DOMAIN lin \cup Ends(DOMAIN quad)
              /\ Couplings(model) \subseteq DOMAIN quad
            BY <2>2 DEF IsingCoefficients, Couplings, Between
        <3>2. QED BY <3>1 DEF Variables, Ends
    <2>3. QED BY <2>1, <2>2
<1>5. DOMAIN quad \subseteq all \X all /\ IsFiniteSet(all \X all)
    BY <1>1, <1>2, FS_Product
<1>6. Ends(DOMAIN quad) \subseteq all
    BY <1>2 DEF Ends
<1>7. Variables(model) \subseteq all
    BY <1>2, <1>4, <1>6
<1>8. \A e \in DOMAIN quad : e[1] \in Ends(DOMAIN quad) /\ e[2] \in Ends(DOMAIN quad) /\ e = <<e[1], e[2]>>
    BY <1>2 DEF Ends
<1>9. \A e \in DOMAIN quad : e \in Variables(model) \X Variables(model)
    BY <1>4, <1>8
<1>10. IsFiniteSet(Variables(model)) /\ IsFiniteSet(DOMAIN lin) /\ IsFiniteSet(DOMAIN quad)
    BY <1>1, <1>2, <1>5, <1>7, FS_Subset
<1>11. QED BY <1>2, <1>4, <1>8, <1>9, <1>10

\* Where the energy of a sample comes from.
LEMMA EnergyOf ==
    ASSUME NEW model, NEW x
    PROVE  ModelEnergy(model, x) = SumOf(Linear(model.lin, x)) + SumOf(Quadratic(model.quad, x))
BY DEF ModelEnergy, Total, SumOf, Linear, Quadratic

\* A spin model is what it is.
LEMMA SpinIs ==
    ASSUME NEW model, IsModel(model), model.domain = "spin", NEW s, NEW x, StandsFor(model, x, s)
    PROVE  ModelEnergy(model, x) = SpinEnergy(model, s) /\ IsingCoefficients(model).offset \in Int
<1> DEFINE V == Variables(model)
           lin == model.lin
           quad == model.quad
           f == Linear(FieldsOf(model), s)
           h == Linear(lin, x)
<1>1. /\ IsFiniteSet(V) /\ DOMAIN lin \subseteq V /\ \A v \in DOMAIN lin : lin[v] \in Int
      /\ \A e \in DOMAIN quad : e[1] \in V /\ e[2] \in V
    BY ModelFinite
<1>2. IsingCoefficients(model).h = lin /\ IsingCoefficients(model).j = quad /\ IsingCoefficients(model).offset = 0
    BY DEF IsingCoefficients
<1>3. \A v \in V : s[v] \in {-1, 1} /\ x[v] = s[v]
    BY DEF StandsFor
<1>4. DOMAIN f = V /\ \A v \in V : f[v] = At0(lin, v) * s[v]
    BY <1>2 DEF Linear, FieldsOf
<1>5. DOMAIN h = DOMAIN lin /\ \A v \in DOMAIN lin : h[v] = lin[v] * x[v]
    BY DEF Linear
<1> HIDE DEF f, h
<1>6. SumOf(f) = SumOf(h)
    <2>1. \A v \in DOMAIN lin : f[v] \in Int /\ h[v] = f[v]
        <3> SUFFICES ASSUME NEW v \in DOMAIN lin PROVE f[v] \in Int /\ h[v] = f[v]
            OBVIOUS
        <3>1. v \in V /\ At0(lin, v) = lin[v] /\ lin[v] \in Int
            BY <1>1 DEF At0
        <3>2. f[v] = lin[v] * s[v] /\ h[v] = lin[v] * s[v] /\ s[v] \in Int
            BY <1>3, <1>4, <1>5, <3>1
        <3>3. QED BY <3>1, <3>2
    <2>2. \A v \in V \ DOMAIN lin : f[v] = 0
        <3> SUFFICES ASSUME NEW v \in V, v \notin DOMAIN lin PROVE f[v] = 0
            OBVIOUS
        <3>1. f[v] = 0 * s[v] /\ s[v] \in Int
            BY <1>3, <1>4 DEF At0
        <3>2. QED BY <3>1
    <2>3. \A v \in V : f[v] \in Int
        BY <2>1, <2>2
    <2>4. /\ IsFiniteSet(DOMAIN f) /\ DOMAIN h \subseteq DOMAIN f
          /\ \A v \in DOMAIN f : f[v] \in Int
          /\ \A v \in DOMAIN h : h[v] = f[v]
          /\ \A v \in DOMAIN f \ DOMAIN h : f[v] = 0
        BY <1>1, <1>4, <1>5, <2>1, <2>2, <2>3
    <2>5. QED BY <2>4, SumWithin
<1>7. Quadratic(quad, x) = Quadratic(quad, s)
    <2>1. \A e \in DOMAIN quad : quad[e] * x[e[1]] * x[e[2]] = quad[e] * s[e[1]] * s[e[2]]
        BY <1>1, <1>3
    <2>2. QED BY <2>1 DEF Quadratic
<1>8. SumOf(h) \in Int /\ SumOf(Quadratic(quad, s)) \in Int
    <2>1. \A e \in DOMAIN quad : quad[e] \in Int /\ s[e[1]] \in Int /\ s[e[2]] \in Int
        BY <1>1, <1>3, ModelFinite
    <2>2. DOMAIN Quadratic(quad, s) = DOMAIN quad
          /\ \A e \in DOMAIN quad : Quadratic(quad, s)[e] = quad[e] * s[e[1]] * s[e[2]]
        BY DEF Quadratic
    <2>3. \A e \in DOMAIN quad : quad[e] * s[e[1]] * s[e[2]] \in Int
        BY <2>1
    <2>4. SumOf(Quadratic(quad, s)) \in Int
        BY <2>2, <2>3, SumInt, ModelFinite
    <2>5. \A v \in DOMAIN lin : h[v] \in Int
        <3> SUFFICES ASSUME NEW v \in DOMAIN lin PROVE h[v] \in Int
            OBVIOUS
        <3>1. v \in V /\ lin[v] \in Int /\ h[v] = lin[v] * x[v]
            BY <1>1, <1>5
        <3>2. x[v] \in Int
            BY <1>3, <3>1
        <3>3. QED BY <3>1, <3>2
    <2>6. SumOf(h) \in Int
        BY <1>5, <2>5, SumInt, ModelFinite
    <2>7. QED BY <2>4, <2>6
<1>9. SpinEnergy(model, s) = SumOf(f) + SumOf(Quadratic(quad, s)) + 0
    BY <1>2 DEF SpinEnergy, f
<1>10. ModelEnergy(model, x) = SumOf(h) + SumOf(Quadratic(quad, x))
    BY EnergyOf DEF h
<1>11. QED BY <1>2, <1>6, <1>7, <1>8, <1>9, <1>10

\* A binary model keeps its energy when its bits become spins.
LEMMA BinaryIs ==
    ASSUME NEW model, IsModel(model), model.domain = "binary", NEW s, NEW x, StandsFor(model, x, s)
    PROVE  ModelEnergy(model, x) = SpinEnergy(model, s) /\ IsingCoefficients(model).offset \in Int
<1> DEFINE V == Variables(model)
           lin == model.lin
           quad == model.quad
           ising == IsingCoefficients(model)
           ones == [v \in V |-> At0(lin, v) + At0(quad, <<v, v>>)]
           two == [e \in Between(DOMAIN quad) |-> quad[e]]
           b == Quarters(two)
           h == FieldsFrom(ones, two)
           given == [v \in V |-> At0(lin, v) * x[v]]
           diagonal == Loops(quad, x, V)
           pairs == Proper(quad, x)
<1>1. /\ IsFiniteSet(V) /\ IsFiniteSet(DOMAIN quad) /\ V = DOMAIN lin \cup Ends(DOMAIN quad)
      /\ \A v \in DOMAIN lin : lin[v] \in Int
      /\ \A e \in DOMAIN quad : e \in V \X V /\ e[1] \in V /\ e[2] \in V /\ quad[e] \in Int
    BY ModelFinite
<1>2. /\ \A v \in DOMAIN lin : lin[v] % 4 = 0
      /\ \A e \in DOMAIN quad : quad[e] % 4 = 0
    BY DEF IsModel, Milli
<1>3. \A v \in V : s[v] \in {-1, 1} /\ x[v] = (s[v] + 1) \div 2 /\ x[v] \in {0, 1}
    BY DEF StandsFor
<1>4. /\ ising.j = b /\ ising.offset = SumOf(ones) \div 2 + SumOf(two) \div 4
      /\ ising.h = h
    <2>1. DOMAIN b = DOMAIN two /\ \A e \in DOMAIN two : b[e] = two[e] \div 4
        BY DEF Quarters
    <2> DEFINE total(v) == SumOf([e \in Touching(two, v) |-> two[e] \div 4])
    <2>2. /\ ising.h = [v \in DOMAIN ones |-> ones[v] \div 2 + total(v)]
          /\ ising.j = [e \in DOMAIN two |-> two[e] \div 4]
          /\ ising.offset = SumOf(ones) \div 2 + SumOf(two) \div 4
        BY <1>1 DEF IsingCoefficients, Total, SumOf
    <2>3. \A v \in V : total(v) = ShareOf(b, v)
        <3> TAKE v \in V
        <3>1. Touching(two, v) = Touching(b, v) /\ Touching(two, v) \subseteq DOMAIN two
            BY <2>1 DEF Touching
        <3>2. [e \in Touching(two, v) |-> two[e] \div 4] = [e \in Touching(b, v) |-> b[e]]
            BY <2>1, <3>1
        <3>3. QED BY <3>2 DEF ShareOf
    <2>4. DOMAIN ones = V
        OBVIOUS
    <2> HIDE DEF total, two, ising, ones
    <2>5. ising.h = h
        BY <2>2, <2>3, <2>4 DEF FieldsFrom
    <2>6. QED BY <2>2, <2>5 DEF Quarters
<1>5. \A v \in V : /\ At0(lin, v) \in Int /\ At0(lin, v) % 4 = 0
                   /\ At0(quad, <<v, v>>) \in Int /\ At0(quad, <<v, v>>) % 4 = 0
    BY <1>1, <1>2 DEF At0
<1>6. DOMAIN ones = V /\ \A v \in V : ones[v] = At0(lin, v) + At0(quad, <<v, v>>) /\ ones[v] \in Int /\ ones[v] % 4 = 0
    <2>1. DOMAIN ones = V /\ \A v \in V : ones[v] = At0(lin, v) + At0(quad, <<v, v>>)
        OBVIOUS
    <2>2. ASSUME NEW c \in Int, NEW d \in Int, c % 4 = 0, d % 4 = 0 PROVE c + d \in Int /\ (c + d) % 4 = 0
        BY <2>2
    <2> HIDE DEF ones
    <2>3. QED BY <1>5, <2>1, <2>2
<1>7. /\ DOMAIN two = Between(DOMAIN quad) /\ DOMAIN two \subseteq DOMAIN quad /\ IsFiniteSet(DOMAIN two)
      /\ \A e \in DOMAIN two : two[e] = quad[e] /\ e \in V \X V /\ e[1] # e[2] /\ two[e] \in Int /\ two[e] % 4 = 0
    <2>1. DOMAIN two \subseteq DOMAIN quad /\ DOMAIN two = Between(DOMAIN quad)
        BY DEF Between
    <2>2. \A e \in DOMAIN two : e \in DOMAIN quad /\ e[1] # e[2] /\ two[e] = quad[e]
        BY DEF Between
    <2> HIDE DEF two
    <2>3. IsFiniteSet(DOMAIN two)
        BY <1>1, <2>1, FS_Subset
    <2>4. QED BY <1>1, <1>2, <2>1, <2>2, <2>3
<1>8. DOMAIN h = V
    BY <1>6 DEF FieldsFrom
<1>9. DOMAIN given = V /\ DOMAIN diagonal = V
      /\ \A v \in V : given[v] = At0(lin, v) * x[v] /\ diagonal[v] = At0(quad, <<v, v>>) * x[v]
    BY DEF Loops
<1>10. pairs = Quadratic(two, x)
    BY <1>7 DEF Quadratic, Proper
<1> HIDE DEF ones, two, b, h, V, ising
<1>11. SumOf(Linear(ones, x)) + SumOf(Quadratic(two, x))
          = SumOf(Linear(h, s)) + SumOf(Quadratic(b, s)) + (SumOf(ones) \div 2 + SumOf(two) \div 4)
    <2>1. IsFiniteSet(DOMAIN ones) /\ \A v \in DOMAIN ones : ones[v] \in Int /\ ones[v] % 4 = 0
        BY <1>1, <1>6
    <2>2. \A e \in DOMAIN two : /\ e \in (DOMAIN ones) \X (DOMAIN ones) /\ e[1] # e[2]
                                /\ two[e] \in Int /\ two[e] % 4 = 0
        BY <1>6, <1>7
    <2>3. /\ \A v \in DOMAIN ones : s[v] \in {-1, 1}
          /\ \A v \in DOMAIN ones : x[v] = (s[v] + 1) \div 2
        BY <1>3, <1>6
    <2>4. QED BY <1>7, <2>1, <2>2, <2>3, ChangeIs DEF b, h
<1>12. SumOf(Quadratic(quad, x)) = SumOf(pairs) + SumOf(diagonal)
    <2>1. /\ IsFiniteSet(V) /\ IsFiniteSet(DOMAIN quad) /\ \A v \in V : x[v] \in {0, 1}
          /\ \A e \in DOMAIN quad : e \in V \X V /\ quad[e] \in Int
        BY <1>1, <1>3
    <2>2. QED BY <2>1, LoopsApart DEF pairs, diagonal
<1> HIDE DEF given, diagonal, pairs
<1>13. /\ \A v \in V : /\ given[v] \in Int /\ diagonal[v] \in Int
                       /\ Linear(ones, x)[v] = given[v] + diagonal[v]
       /\ DOMAIN Linear(ones, x) = V
    <2>1. DOMAIN Linear(ones, x) = V /\ \A v \in V : Linear(ones, x)[v] = ones[v] * x[v]
        BY <1>6 DEF Linear
    <2>2. ASSUME NEW v \in V
          PROVE  given[v] \in Int /\ diagonal[v] \in Int /\ Linear(ones, x)[v] = given[v] + diagonal[v]
        <3> DEFINE c == At0(lin, v)
                   d == At0(quad, <<v, v>>)
        <3>1. /\ x[v] \in {0, 1} /\ c \in Int /\ d \in Int /\ given[v] = c * x[v] /\ diagonal[v] = d * x[v]
              /\ Linear(ones, x)[v] = (c + d) * x[v]
            BY <1>3, <1>5, <1>6, <1>9, <2>1
        <3> HIDE DEF c, d
        <3>2. CASE x[v] = 0
            BY <3>1, <3>2
        <3>3. CASE x[v] = 1
            BY <3>1, <3>3
        <3>4. QED BY <3>1, <3>2, <3>3
    <2>3. QED BY <2>1, <2>2
<1>14. SumOf(Linear(ones, x)) = SumOf(given) + SumOf(diagonal)
    BY <1>1, <1>9, <1>13, SumAdd
<1>15. SumOf(given) = SumOf(Linear(lin, x))
    <2>1. DOMAIN Linear(lin, x) = DOMAIN lin /\ \A v \in DOMAIN lin : Linear(lin, x)[v] = lin[v] * x[v]
        BY DEF Linear
    <2>2. \A v \in DOMAIN lin : v \in V /\ Linear(lin, x)[v] = given[v]
        BY <1>1, <1>9, <2>1 DEF At0
    <2>3. \A v \in V \ DOMAIN lin : given[v] = 0
        <3> SUFFICES ASSUME NEW v \in V, v \notin DOMAIN lin PROVE given[v] = 0
            OBVIOUS
        <3>1. given[v] = 0 * x[v] /\ x[v] \in {0, 1}
            BY <1>3, <1>9 DEF At0
        <3>2. QED BY <3>1
    <2>4. /\ DOMAIN Linear(lin, x) \subseteq DOMAIN given /\ IsFiniteSet(DOMAIN given)
          /\ \A v \in DOMAIN given : given[v] \in Int
          /\ \A v \in DOMAIN Linear(lin, x) : Linear(lin, x)[v] = given[v]
          /\ \A v \in DOMAIN given \ DOMAIN Linear(lin, x) : given[v] = 0
        BY <1>1, <1>9, <1>13, <2>1, <2>2, <2>3
    <2>5. QED BY <2>4, SumWithin
<1>16. ModelEnergy(model, x) = SumOf(Linear(lin, x)) + SumOf(Quadratic(quad, x))
    BY EnergyOf
<1>17. SpinEnergy(model, s) = SumOf(Linear(h, s)) + SumOf(Quadratic(b, s)) + (SumOf(ones) \div 2 + SumOf(two) \div 4)
    <2>1. h = [v \in V |-> h[v]]
        BY <1>6 DEF h, FieldsFrom
    <2>2. FieldsOf(model) = [v \in V |-> At0(h, v)]
        BY <1>4 DEF FieldsOf, V, ising
    <2>3. FieldsOf(model) = h
        BY <1>8, <2>1, <2>2 DEF At0
    <2>4. QED BY <1>4, <2>3 DEF SpinEnergy, ising
<1>18. /\ SumOf(given) \in Int /\ SumOf(diagonal) \in Int /\ SumOf(pairs) \in Int /\ SumOf(ones) \in Int /\ SumOf(two) \in Int
    <2>1. SumOf(given) \in Int /\ SumOf(diagonal) \in Int
        BY <1>1, <1>9, <1>13, SumInt
    <2>2. SumOf(ones) \in Int /\ SumOf(two) \in Int
        BY <1>1, <1>6, <1>7, SumInt
    <2>3. DOMAIN Quadratic(two, x) = DOMAIN two /\ \A e \in DOMAIN two : Quadratic(two, x)[e] \in Int
        <3>1. DOMAIN Quadratic(two, x) = DOMAIN two
              /\ \A e \in DOMAIN two : Quadratic(two, x)[e] = two[e] * x[e[1]] * x[e[2]]
            BY DEF Quadratic
        <3>2. \A e \in DOMAIN two : two[e] \in Int /\ x[e[1]] \in {0, 1} /\ x[e[2]] \in {0, 1}
            BY <1>3, <1>7
        <3>3. QED BY <3>1, <3>2
    <2>4. SumOf(pairs) \in Int
        BY <1>7, <1>10, <2>3, SumInt
    <2>5. QED BY <2>1, <2>2, <2>4
<1>19. ising.offset \in Int
    BY <1>4, <1>18
<1>20. ModelEnergy(model, x) = SumOf(Linear(ones, x)) + SumOf(Quadratic(two, x))
    BY <1>10, <1>12, <1>14, <1>15, <1>16, <1>18
<1>21. QED BY <1>11, <1>17, <1>19, <1>20 DEF ising

-----------------------------------------------------------------------------
(* A job and its vectors. *)

\* Rounding is off by what is called its error, and by nothing at 0.
LEMMA RoundingIs ==
    ASSUME NEW n \in Int
    PROVE  /\ RoundMilli(n) \in Int /\ RoundingError(n) \in Nat
           /\ -RoundingError(n) <= 4 * RoundMilli(n) - n /\ 4 * RoundMilli(n) - n <= RoundingError(n)
           /\ RoundMilli(0) = 0 /\ RoundingError(0) = 0
<1> DEFINE r == RoundMilli(n)
<1>1. r \in Int
    BY RoundIs
<1>2. RoundMilli(0) = 0
    BY DEF RoundMilli, Milli
<1>3. RoundingError(0) = 0
    BY <1>2 DEF RoundingError, Abs, Milli
<1> HIDE DEF r
<1>4. RoundingError(n) = IF n - 4 * r < 0 THEN -(n - 4 * r) ELSE n - 4 * r
    BY DEF RoundingError, Abs, Milli, r
<1>5. RoundingError(n) \in Nat /\ -RoundingError(n) <= 4 * r - n /\ 4 * r - n <= RoundingError(n)
    BY <1>1, <1>4
<1>6. QED BY <1>1, <1>2, <1>3, <1>5 DEF r

\* Every node and every edge has a place of its own, and every place has one.
LEMMA PositionsAre ==
    ASSUME NEW placed, JobShape(placed)
    PROVE  LET top == placed.top
               at(e) == EdgeIndex(top, e[1], e[2])
           IN /\ \A a \in top.nodes : IndexOf(top, a) \in 1..Cardinality(top.nodes)
              /\ \A a, b \in top.nodes : IndexOf(top, a) = IndexOf(top, b) => a = b
              /\ \A p \in 1..Cardinality(top.nodes) : \E a \in top.nodes : IndexOf(top, a) = p
              /\ \A e \in top.edges : at(e) \in 1..Cardinality(top.edges)
              /\ \A e, f \in top.edges : at(e) = at(f) => e = f
              /\ \A p \in 1..Cardinality(top.edges) : \E e \in top.edges : at(e) = p
<1> DEFINE top == placed.top
           n == Cardinality(top.nodes)
           k == Cardinality(top.edges)
           q == NodesOf(placed)
           r == EdgesOf(placed)
           at(e) == EdgeIndex(top, e[1], e[2])
<1>1. /\ ToSet(q) = top.nodes /\ q \in [1..n -> top.nodes] /\ \A p \in 1..n : IndexOf(top, q[p]) = p
    BY NodesAre
<1>2. /\ ToSet(r) = top.edges /\ r \in [1..k -> top.edges] /\ \A p \in 1..k : at(r[p]) = p
    BY EdgesAre
<1> HIDE DEF q, r, n, k, at
<1>3. \A a \in top.nodes : \E p \in 1..n : q[p] = a
    BY <1>1 DEF ToSet
<1>4. \A e \in top.edges : \E p \in 1..k : r[p] = e
    BY <1>2 DEF ToSet
<1>5. /\ \A a \in top.nodes : IndexOf(top, a) \in 1..n
      /\ \A a, b \in top.nodes : IndexOf(top, a) = IndexOf(top, b) => a = b
      /\ \A p \in 1..n : \E a \in top.nodes : IndexOf(top, a) = p
    BY <1>1, <1>3
<1>6. /\ \A e \in top.edges : at(e) \in 1..k
      /\ \A e, f \in top.edges : at(e) = at(f) => e = f
      /\ \A p \in 1..k : \E e \in top.edges : at(e) = p
    BY <1>2, <1>4
<1>7. QED BY <1>5, <1>6 DEF n, k, at

\* A job is the model placed on nodes of their own.
JobOf(model, placed) ==
    /\ HasTerms(model)
    /\ \E at : /\ DOMAIN at = Variables(model) /\ \A v \in DOMAIN at : at[v] \in Int
               /\ \A v, w \in DOMAIN at : v # w => at[v] # at[w]
               /\ placed = ModelToIsing(model, at)

\* The error of a job is the largest of its roundings.
LEMMA ErrorIs ==
    ASSUME NEW model, IsModel(model), NEW placed, JobOf(model, placed),
           NEW h, h = IsingCoefficients(model).h, NEW j, j = IsingCoefficients(model).j
    PROVE  /\ placed.error \in Nat
           /\ \A v \in Variables(model) : At0(h, v) \in Int /\ RoundingError(At0(h, v)) <= placed.error
           /\ \A e \in DOMAIN j : j[e] \in Int /\ RoundingError(j[e]) <= placed.error
<1> DEFINE fields == {h[v] : v \in DOMAIN h}
           couplings == {j[e] : e \in DOMAIN j}
           coefficients == fields \cup couplings
           errors == {RoundingError(c) : c \in coefficients}
<1>1. placed.error = Max(errors)
    BY DEF JobOf, ModelToIsing
<1>2. /\ \A v \in DOMAIN h : h[v] \in Int
      /\ \A e \in DOMAIN j : j[e] \in Int
    BY CoefficientsAre
<1>3. IsFiniteSet(DOMAIN h) /\ IsFiniteSet(DOMAIN j)
    <2>1. DOMAIN h \subseteq Variables(model) /\ DOMAIN j \subseteq DOMAIN model.quad
        BY DEF Variables, IsingCoefficients, Between
    <2>2. QED BY <2>1, ModelFinite, FS_Subset
<1>4. coefficients \subseteq Int /\ IsFiniteSet(coefficients)
    <2>1. IsFiniteSet(fields) /\ IsFiniteSet(couplings)
        BY <1>3, ValuesFinite
    <2>2. coefficients \subseteq Int
        BY <1>2
    <2> HIDE DEF fields, couplings
    <2>3. QED BY <2>1, <2>2, FS_Union
<1>5. coefficients # {}
    <2>1. DOMAIN h # {} \/ DOMAIN j # {}
        <3>1. DOMAIN model.lin # {} \/ DOMAIN model.quad # {}
            BY DEF JobOf, HasTerms
        <3>2. CASE model.domain = "spin"
            BY <3>1, <3>2 DEF IsingCoefficients
        <3>3. CASE model.domain # "spin"
            <4>1. DOMAIN h = DOMAIN model.lin \cup Ends(DOMAIN model.quad)
                BY <3>3 DEF IsingCoefficients
            <4>2. DOMAIN model.quad # {} => Ends(DOMAIN model.quad) # {}
                BY SMTT(60) DEF Ends
            <4>3. QED BY <3>1, <4>1, <4>2
        <3>4. QED BY <3>2, <3>3
    <2>2. QED BY <2>1
<1>6. \A c \in coefficients : RoundingError(c) \in errors
    OBVIOUS
<1>7. errors \subseteq Int /\ IsFiniteSet(errors) /\ errors # {} /\ \A d \in errors : d \in Nat
    <2>1. \A c \in coefficients : RoundingError(c) \in Nat
        BY <1>4, RoundingIs
    <2> DEFINE g == [c \in coefficients |-> RoundingError(c)]
    <2>2. g \in Surjection(coefficients, errors)
        BY DEF Surjection
    <2>3. IsFiniteSet(errors)
        <3> HIDE DEF g, errors, coefficients
        <3>1. QED BY <1>4, <2>2, FS_Surjection
    <2> HIDE DEF coefficients
    <2>4. errors \subseteq Nat /\ errors # {}
        BY <1>5, <2>1
    <2>5. QED BY <2>3, <2>4
<1> HIDE DEF errors
<1>8. placed.error \in errors /\ \A d \in errors : d <= placed.error
    BY <1>1, <1>7, MaxIs
<1>9. \A v \in DOMAIN h : h[v] \in coefficients
    OBVIOUS
<1>10. \A e \in DOMAIN j : j[e] \in coefficients
    OBVIOUS
<1> HIDE DEF coefficients
<1>11. placed.error \in Nat
    BY <1>7, <1>8
<1>12. \A v \in Variables(model) : At0(h, v) \in Int /\ RoundingError(At0(h, v)) <= placed.error
    <2> TAKE v \in Variables(model)
    <2>1. CASE v \in DOMAIN h
        <3>1. At0(h, v) = h[v] /\ h[v] \in Int /\ RoundingError(h[v]) \in errors
            BY <1>2, <1>6, <1>9, <2>1 DEF At0
        <3>2. QED BY <1>8, <3>1
    <2>2. CASE v \notin DOMAIN h
        <3>1. At0(h, v) = 0 /\ RoundingError(0) = 0
            BY <2>2, RoundingIs DEF At0
        <3>2. QED BY <1>11, <3>1
    <2>3. QED BY <2>1, <2>2
<1>13. \A e \in DOMAIN j : j[e] \in Int /\ RoundingError(j[e]) <= placed.error
    BY <1>2, <1>6, <1>8, <1>10
<1>14. QED BY <1>11, <1>12, <1>13

\* The spins that a vector gives to the variables of a placed model, and the
\* coefficients as they are rounded.
SpinsOf(placed, at, spins) == [v \in DOMAIN at |-> spins[IndexOf(placed.top, at[v])]]
Rounded(f) == [i \in DOMAIN f |-> RoundMilli(f[i])]

\* The same edge of two couplings is the same coupling.
LEMMA EdgeOnce ==
    ASSUME NEW V, V \subseteq Int, NEW at, \A v \in V : at[v] \in Int, \A v, w \in V : v # w => at[v] # at[w],
           NEW e \in V \X V, e[1] <= e[2], NEW f \in V \X V, f[1] <= f[2],
           Edge(at[e[1]], at[e[2]]) = Edge(at[f[1]], at[f[2]])
    PROVE  e = f
<1> DEFINE a == e[1]
           b == e[2]
           c == f[1]
           d == f[2]
<1>1. a \in V /\ b \in V /\ c \in V /\ d \in V /\ e = <<a, b>> /\ f = <<c, d>>
    OBVIOUS
<1>2. a <= b /\ c <= d
    OBVIOUS
<1>3. Edge(at[a], at[b]) = Edge(at[c], at[d])
    OBVIOUS
<1>4. (at[a] = at[c] /\ at[b] = at[d]) \/ (at[a] = at[d] /\ at[b] = at[c])
    BY <1>3 DEF Edge
<1> HIDE DEF a, b, c, d
<1>5. (a = c /\ b = d) \/ (a = d /\ b = c)
    BY <1>1, <1>4
<1>6. a \in Int /\ b \in Int /\ c \in Int /\ d \in Int
    BY <1>1
<1>7. a = c /\ b = d
    BY <1>2, <1>5, <1>6
<1>8. QED BY <1>1, <1>7

\* The places of the variables in a job, and the edges of its couplings.
PlaceOf(placed, at) == [v \in DOMAIN at |-> IndexOf(placed.top, at[v])]
EdgeOf(j, at) == [e \in DOMAIN j |-> Edge(at[e[1]], at[e[2]])]

\* The nodes and the edges of a job are those of the variables and couplings
\* that are placed there, and carry their coefficients.
Carries(model, at, placed) ==
    LET j == IsingCoefficients(model).j
        place == PlaceOf(placed, at)
        edge == EdgeOf(j, at)
    IN /\ place \in Bijection(DOMAIN at, DOMAIN placed.h)
       /\ \A v \in DOMAIN at : placed.h[place[v]] = RoundMilli(FieldsOf(model)[v])
       /\ edge \in Bijection(DOMAIN j, placed.top.edges)
       /\ \A e \in DOMAIN j : placed.j[EdgeIndex(placed.top, edge[e][1], edge[e][2])] = RoundMilli(j[e])

\* Every placed model does.
LEMMA PlacesAre ==
    ASSUME case \in DOMAIN Cases, NEW at, DOMAIN at = Variables(C.model), \A v \in DOMAIN at : at[v] \in Int,
           \A v, w \in DOMAIN at : v # w => at[v] # at[w]
    PROVE  Carries(C.model, at, ModelToIsing(C.model, at))
<1> DEFINE m == C.model
           placed == ModelToIsing(m, at)
           ising == IsingCoefficients(m)
           h == ising.h
           j == ising.j
           place == PlaceOf(placed, at)
           edge == EdgeOf(j, at)
           V == Variables(m)
           top == placed.top
           image(e) == <<at[e[1]], at[e[2]]>>
           nodeOf(p) == CHOOSE v \in DOMAIN at : IndexOf(placed.top, at[v]) = p
           edgeOf(p) == CHOOSE e \in DOMAIN ising.j : EdgeIndex(placed.top, image(e)[1], image(e)[2]) = p
           field(p) == IF nodeOf(p) \in DOMAIN ising.h THEN ising.h[nodeOf(p)] ELSE 0
           n == Cardinality(placed.top.nodes)
           k == Cardinality(placed.top.edges)
           pos(e) == EdgeIndex(placed.top, e[1], e[2])
<1>1. /\ placed.h = [p \in 1..n |-> RoundMilli(field(p))]
      /\ placed.j = [p \in 1..k |-> RoundMilli(ising.j[edgeOf(p)])]
      /\ placed.top = TopologyOf({at[v] : v \in DOMAIN at}, {image(e) : e \in DOMAIN ising.j})
    BY DEF ModelToIsing
<1>2. JobShape(placed)
    BY ShapeIs
<1>3. /\ DOMAIN place = DOMAIN at /\ \A v \in DOMAIN at : place[v] = IndexOf(top, at[v])
      /\ DOMAIN edge = DOMAIN j /\ \A e \in DOMAIN j : edge[e] = Edge(at[e[1]], at[e[2]])
    BY DEF PlaceOf, EdgeOf
<1> HIDE DEF placed, ising, place, edge
<1>4. top.nodes = {at[v] : v \in DOMAIN at}
    <2> DEFINE pairs == {image(e) : e \in DOMAIN ising.j}
    <2>1. placed.top = TopologyOf({at[v] : v \in DOMAIN at}, pairs)
        BY <1>1
    <2> HIDE DEF pairs
    <2>2. QED BY <2>1 DEF TopologyOf
<1>5. top.edges = {edge[e] : e \in DOMAIN j}
    <2> DEFINE pairs == {image(e) : e \in DOMAIN j}
    <2>1. top = TopologyOf({at[v] : v \in DOMAIN at}, pairs)
        BY <1>1
    <2>2. \A e \in DOMAIN j : image(e) \in pairs /\ edge[e] = Edge(image(e)[1], image(e)[2])
        BY <1>3
    <2>3. \A p \in pairs : \E e \in DOMAIN j : p = image(e)
        OBVIOUS
    <2> HIDE DEF pairs, image
    <2>4. top.edges = {Edge(p[1], p[2]) : p \in pairs}
        BY <2>1 DEF TopologyOf
    <2>5. \A x \in top.edges : \E e \in DOMAIN j : x = edge[e]
        <3> TAKE x \in top.edges
        <3>1. PICK p \in pairs : x = Edge(p[1], p[2])
            BY <2>4
        <3>2. PICK e \in DOMAIN j : p = image(e)
            BY <2>3
        <3>3. QED BY <2>2, <3>1, <3>2
    <2>6. \A e \in DOMAIN j : edge[e] \in top.edges
        BY <2>2, <2>4
    <2>7. QED BY <2>5, <2>6
<1>6. /\ \A a \in top.nodes : IndexOf(top, a) \in 1..n
      /\ \A a, b \in top.nodes : IndexOf(top, a) = IndexOf(top, b) => a = b
      /\ \A p \in 1..n : \E a \in top.nodes : IndexOf(top, a) = p
      /\ \A e \in top.edges : pos(e) \in 1..k
      /\ \A e, f \in top.edges : pos(e) = pos(f) => e = f
    BY <1>2, PositionsAre
<1>7. V \subseteq Int /\ \A e \in DOMAIN j : e \in V \X V /\ e[1] <= e[2]
    <2>1. V \subseteq Int /\ GoodCouplings(V, Couplings(m)) /\ DOMAIN j = Couplings(m)
        BY ModelIs DEF Couplings, ising
    <2> HIDE DEF m, V
    <2>2. QED BY <2>1 DEF GoodCouplings
<1>8. \A v \in V : at[v] \in top.nodes /\ place[v] = IndexOf(top, at[v]) /\ place[v] \in 1..n
    BY <1>6, <1>3, <1>4
<1>9. \A v, w \in V : place[v] = place[w] => v = w
    BY <1>6, <1>8
<1>10. \A v \in V : nodeOf(place[v]) = v
    <2> TAKE v \in V
    <2>1. IndexOf(top, at[v]) = place[v] /\ \A w \in V : IndexOf(top, at[w]) = place[v] => w = v
        BY <1>8, <1>9
    <2>2. QED BY <2>1
<1>11. \A e \in top.edges : Edge(e[1], e[2]) = e
    <2> TAKE e \in top.edges
    <2>1. e[1] \in Int /\ e[2] \in Int /\ e = <<e[1], e[2]>> /\ e[1] <= e[2]
        BY <1>2 DEF JobShape, GoodGraph
    <2>2. QED BY <2>1 DEF Edge
<1>12. \A e \in DOMAIN j : /\ edge[e] = Edge(at[e[1]], at[e[2]]) /\ edge[e] \in top.edges
                           /\ EdgeIndex(top, image(e)[1], image(e)[2]) = pos(edge[e])
    <2> TAKE e \in DOMAIN j
    <2>1. edge[e] = Edge(at[e[1]], at[e[2]]) /\ edge[e] \in top.edges
        BY <1>5, <1>3
    <2>2. Edge(edge[e][1], edge[e][2]) = edge[e]
        BY <1>11, <2>1
    <2>3. Edge(image(e)[1], image(e)[2]) = edge[e]
        BY <2>1
    <2>4. QED BY <2>1, <2>2, <2>3 DEF EdgeIndex
<1>13. \A e, f \in DOMAIN j : edge[e] = edge[f] => e = f
    <2> SUFFICES ASSUME NEW e \in DOMAIN j, NEW f \in DOMAIN j, edge[e] = edge[f] PROVE e = f
        OBVIOUS
    <2>1. Edge(at[e[1]], at[e[2]]) = Edge(at[f[1]], at[f[2]])
        BY <1>3
    <2>2. \A v \in V : at[v] \in Int
        OBVIOUS
    <2>3. \A v, w \in V : v # w => at[v] # at[w]
        OBVIOUS
    <2>4. QED BY <1>7, <2>1, <2>2, <2>3, EdgeOnce
<1>14. \A e, f \in DOMAIN j : pos(edge[e]) = pos(edge[f]) => e = f
    <2> HIDE DEF pos
    <2> QED BY <1>6, <1>12, <1>13
<1>15. \A e \in DOMAIN j : edgeOf(pos(edge[e])) = e
    <2> TAKE e \in DOMAIN j
    <2>1. /\ EdgeIndex(top, image(e)[1], image(e)[2]) = pos(edge[e])
          /\ \A f \in DOMAIN j : EdgeIndex(top, image(f)[1], image(f)[2]) = pos(edge[e]) => f = e
        <3> HIDE DEF pos, image
        <3> QED BY <1>12, <1>14
    <2> HIDE DEF pos, image
    <2>2. QED BY <2>1
<1> HIDE DEF edgeOf, pos, image, n, k, V
<1>16. DOMAIN placed.h = 1..n /\ DOMAIN at = V
    BY <1>1 DEF V
<1>17. place \in Bijection(DOMAIN at, DOMAIN placed.h)
    <2>1. place \in [V -> 1..n]
        <3>1. place = [v \in V |-> place[v]]
            BY <1>16 DEF place, PlaceOf
        <3>2. QED BY <1>8, <1>16, <3>1
    <2>2. \A p \in 1..n : \E v \in V : place[v] = p
        BY <1>6, <1>8, <1>16, <1>4
    <2>3. QED BY <1>9, <1>16, <2>1, <2>2 DEF Bijection, Injection, Surjection, IsInjective
<1>18. edge \in Bijection(DOMAIN j, top.edges)
    <2>1. edge \in [DOMAIN j -> top.edges]
        <3>1. edge = [e \in DOMAIN j |-> edge[e]]
            BY DEF edge, EdgeOf
        <3>2. QED BY <1>12, <3>1
    <2>2. \A x \in top.edges : \E e \in DOMAIN j : edge[e] = x
        BY <1>5
    <2>3. QED BY <1>13, <2>1, <2>2 DEF Bijection, Injection, Surjection, IsInjective
<1>19. \A v \in V : placed.h[place[v]] = RoundMilli(FieldsOf(m)[v])
    <2> TAKE v \in V
    <2> DEFINE p == place[v]
    <2>1. placed.h[p] = RoundMilli(field(p))
        <3>1. p \in 1..n
            BY <1>8
        <3> HIDE DEF field, p
        <3>2. QED BY <1>1, <3>1
    <2>2. field(p) = IF v \in DOMAIN h THEN h[v] ELSE 0
        <3>1. nodeOf(p) = v
            BY <1>10
        <3> HIDE DEF nodeOf
        <3>2. QED BY <3>1
    <2>3. FieldsOf(m)[v] = IF v \in DOMAIN h THEN h[v] ELSE 0
        BY DEF FieldsOf, At0, V, ising
    <2> HIDE DEF field, h, m
    <2>4. QED BY <2>1, <2>2, <2>3
<1>20. \A e \in DOMAIN j : placed.j[pos(edge[e])] = RoundMilli(j[e])
    <2> TAKE e \in DOMAIN j
    <2>1. pos(edge[e]) \in 1..k
        BY <1>6, <1>12
    <2>2. placed.j[pos(edge[e])] = RoundMilli(j[edgeOf(pos(edge[e]))])
        BY <1>1, <2>1
    <2>3. QED BY <1>15, <2>2
<1>21. QED BY <1>16, <1>17, <1>18, <1>19, <1>20 DEF pos, Carries, placed, ising, place, edge

\* Rounding moves a sum of signed coefficients by no more than their errors.
LEMMA RoundedSum ==
    ASSUME NEW f, IsFiniteSet(DOMAIN f), NEW error \in Nat,
           \A i \in DOMAIN f : f[i] \in Int /\ RoundingError(f[i]) <= error,
           NEW t, \A i \in DOMAIN f : t[i] \in {-1, 1}
    PROVE  /\ SumOf(Linear(f, t)) \in Int /\ SumOf(Linear(Rounded(f), t)) \in Int
           /\ 4 * SumOf(Linear(Rounded(f), t)) - SumOf(Linear(f, t)) <= Cardinality(DOMAIN f) * error
           /\ -(Cardinality(DOMAIN f) * error) <= 4 * SumOf(Linear(Rounded(f), t)) - SumOf(Linear(f, t))
<1> DEFINE D == DOMAIN f
           exact == Linear(f, t)
           near == Linear(Rounded(f), t)
           scaled == [i \in D |-> 4 * near[i]]
           off == [i \in D |-> scaled[i] - exact[i]]
<1>1. /\ DOMAIN exact = D /\ DOMAIN near = D /\ \A i \in D : exact[i] = f[i] * t[i] /\ near[i] = RoundMilli(f[i]) * t[i]
    BY DEF Linear, Rounded
<1>2. /\ DOMAIN scaled = D /\ DOMAIN off = D
      /\ \A i \in D : scaled[i] = 4 * near[i] /\ off[i] = scaled[i] - exact[i]
    OBVIOUS
<1> HIDE DEF exact, near, scaled, off
<1>3. \A i \in D : /\ exact[i] \in Int /\ near[i] \in Int /\ scaled[i] \in Int /\ off[i] \in Int
                   /\ scaled[i] = exact[i] + off[i] /\ -error <= off[i] /\ off[i] <= error
    <2> TAKE i \in D
    <2> DEFINE c == f[i]
               r == RoundMilli(c)
               d == RoundingError(c)
    <2>1. /\ c \in Int /\ r \in Int /\ d \in Nat /\ d <= error /\ -d <= 4 * r - c /\ 4 * r - c <= d
        BY RoundingIs
    <2>2. exact[i] = c * t[i] /\ near[i] = r * t[i] /\ t[i] \in {-1, 1}
        BY <1>1
    <2> HIDE DEF c, r, d
    <2>3. CASE t[i] = 1
        <3>1. exact[i] = c /\ near[i] = r
            BY <2>1, <2>2, <2>3
        <3>2. QED BY <1>2, <2>1, <3>1
    <2>4. CASE t[i] = -1
        <3>1. exact[i] = -c /\ near[i] = -r
            BY <2>1, <2>2, <2>4
        <3>2. QED BY <1>2, <2>1, <3>1
    <2>5. QED BY <2>2, <2>3, <2>4
<1>4. SumOf(scaled) = SumOf(exact) + SumOf(off)
    BY <1>1, <1>2, <1>3, SumAdd
<1>5. SumOf(scaled) = 4 * SumOf(near)
    BY <1>1, <1>2, <1>3, SumScaled
<1>6. -(Cardinality(D) * error) <= SumOf(off) /\ SumOf(off) <= Cardinality(D) * error
    <2>1. IsFiniteSet(DOMAIN off) /\ \A i \in DOMAIN off : off[i] \in Int /\ -error <= off[i] /\ off[i] <= error
        BY <1>2, <1>3
    <2>2. QED BY <1>2, <2>1, SumBounded
<1>7. SumOf(exact) \in Int /\ SumOf(near) \in Int /\ SumOf(off) \in Int
    BY <1>1, <1>2, <1>3, SumInt
<1>8. 4 * SumOf(near) - SumOf(exact) = SumOf(off)
    BY <1>4, <1>5, <1>7
<1>9. QED BY <1>6, <1>7, <1>8 DEF exact, near

\* A coupling counts with the product of two spins.
Signs(D, s) == [e \in D |-> s[e[1]] * s[e[2]]]

\* So a quadratic sum is a linear one.
LEMMA QuadraticIs ==
    ASSUME NEW j, \A e \in DOMAIN j : j[e] \in Int, NEW s, \A e \in DOMAIN j : s[e[1]] \in {-1, 1} /\ s[e[2]] \in {-1, 1}
    PROVE  /\ Quadratic(j, s) = Linear(j, Signs(DOMAIN j, s))
           /\ \A e \in DOMAIN j : Signs(DOMAIN j, s)[e] \in {-1, 1}
<1>1. \A e \in DOMAIN j : j[e] * s[e[1]] * s[e[2]] = j[e] * Signs(DOMAIN j, s)[e] /\ Signs(DOMAIN j, s)[e] \in {-1, 1}
    <2> TAKE e \in DOMAIN j
    <2> DEFINE p == s[e[1]]
               q == s[e[2]]
               c == j[e]
    <2>1. p \in {-1, 1} /\ q \in {-1, 1} /\ c \in Int /\ Signs(DOMAIN j, s)[e] = p * q
        BY DEF Signs
    <2> HIDE DEF p, q, c
    <2>2. c * p * q = c * (p * q) /\ p * q \in {-1, 1}
        <3>1. CASE p = 1 BY <2>1, <3>1
        <3>2. CASE p = -1 BY <2>1, <3>2
        <3>3. QED BY <2>1, <3>1, <3>2
    <2>3. QED BY <2>1, <2>2 DEF p, q, c
<1>2. QED BY <1>1 DEF Quadratic, Linear

\* The energy of a job is that of its model as spins, rounded.
LEMMA JobEnergyIs ==
    ASSUME case \in DOMAIN Cases, NEW at, DOMAIN at = Variables(C.model), \A v \in DOMAIN at : at[v] \in Int,
           \A v, w \in DOMAIN at : v # w => at[v] # at[w],
           NEW placed, placed = ModelToIsing(C.model, at), NEW j, j = IsingCoefficients(C.model).j,
           NEW spins \in Vectors(placed), NEW s, s = SpinsOf(placed, at, spins)
    PROVE  /\ IsingEnergyMilli(placed, spins)
                = SumOf(Linear(Rounded(FieldsOf(C.model)), s)) + SumOf(Quadratic(Rounded(j), s))
           /\ \A v \in DOMAIN at : s[v] \in {-1, 1}
           /\ Cardinality(DOMAIN placed.h) = Cardinality(DOMAIN at)
           /\ Cardinality(DOMAIN placed.j) = Cardinality(DOMAIN j)
<1> DEFINE m == C.model
           V == Variables(m)
           top == placed.top
           n == Cardinality(top.nodes)
           k == Cardinality(top.edges)
           place == PlaceOf(placed, at)
           edge == EdgeOf(j, at)
           pos(e) == EdgeIndex(top, e[1], e[2])
           near == Linear(Rounded(FieldsOf(m)), s)
           pairs == Quadratic(Rounded(j), s)
           F == [p \in DOMAIN placed.h |-> placed.h[p] * spins[p]]
           G == [e \in top.edges |-> placed.j[pos(e)] * spins[IndexOf(top, e[1])] * spins[IndexOf(top, e[2])]]
<1>1. /\ place \in Bijection(DOMAIN at, DOMAIN placed.h)
      /\ \A v \in DOMAIN at : placed.h[place[v]] = RoundMilli(FieldsOf(m)[v])
      /\ edge \in Bijection(DOMAIN j, top.edges)
      /\ \A e \in DOMAIN j : placed.j[pos(edge[e])] = RoundMilli(j[e])
    BY PlacesAre DEF Carries
<1>2. JobOK(placed)
    BY JobIs
<1>3. /\ placed.h \in [1..n -> Int] /\ placed.j \in [1..k -> Int] /\ spins \in [1..n -> {-1, 1}]
      /\ IsFiniteSet(top.edges) /\ IsFiniteSet(top.nodes) /\ top.edges \subseteq top.nodes \X top.nodes
    BY <1>2 DEF JobOK, JobShape, GoodGraph, Vectors
<1>4. /\ \A a \in top.nodes : IndexOf(top, a) \in 1..n
      /\ \A e \in top.edges : pos(e) \in 1..k
    BY <1>2, PositionsAre DEF JobOK
<1>5. /\ \A v \in V : place[v] = IndexOf(top, at[v]) /\ s[v] = spins[IndexOf(top, at[v])] /\ at[v] \in top.nodes
      /\ \A e \in DOMAIN j : edge[e] = Edge(at[e[1]], at[e[2]])
      /\ DOMAIN place = V
    <2>1. \A v \in V : at[v] \in top.nodes
        BY DEF ModelToIsing, TopologyOf
    <2>2. QED BY <2>1 DEF PlaceOf, EdgeOf, SpinsOf
<1>6. \A v \in V : s[v] \in {-1, 1}
    BY <1>3, <1>4, <1>5
<1>7. IsFiniteSet(V) /\ IsFiniteSet(DOMAIN j) /\ \A e \in DOMAIN j : e[1] \in V /\ e[2] \in V
    <2>1. IsModel(m)
        BY PlacedOrderAssumption DEF C, IsCase
    <2>2. GoodCouplings(V, Couplings(m)) /\ DOMAIN j = Couplings(m) /\ DOMAIN j \subseteq DOMAIN m.quad
        BY ModelIs DEF Couplings, IsingCoefficients, Between
    <2> HIDE DEF m, V
    <2>3. QED BY <2>1, <2>2, ModelFinite, FS_Subset DEF GoodCouplings, V
<1>8. n \in Nat /\ k \in Nat /\ IsFiniteSet(1..n) /\ Cardinality(1..n) = n /\ IsFiniteSet(1..k) /\ Cardinality(1..k) = k
    <2>1. n \in Nat /\ k \in Nat
        BY <1>3, FS_CardinalityType
    <2> HIDE DEF n, k
    <2>2. QED BY <2>1, FirstNumbers
<1> HIDE DEF place, edge, pos, n, k, m, V
<1>9. DOMAIN placed.h = 1..n /\ DOMAIN placed.j = 1..k /\ DOMAIN at = V
    BY <1>3 DEF V, m
<1>10. IsingEnergyMilli(placed, spins) = SumOf(F) + SumOf(G)
    BY DEF IsingEnergyMilli, Total, SumOf, pos
<1>11. DOMAIN F = 1..n /\ \A p \in 1..n : F[p] = placed.h[p] * spins[p] /\ F[p] \in Int
    <2>1. DOMAIN F = 1..n /\ \A p \in 1..n : F[p] = placed.h[p] * spins[p]
        BY <1>9
    <2>2. \A p \in 1..n : placed.h[p] \in Int /\ spins[p] \in {-1, 1}
        BY <1>3
    <2> HIDE DEF F
    <2>3. QED BY <2>1, <2>2
<1>12. DOMAIN G = top.edges
       /\ \A e \in top.edges : /\ G[e] = placed.j[pos(e)] * spins[IndexOf(top, e[1])] * spins[IndexOf(top, e[2])]
                               /\ G[e] \in Int
    <2>1. \A e \in top.edges : G[e] = placed.j[pos(e)] * spins[IndexOf(top, e[1])] * spins[IndexOf(top, e[2])]
        OBVIOUS
    <2>2. \A e \in top.edges : /\ placed.j[pos(e)] \in Int /\ spins[IndexOf(top, e[1])] \in {-1, 1}
                               /\ spins[IndexOf(top, e[2])] \in {-1, 1}
        BY <1>3, <1>4
    <2>3. DOMAIN G = top.edges
        OBVIOUS
    <2> HIDE DEF G
    <2>4. QED BY <2>1, <2>2, <2>3
<1>13. DOMAIN near = V /\ \A v \in V : near[v] = RoundMilli(FieldsOf(m)[v]) * s[v]
    BY DEF Linear, Rounded, FieldsOf, V
<1>14. DOMAIN pairs = DOMAIN j /\ \A e \in DOMAIN j : pairs[e] = RoundMilli(j[e]) * s[e[1]] * s[e[2]]
    BY DEF Quadratic, Rounded
<1> HIDE DEF F, G, near, pairs
<1>15. SumOf(near) = SumOf(F)
    <2>1. \A v \in V : near[v] = F[place[v]]
        <3> TAKE v \in V
        <3>1. place[v] \in 1..n /\ spins[place[v]] = s[v] /\ placed.h[place[v]] = RoundMilli(FieldsOf(m)[v])
            BY <1>1, <1>4, <1>5, <1>9
        <3>2. QED BY <1>11, <1>13, <3>1
    <2>2. /\ IsFiniteSet(DOMAIN near) /\ IsFiniteSet(DOMAIN F) /\ place \in Bijection(DOMAIN near, DOMAIN F)
          /\ \A p \in DOMAIN F : F[p] \in Int
          /\ \A v \in DOMAIN near : near[v] = F[place[v]]
        BY <1>1, <1>7, <1>8, <1>9, <1>11, <1>13, <2>1
    <2>3. QED BY <2>2, SumRenamed
<1>16. SumOf(pairs) = SumOf(G)
    <2>1. \A e \in DOMAIN j : pairs[e] = G[edge[e]]
        <3> TAKE e \in DOMAIN j
        <3> DEFINE x == edge[e]
                   p == spins[IndexOf(top, at[e[1]])]
                   q == spins[IndexOf(top, at[e[2]])]
                   c == RoundMilli(j[e])
        <3>1. x \in top.edges
            BY <1>1 DEF Bijection, Injection
        <3>2. e[1] \in V /\ e[2] \in V
            BY <1>7
        <3>3. s[e[1]] = p /\ s[e[2]] = q /\ p \in {-1, 1} /\ q \in {-1, 1}
            BY <1>5, <1>6, <3>2
        <3>4. pairs[e] = c * p * q
            BY <1>14, <3>3
        <3>5. G[x] = c * spins[IndexOf(top, x[1])] * spins[IndexOf(top, x[2])] /\ c \in Int
            <4>1. placed.j[pos(x)] = c /\ pos(x) \in 1..k
                BY <1>1, <1>4, <3>1
            <4> HIDE DEF c, x
            <4>2. c \in Int
                BY <1>3, <4>1
            <4>3. QED BY <1>12, <3>1, <4>1, <4>2
        <3>6. x = <<at[e[1]], at[e[2]]>> \/ x = <<at[e[2]], at[e[1]]>>
            BY <1>5 DEF Edge
        <3>7. G[x] = c * p * q \/ G[x] = c * q * p
            <4> HIDE DEF x, c
            <4>1. QED BY <3>5, <3>6
        <3> HIDE DEF x, c, p, q
        <3>8. c * p * q = c * q * p
            <4>1. CASE p = 1 BY <3>3, <3>5, <4>1
            <4>2. CASE p = -1 BY <3>3, <3>5, <4>2
            <4>3. QED BY <3>3, <4>1, <4>2
        <3>9. QED BY <3>4, <3>7, <3>8 DEF x
    <2>2. /\ IsFiniteSet(DOMAIN pairs) /\ IsFiniteSet(DOMAIN G) /\ edge \in Bijection(DOMAIN pairs, DOMAIN G)
          /\ \A e \in DOMAIN G : G[e] \in Int
          /\ \A e \in DOMAIN pairs : pairs[e] = G[edge[e]]
        BY <1>1, <1>3, <1>7, <1>12, <1>14, <2>1
    <2>3. QED BY <2>2, SumRenamed
<1>17. Cardinality(DOMAIN placed.h) = Cardinality(DOMAIN at) /\ Cardinality(DOMAIN placed.j) = Cardinality(DOMAIN j)
    <2>1. Cardinality(DOMAIN at) = Cardinality(DOMAIN placed.h)
        BY <1>1, <1>7, <1>8, <1>9, FS_Bijection DEF ExistsBijection
    <2>2. Cardinality(DOMAIN j) = Cardinality(top.edges)
        BY <1>1, <1>3, <1>7, FS_Bijection DEF ExistsBijection
    <2>3. Cardinality(DOMAIN placed.j) = k
        BY <1>8, <1>9
    <2>4. QED BY <2>1, <2>2, <2>3 DEF k
<1>18. QED BY <1>6, <1>9, <1>10, <1>15, <1>16, <1>17 DEF near, pairs, m

\* The vectors of a job decode one by one, with an energy that is the model's
\* up to the offset and the roundings.
LEMMA EncodingIs ==
    ASSUME case \in DOMAIN Cases, NEW placed, JobOf(C.model, placed), NEW spins \in Vectors(placed),
           NEW terms, terms = Cardinality(DOMAIN placed.h) + Cardinality(DOMAIN placed.j),
           NEW i, i = IsingEnergyMilli(placed, spins), NEW energy, energy = SampleEnergy(C.model, placed, spins)
    PROVE  /\ i \in Int /\ energy \in Int /\ placed.offset \in Int /\ terms \in Nat /\ placed.error \in Nat
           /\ Abs(4 * i + placed.offset - energy) <= terms * placed.error
<1>1. PICK at : /\ DOMAIN at = Variables(C.model) /\ \A v \in DOMAIN at : at[v] \in Int
                /\ \A v, w \in DOMAIN at : v # w => at[v] # at[w]
                /\ placed = ModelToIsing(C.model, at)
    BY DEF JobOf
<1> DEFINE m == C.model
           V == Variables(m)
           ising == IsingCoefficients(m)
           h == FieldsOf(m)
           j == ising.j
           s == SpinsOf(placed, at, spins)
           x == DecodeSolution(m, placed, spins)
           error == placed.error
           t == Signs(DOMAIN j, s)
           p == SumOf(Linear(h, s))
           q == SumOf(Quadratic(j, s))
           P == SumOf(Linear(Rounded(h), s))
           Q == SumOf(Quadratic(Rounded(j), s))
           a == Cardinality(V)
           b == Cardinality(DOMAIN j)
<1>2. IsModel(m)
    BY PlacedOrderAssumption DEF C, IsCase
<1>3. /\ i = P + Q /\ \A v \in V : s[v] \in {-1, 1}
      /\ terms = a + b
    BY <1>1, JobEnergyIs
<1>4. placed.mapping = at /\ placed.offset = ising.offset
    BY <1>1 DEF ModelToIsing
<1>5. /\ error \in Nat
      /\ \A v \in V : h[v] \in Int /\ RoundingError(h[v]) <= error
      /\ \A e \in DOMAIN j : j[e] \in Int /\ RoundingError(j[e]) <= error
    <2>1. \A v \in V : h[v] = At0(ising.h, v)
        BY DEF FieldsOf
    <2> HIDE DEF h
    <2>2. QED BY <1>2, <2>1, ErrorIs
<1>6. /\ IsFiniteSet(V) /\ IsFiniteSet(DOMAIN j) /\ \A e \in DOMAIN j : e[1] \in V /\ e[2] \in V
      /\ \A v \in V : v \in 0..(m.size - 1)
    <2>1. GoodCouplings(V, Couplings(m)) /\ DOMAIN j = Couplings(m) /\ DOMAIN j \subseteq DOMAIN m.quad
        BY ModelIs DEF Couplings, IsingCoefficients, Between
    <2>2. V = DOMAIN m.lin \cup Ends(DOMAIN m.quad)
        BY <1>2, ModelFinite
    <2>3. \A v \in V : v \in 0..(m.size - 1)
        BY <1>2, <2>2 DEF IsModel, Ends
    <2> HIDE DEF m, V, ising
    <2>4. QED BY <1>2, <2>1, <2>3, ModelFinite, FS_Subset DEF GoodCouplings, V
<1>7. StandsFor(m, x, s)
    <2> SUFFICES ASSUME NEW v \in V
                 PROVE  s[v] \in {-1, 1} /\ x[v] = IF m.domain = "binary" THEN (s[v] + 1) \div 2 ELSE s[v]
        BY DEF StandsFor
    <2>1. s[v] = spins[IndexOf(placed.top, placed.mapping[v])] /\ v \in DOMAIN placed.mapping
        BY <1>1, <1>4 DEF SpinsOf
    <2>2. v \in 0..(m.size - 1)
        BY <1>6
    <2>3. x[v] = IF m.domain = "binary" THEN (s[v] + 1) \div 2 ELSE s[v]
        <3> HIDE DEF m, s
        <3>1. QED BY <2>1, <2>2 DEF DecodeSolution
    <2>4. QED BY <1>3, <2>3
<1>8. ModelEnergy(m, x) = p + q + ising.offset /\ ising.offset \in Int
    <2>1. ModelEnergy(m, x) = SpinEnergy(m, s) /\ ising.offset \in Int
        <3>1. m.domain = "binary" \/ m.domain = "spin"
            BY <1>2 DEF IsModel
        <3> HIDE DEF m, s, x
        <3>2. QED BY <1>2, <1>7, <3>1, SpinIs, BinaryIs
    <2>2. QED BY <2>1 DEF SpinEnergy
<1>9. /\ p \in Int /\ P \in Int /\ 4 * P - p <= a * error /\ -(a * error) <= 4 * P - p
    <2>1. DOMAIN h = V
        BY DEF FieldsOf
    <2> HIDE DEF h, V, s, error
    <2>2. QED BY <1>3, <1>5, <1>6, <2>1, RoundedSum
<1>10. /\ q \in Int /\ Q \in Int /\ 4 * Q - q <= b * error /\ -(b * error) <= 4 * Q - q
    <2>1. \A e \in DOMAIN j : s[e[1]] \in {-1, 1} /\ s[e[2]] \in {-1, 1}
        BY <1>3, <1>6
    <2> HIDE DEF j, V, s, error
    <2>2. Quadratic(j, s) = Linear(j, t) /\ \A e \in DOMAIN j : t[e] \in {-1, 1}
        BY <1>5, <2>1, QuadraticIs
    <2>3. Quadratic(Rounded(j), s) = Linear(Rounded(j), t)
        <3>1. DOMAIN Rounded(j) = DOMAIN j /\ \A e \in DOMAIN j : Rounded(j)[e] \in Int
            BY <1>5, RoundIs DEF Rounded
        <3>2. QED BY <2>1, <3>1, QuadraticIs
    <2> HIDE DEF t
    <2>4. QED BY <1>5, <1>6, <2>2, <2>3, RoundedSum
<1>11. a \in Nat /\ b \in Nat
    BY <1>6, FS_CardinalityType
<1>12. energy = p + q + placed.offset /\ placed.offset \in Int
    BY <1>4, <1>8 DEF SampleEnergy
<1> HIDE DEF p, q, P, Q, a, b, error
<1>13. (a + b) * error = a * error + b * error /\ a * error \in Nat /\ b * error \in Nat
    BY <1>5, <1>11
<1>14. 4 * i + placed.offset - energy = (4 * P - p) + (4 * Q - q)
    BY <1>3, <1>9, <1>10, <1>12
<1>15. Abs(4 * i + placed.offset - energy) <= (a + b) * error
    <2> DEFINE d == 4 * i + placed.offset - energy
    <2>1. d \in Int /\ -((a + b) * error) <= d /\ d <= (a + b) * error
        BY <1>9, <1>10, <1>13, <1>14
    <2> HIDE DEF d
    <2>2. Abs(d) <= (a + b) * error
        BY <1>13, <2>1 DEF Abs
    <2>3. QED BY <2>2 DEF d
<1>16. i \in Int /\ energy \in Int
    BY <1>3, <1>9, <1>10, <1>12
<1>17. terms \in Nat /\ Abs(4 * i + placed.offset - energy) <= terms * error
    BY <1>3, <1>11, <1>15
<1>18. QED
    BY <1>5, <1>12, <1>16, <1>17 DEF error

\* There are finitely many vectors.
LEMMA VectorsFinite ==
    ASSUME NEW n \in Nat
    PROVE  IsFiniteSet([1..n -> {-1, 1}])
<1> DEFINE up == [v \in [1..n -> {-1, 1}] |-> {p \in 1..n : v[p] = 1}]
<1>1. up \in [[1..n -> {-1, 1}] -> SUBSET (1..n)]
    OBVIOUS
<1>2. ASSUME NEW u \in [1..n -> {-1, 1}], NEW v \in [1..n -> {-1, 1}], up[u] = up[v]
      PROVE  u = v
    <2>1. \A p \in 1..n : u[p] = 1 <=> v[p] = 1
        BY <1>2
    <2>2. \A p \in 1..n : u[p] = v[p]
        BY <2>1
    <2>3. QED BY <2>2
<1> HIDE DEF up
<1>3. up \in Injection([1..n -> {-1, 1}], SUBSET (1..n))
    BY <1>1, <1>2 DEF Injection, IsInjective
<1>4. IsFiniteSet(SUBSET (1..n))
    <2>1. IsFiniteSet(1..n)
        BY FS_Interval, n \in Int
    <2>2. QED BY <2>1, FS_SUBSET
<1>5. QED BY <1>3, <1>4, FS_Injection

\* No two vectors of a job decode alike: every node has a variable of its own.
LEMMA DecodesApart ==
    ASSUME case \in DOMAIN Cases, NEW placed, JobOf(C.model, placed)
    PROVE  Cardinality({DecodeSolution(C.model, placed, v) : v \in Vectors(placed)}) = Cardinality(Vectors(placed))
<1>1. PICK at : /\ DOMAIN at = Variables(C.model) /\ \A v \in DOMAIN at : at[v] \in Int
                /\ \A v, w \in DOMAIN at : v # w => at[v] # at[w]
                /\ placed = ModelToIsing(C.model, at)
    BY DEF JobOf
<1> DEFINE m == C.model
           V == Variables(m)
           n == Cardinality(placed.top.nodes)
           place == PlaceOf(placed, at)
           x(spins) == DecodeSolution(m, placed, spins)
           decode == [spins \in Vectors(placed) |-> x(spins)]
           all == {x(spins) : spins \in Vectors(placed)}
<1>2. IsModel(m)
    BY PlacedOrderAssumption DEF C, IsCase
<1>3. placed.mapping = at
    BY <1>1 DEF ModelToIsing
<1>4. JobOK(placed)
    BY <1>1, JobIs
<1>5. n \in Nat /\ DOMAIN placed.h = 1..n
    BY <1>4, FS_CardinalityType DEF JobOK, JobShape, GoodGraph
<1>6. \A p \in 1..n : \E v \in V : place[v] = p
    <2>1. place \in Bijection(V, 1..n)
        BY <1>1, <1>5, PlacesAre DEF Carries
    <2> HIDE DEF place, V, n
    <2>2. QED BY <2>1 DEF Bijection, Surjection
<1>7. V \subseteq 0..(m.size - 1)
    <2>1. Couplings(m) \subseteq DOMAIN m.quad
        BY DEF Couplings, IsingCoefficients, Between
    <2>2. V = DOMAIN m.lin \cup Ends(DOMAIN m.quad)
        BY <1>2, ModelFinite
    <2> HIDE DEF m, V
    <2>3. QED BY <1>2, <2>2 DEF IsModel, Ends
<1>8. ASSUME NEW u \in Vectors(placed), NEW w \in Vectors(placed), x(u) = x(w)
      PROVE  u = w
    <2>1. u \in [1..n -> {-1, 1}] /\ w \in [1..n -> {-1, 1}]
        BY DEF Vectors
    <2>2. ASSUME NEW p \in 1..n PROVE u[p] = w[p]
        <3>1. PICK v \in V : place[v] = p
            BY <1>6
        <3>2. IndexOf(placed.top, placed.mapping[v]) = p /\ v \in DOMAIN placed.mapping /\ v \in 0..(m.size - 1)
            BY <1>1, <1>3, <1>7, <3>1 DEF PlaceOf
        <3>3. /\ x(u)[v] = IF m.domain = "binary" THEN (u[p] + 1) \div 2 ELSE u[p]
              /\ x(w)[v] = IF m.domain = "binary" THEN (w[p] + 1) \div 2 ELSE w[p]
            <4> HIDE DEF m
            <4>1. QED BY <3>2 DEF DecodeSolution
        <3>4. u[p] \in {-1, 1} /\ w[p] \in {-1, 1}
            BY <2>1
        <3> DEFINE a == u[p]
                   b == w[p]
        <3>5. (IF m.domain = "binary" THEN (a + 1) \div 2 ELSE a) = (IF m.domain = "binary" THEN (b + 1) \div 2 ELSE b)
            BY <1>8, <3>3
        <3>6. a \in {-1, 1} /\ b \in {-1, 1}
            BY <3>4
        <3> HIDE DEF a, b, m
        <3>7. a = b
            BY <3>5, <3>6
        <3>8. QED BY <3>7 DEF a, b
    <2> HIDE DEF n
    <2>3. u = [p \in 1..n |-> u[p]] /\ w = [p \in 1..n |-> w[p]]
        BY <2>1
    <2>4. [p \in 1..n |-> u[p]] = [p \in 1..n |-> w[p]]
        BY <2>2
    <2>5. QED BY <2>3, <2>4
<1>9. IsFiniteSet(Vectors(placed))
    BY <1>5, VectorsFinite DEF Vectors
<1>10. decode \in Bijection(Vectors(placed), all)
    <2>1. decode \in [Vectors(placed) -> all] /\ \A d \in all : \E u \in Vectors(placed) : decode[u] = d
        OBVIOUS
    <2>2. \A u, w \in Vectors(placed) : decode[u] = decode[w] => u = w
        BY <1>8
    <2> HIDE DEF decode, all
    <2>3. QED BY <2>1, <2>2 DEF Bijection, Injection, Surjection, IsInjective
<1> HIDE DEF decode, all
<1>11. Cardinality(all) = Cardinality(Vectors(placed))
    BY <1>9, <1>10, FS_Bijection DEF ExistsBijection
<1>12. QED BY <1>11 DEF all

-----------------------------------------------------------------------------
(* The jobs of an order. *)

\* Floors that were refused were those of options that passed every other check.
HopelessMade ==
    hopeless.floors # {} => /\ OptionsOK(hopeless.options) /\ JobOf(C.model, hopeless.job)
                            /\ hopeless.floors = HopelessFloors(hopeless.options, hopeless.job)

\* A draft holds the model placed on nodes of its own, and nothing is sent
\* before the order is open.
DraftMade == HasJob \/ options # None => JobOf(C.model, job)
MadeInv ==
    /\ DraftMade /\ HopelessMade
    /\ state = "placing" => HasTerms(C.model)
    /\ state # "open" => posted = NotPosted

\* What a step that ends a call has to keep.
Makes == DraftMade' /\ HopelessMade' /\ state' \notin {"placing", "open"}

\* A call that raises changes neither.
LEMMA RaisedMakes ==
    ASSUME MadeInv, Raised, UNCHANGED <<case, hopeless>>
    PROVE  Makes
<1>1. C' = C
    BY DEF C
<1>2. HopelessMade'
    BY <1>1 DEF MadeInv, HopelessMade, OptionsOK
<1>3. QED BY <1>1, <1>2 DEF MadeInv, DraftMade, Raised, HasJob, Makes

\* A call that ends takes the job, or refuses its floors.
LEMMA FinishMakes ==
    ASSUME MadeInv, UNCHANGED case, NEW o, OptionsOK(o), NEW placed, JobOf(C.model, placed), Finish(o, placed)
    PROVE  Makes
<1>1. C' = C
    BY DEF C
<1>2. CASE HopelessFloors(o, placed) = {}
    <2>1. HopelessMade'
        BY <1>1, <1>2 DEF MadeInv, HopelessMade, OptionsOK, Finish
    <2>2. QED BY <1>1, <1>2, <2>1 DEF DraftMade, Finish, Makes
<1>3. CASE HopelessFloors(o, placed) # {}
    <2>1. /\ hopeless'.options = o /\ hopeless'.job = placed /\ hopeless'.floors = HopelessFloors(o, placed)
        BY <1>3 DEF Finish
    <2>2. HopelessMade'
        BY <1>1, <2>1 DEF HopelessMade, OptionsOK
    <2>3. /\ state' = IF options = None THEN "refused" ELSE "draft"
          /\ UNCHANGED <<options, job>>
        BY <1>3 DEF Finish
    <2>4. DraftMade'
        BY <1>1, <2>3 DEF MadeInv, DraftMade, HasJob
    <2>5. QED BY <2>2, <2>3, <2>4 DEF Makes
<1>4. QED BY <1>2, <1>3

\* A model with terms placed on nodes of their own becomes its job.
LEMMA EncodeMakes ==
    ASSUME MadeInv, UNCHANGED case, NEW o, OptionsOK(o), HasTerms(C.model),
           NEW at, DOMAIN at = Variables(C.model), \A v \in DOMAIN at : at[v] \in Int,
           \A v, w \in DOMAIN at : v # w => at[v] # at[w], Encode(o, at)
    PROVE  Makes
<1>1. PICK placed \in {ModelToIsing(C.model, at)} :
        IF Encodes(placed) THEN Finish(o, placed) ELSE Raised /\ UNCHANGED hopeless
    BY DEF Encode
<1>2. JobOf(C.model, placed)
    BY <1>1 DEF JobOf
<1>3. QED BY <1>1, <1>2, FinishMakes, RaisedMakes

\* The model is placed, or waits for a search.
LEMMA PlaceMakes ==
    ASSUME OrderInv, MadeInv, UNCHANGED <<case, posted>>, state # "open", NEW o, OptionsOK(o), Place(o)
    PROVE  MadeInv'
<1> DEFINE variables == Variables(C.model)
           couplings == Couplings(C.model)
           top == Registered[o.topology]
<1>1. case \in DOMAIN Cases /\ posted = NotPosted
    BY DEF OrderInv, MadeInv
<1>2. Makes => MadeInv'
    BY <1>1 DEF Makes, MadeInv
<1>3. CASE ~HasTerms(C.model) \/ (o.topology # Native /\ o.topology \notin DOMAIN Registered)
    <2>1. Raised /\ UNCHANGED hopeless
        BY <1>3 DEF Place
    <2>2. QED BY <1>2, <2>1, RaisedMakes
<1>4. CASE HasTerms(C.model) /\ o.topology = Native
    <2> DEFINE at == NativeMapping(C.model)
    <2>1. Encode(o, at) \/ (Raised /\ UNCHANGED hopeless)
        BY <1>4 DEF Place
    <2>2. DOMAIN at = variables /\ \A v \in DOMAIN at : at[v] \in Int
        BY <1>1, NativePlaces
    <2>3. \A v, w \in DOMAIN at : v # w => at[v] # at[w]
        BY <1>1, <2>2, ModelIs, NativeFits DEF MappingFits
    <2> HIDE DEF at
    <2>4. QED BY <1>2, <1>4, <2>1, <2>2, <2>3, EncodeMakes, RaisedMakes
<1>5. CASE HasTerms(C.model) /\ o.topology # Native /\ o.topology \in DOMAIN Registered /\ o.mapping # None
    <2> DEFINE at == [v \in variables |-> o.mapping[v]]
    <2>1. IF MappingFits(variables, couplings, top, o.mapping) THEN Encode(o, at)
          ELSE Raised /\ UNCHANGED hopeless
        BY <1>5 DEF Place
    <2>2. CASE MappingFits(variables, couplings, top, o.mapping)
        <3>1. /\ \A v \in variables : o.mapping[v] \in top.nodes
              /\ \A v, w \in variables : v # w => o.mapping[v] # o.mapping[w]
            BY <2>2 DEF MappingFits
        <3>2. /\ DOMAIN at = variables /\ \A v \in DOMAIN at : at[v] \in Int
              /\ \A v, w \in DOMAIN at : v # w => at[v] # at[w]
            BY <1>5, <3>1, PlacedOrderAssumption
        <3>3. Encode(o, at)
            BY <2>1, <2>2
        <3> HIDE DEF at
        <3>4. QED BY <1>2, <1>5, <3>2, <3>3, EncodeMakes
    <2>3. CASE ~MappingFits(variables, couplings, top, o.mapping)
        BY <1>2, <2>1, <2>3, RaisedMakes
    <2>4. QED BY <2>2, <2>3
<1>6. CASE HasTerms(C.model) /\ o.topology # Native /\ o.topology \in DOMAIN Registered /\ o.mapping = None
    <2>1. state' = "placing" /\ UNCHANGED <<options, job, hopeless>>
        BY <1>6 DEF Place
    <2>2. C' = C
        BY DEF C
    <2>3. DraftMade'
        BY <2>1, <2>2 DEF MadeInv, DraftMade, HasJob
    <2>4. HopelessMade'
        BY <2>1, <2>2 DEF MadeInv, HopelessMade, OptionsOK
    <2>5. QED BY <1>1, <1>6, <2>1, <2>2, <2>3, <2>4 DEF MadeInv
<1>7. QED BY <1>3, <1>4, <1>5, <1>6

\* create_order() makes a draft with its job, if any.
LEMMA CreateMakes ==
    ASSUME OrderInv, MadeInv, Create
    PROVE  MadeInv'
<1>1. UNCHANGED <<case, posted>> /\ state # "open"
    BY DEF Create, chainVars
<1>2. CASE \E o : OptionsOK(o) /\ Place(o)
    BY <1>1, <1>2, PlaceMakes
<1>3. CASE Raised /\ UNCHANGED hopeless
    BY <1>1, <1>3, RaisedMakes DEF MadeInv, Makes
<1>4. QED BY <1>2, <1>3, CreateChecks

\* set() keeps the job, or makes it again.
LEMMA SetMakes ==
    ASSUME OrderInv, TakenInv, MadeInv, Set
    PROVE  MadeInv'
<1>1. UNCHANGED <<case, posted>> /\ state = "draft"
    BY DEF Set, chainVars
<1>2. OptionsOK(options) /\ JobOf(C.model, job)
    BY <1>1 DEF TakenInv, DraftTaken, MadeInv, DraftMade, HasJob
<1>3. CASE \E o : OptionsOK(o) /\ (Place(o) \/ Finish(o, job))
    <2>1. PICK o : OptionsOK(o) /\ (Place(o) \/ Finish(o, job))
        BY <1>3
    <2>2. CASE Place(o)
        BY <1>1, <2>1, <2>2, PlaceMakes
    <2>3. CASE Finish(o, job)
        BY <1>1, <1>2, <2>1, <2>3, FinishMakes DEF MadeInv, Makes
    <2>4. QED BY <2>1, <2>2, <2>3
<1>4. CASE Raised /\ UNCHANGED hopeless
    BY <1>1, <1>4, RaisedMakes DEF MadeInv, Makes
<1>5. QED BY <1>2, <1>3, <1>4, SetChecks

\* The search gives every variable a node of its own.
LEMMA PlacedMakes ==
    ASSUME OrderInv, TakenInv, MadeInv, Placed
    PROVE  MadeInv'
<1> DEFINE variables == Variables(C.model)
           at == search.at
<1>1. /\ state = "placing" /\ UNCHANGED <<case, posted>>
      /\ IF search.result = "placed" THEN Encode(pending, at) ELSE Raised /\ UNCHANGED hopeless
    BY DEF Placed, chainVars
<1>2. /\ OptionsOK(pending) /\ HasTerms(C.model) /\ SearchInv /\ ToSet(search.order) = variables
    BY <1>1 DEF OrderInv, TakenInv, MadeInv, SearchesFor
<1>3. CASE search.result = "placed"
    <2>1. /\ DOMAIN at = variables /\ \A v \in variables : at[v] \in search.top.nodes
          /\ \A v, w \in variables : v # w => at[v] # at[w]
        BY <1>2, <1>3 DEF SearchInv, SearchIsRight, MappingFits
    <2>2. search.top.nodes \subseteq Int
        BY <1>2, <1>3 DEF SearchInv, SearchShape, GoodGraph, NoSearch
    <2>3. Encode(pending, at)
        BY <1>1, <1>3
    <2>4. Makes
        BY <1>1, <1>2, <2>1, <2>2, <2>3, EncodeMakes
    <2>5. QED BY <1>1, <2>4 DEF Makes, MadeInv
<1>4. CASE search.result # "placed"
    BY <1>1, <1>4, RaisedMakes DEF MadeInv, Makes
<1>5. QED BY <1>3, <1>4

\* The order is opened with the draft's job.
LEMMA ProposeMakes ==
    ASSUME OrderInv, TakenInv, MadeInv, Propose
    PROVE  MadeInv'
<1>1. OptionsOK(options) /\ JobOK(job) /\ options.resolution.variant \in Variants /\ JobOf(C.model, job)
    BY DEF Propose, TakenInv, DraftTaken, HasJob, MadeInv, DraftMade
<1>2. ChainTakes(CallParams(options, job), C.limits)
    BY <1>1, CallIsTaken
<1>3. state' = "open" /\ UNCHANGED <<case, options, job, hopeless>> /\ C' = C
    BY <1>2 DEF Propose, C
<1>4. DraftMade' /\ HopelessMade'
    BY <1>1, <1>3 DEF MadeInv, DraftMade, HopelessMade, OptionsOK
<1>5. QED BY <1>3, <1>4 DEF MadeInv

\* Nothing else touches the draft.
LEMMA OthersMake ==
    ASSUME MadeInv, Searching \/ Solve \/ ReadAnswers \/ ReadRanking \/ UNCHANGED vars
    PROVE  MadeInv'
<1>1. UNCHANGED <<case, state, options, job, hopeless, posted>> /\ C' = C
    BY DEF Searching, Solve, Answer, ReadAnswers, ReadRanking, vars, draftVars, chainVars, C
<1>2. DraftMade' /\ HopelessMade'
    BY <1>1 DEF MadeInv, DraftMade, HopelessMade, OptionsOK, HasJob
<1>3. QED BY <1>1, <1>2 DEF MadeInv

\* So every job of an order is its model, placed.
LEMMA MadeHolds == Spec => []MadeInv
<1>1. Init => MadeInv
    BY DEF Init, MadeInv, DraftMade, HopelessMade, HasJob, NoFloors
<1>2. OrderInv /\ TakenInv /\ MadeInv /\ [Next]_vars => MadeInv'
    BY CreateMakes, SetMakes, PlacedMakes, ProposeMakes, OthersMake DEF Next
<1>3. QED BY <1>1, <1>2, OrderHolds, TakenHolds, PTL DEF Spec

\* A vector stands for a sample of the model with its energy, up to the offset
\* and what the rounding of each coefficient adds, no two vectors for the same
\* one, and the chain finds the energy that the client finds: whatever the
\* model, its domain, its topology, and how it was placed.
THEOREM EncodingKeeps == Spec => []EncodingKeepsEnergy
<1>1. ASSUME OrderInv, TakenInv, MadeInv, StoredInv PROVE EncodingKeepsEnergy
    <2>1. SUFFICES ASSUME HasJob
                   PROVE  LET terms == Cardinality(DOMAIN job.h) + Cardinality(DOMAIN job.j)
                          IN /\ \A v \in Vectors(job) :
                                  Abs(Milli * IsingEnergyMilli(job, v) + job.offset - SampleEnergy(C.model, job, v))
                                    <= terms * job.error
                             /\ Cardinality({DecodeSolution(C.model, job, v) : v \in Vectors(job)})
                                  = Cardinality(Vectors(job))
                             /\ posted # NotPosted =>
                                  \A v \in Vectors(job) : ChainEnergy(posted, v) = IsingEnergyMilli(job, v)
        BY DEF EncodingKeepsEnergy
    <2>2. case \in DOMAIN Cases /\ JobOf(C.model, job) /\ JobOK(job)
        BY <1>1, <2>1 DEF OrderInv, TakenInv, DraftTaken, MadeInv, DraftMade
    <2>3. ASSUME NEW v \in Vectors(job)
          PROVE  Abs(Milli * IsingEnergyMilli(job, v) + job.offset - SampleEnergy(C.model, job, v))
                   <= (Cardinality(DOMAIN job.h) + Cardinality(DOMAIN job.j)) * job.error
        BY <2>2, EncodingIs DEF Milli
    <2>4. Cardinality({DecodeSolution(C.model, job, v) : v \in Vectors(job)}) = Cardinality(Vectors(job))
        BY <2>2, DecodesApart
    <2>5. posted # NotPosted => \A v \in Vectors(job) : ChainEnergy(posted, v) = IsingEnergyMilli(job, v)
        <3>1. posted # NotPosted => posted = CallParams(options, job)
            BY <1>1 DEF MadeInv, StoredInv
        <3>2. QED BY <2>2, <3>1, ChainEnergyIs
    <2>6. QED BY <2>3, <2>4, <2>5
<1>2. QED BY <1>1, OrderHolds, TakenHolds, MadeHolds, StoredHolds, PTL

-----------------------------------------------------------------------------
(* What the floors mean. *)

\* No two vectors are further apart than half of the spins.
LEMMA DistanceIs ==
    ASSUME NEW n \in Nat, NEW u \in [1..n -> {-1, 1}], NEW v \in [1..n -> {-1, 1}]
    PROVE  Len(v) = n /\ Distance(u, v) \in Int /\ Distance(u, v) <= n \div 2
<1> DEFINE differing == {p \in 1..n : u[p] # v[p]}
           d == Cardinality(differing)
           S == {d, n - d}
<1>1. DOMAIN u = 1..n /\ DOMAIN v = 1..n /\ Len(u) = n /\ Len(v) = n
    <2>1. u \in Seq({-1, 1}) /\ v \in Seq({-1, 1})
        OBVIOUS
    <2>2. QED BY <2>1
<1>2. Distance(u, v) = Min(S)
    BY <1>1 DEF Distance
<1>3. d \in Nat /\ d <= n
    <2>1. IsFiniteSet(1..n) /\ Cardinality(1..n) = n
        BY FS_Interval, 1 \in Int, n \in Int
    <2>2. differing \in SUBSET (1..n)
        OBVIOUS
    <2> HIDE DEF differing
    <2>3. IsFiniteSet(differing) /\ Cardinality(differing) <= n
        BY <2>1, <2>2, FS_Subset
    <2>4. QED BY <2>3, FS_CardinalityType
<1> HIDE DEF d
<1>4. IsFiniteSet(S)
    <2>1. S = {d} \cup {n - d}
        OBVIOUS
    <2>2. IsFiniteSet({d})
        BY FS_Singleton
    <2>3. QED BY <2>1, <2>2, FS_AddElement
<1>5. S \subseteq Int /\ S # {} /\ d \in S /\ n - d \in S
    BY <1>3
<1> HIDE DEF S
<1>6. Min(S) \in S /\ \A e \in S : Min(S) <= e
    BY <1>4, <1>5, MinIs
<1> DEFINE least == Min(S)
<1>7. least \in Int /\ least <= d /\ least <= n - d
    BY <1>5, <1>6
<1> HIDE DEF least
<1>8. least <= n \div 2
    BY <1>3, <1>7
<1>9. QED BY <1>1, <1>2, <1>7, <1>8 DEF least

\* An energy in milli that is one of the model, up to the offset.
Exact(i, offset, energy) == 4 * i + offset = energy

\* The ceiling of such an energy.
LEMMA CeilingIs ==
    ASSUME NEW i \in Int, NEW energy \in Int, NEW offset \in Int, Exact(i, offset, energy), NEW max \in Int
    PROVE  /\ EnergyCeilingMilli(max, offset) \in Int
           /\ i <= EnergyCeilingMilli(max, offset) <=> energy <= max
<1> DEFINE ceiling == EnergyCeilingMilli(max, offset)
<1>1. ceiling = (max - offset) \div 4
    BY DEF EnergyCeilingMilli, Milli
<1> HIDE DEF ceiling
<1>2. ceiling \in Int /\ 4 * ceiling <= max - offset /\ max - offset < 4 * (ceiling + 1)
    BY <1>1
<1>3. i <= ceiling <=> 4 * i <= max - offset
    BY <1>2
<1>4. 4 * i + offset = energy
    BY DEF Exact
<1>5. i <= ceiling <=> energy <= max
    BY <1>3, <1>4
<1>6. QED BY <1>2, <1>5 DEF ceiling

\* A job that was not rounded has the energies of its model, up to the offset.
LEMMA ExactIs ==
    ASSUME case \in DOMAIN Cases, NEW placed, JobOf(C.model, placed), placed.error = 0, NEW v \in Vectors(placed)
    PROVE  /\ IsingEnergyMilli(placed, v) \in Int /\ SampleEnergy(C.model, placed, v) \in Int /\ placed.offset \in Int
           /\ Exact(IsingEnergyMilli(placed, v), placed.offset, SampleEnergy(C.model, placed, v))
<1> DEFINE i == IsingEnergyMilli(placed, v)
           energy == SampleEnergy(C.model, placed, v)
           terms == Cardinality(DOMAIN placed.h) + Cardinality(DOMAIN placed.j)
           offset == placed.offset
           d == 4 * i + offset - energy
<1>1. /\ i \in Int /\ energy \in Int /\ offset \in Int /\ terms \in Nat
      /\ Abs(d) <= terms * placed.error
    BY EncodingIs
<1> HIDE DEF i, energy, terms, offset
<1>2. i \in Int /\ energy \in Int /\ offset \in Int /\ d \in Int
    BY <1>1
<1>3. Abs(d) <= 0
    BY <1>1
<1> HIDE DEF d
<1>4. d = 0
    BY <1>2, <1>3 DEF Abs
<1>5. Exact(i, offset, energy)
    BY <1>2, <1>4 DEF d, Exact
<1>6. QED BY <1>2, <1>5 DEF i, energy, offset

\* Every job that was placed is one that a call can carry.
LEMMA JobOfIs ==
    ASSUME case \in DOMAIN Cases, NEW placed, JobOf(C.model, placed)
    PROVE  JobOK(placed)
BY JobIs DEF JobOf

\* What the ceiling of the options means on a job.
LEMMA CeilingMeans ==
    ASSUME case \in DOMAIN Cases, NEW placed, JobOf(C.model, placed), NEW o, OptionsOK(o), o.max_energy # None,
           NEW v \in Vectors(placed), NEW ceiling, ceiling = ChainFloors(o, placed).ceiling,
           NEW i, i = IsingEnergyMilli(placed, v)
    PROVE  /\ i \in Int /\ -Reach(placed) <= i /\ i <= Reach(placed) /\ Reach(placed) \in Nat
           /\ o.max_energy \in Int /\ ceiling \in Int
           /\ placed.error = 0 => /\ SampleEnergy(C.model, placed, v) \in Int
                                  /\ i <= ceiling <=> SampleEnergy(C.model, placed, v) <= o.max_energy
<1>1. i \in Int /\ -Reach(placed) <= i /\ i <= Reach(placed) /\ Reach(placed) \in Nat
    BY JobOfIs, ChainEnergyIs
<1>2. o.max_energy \in Int
    BY DEF OptionsOK, OptionsTyped
<1>3. ceiling = EnergyCeilingMilli(o.max_energy, placed.offset)
    BY DEF ChainFloors
<1>4. placed.offset \in Int
    BY EncodingIs
<1>5. ceiling \in Int
    BY <1>2, <1>3, <1>4 DEF EnergyCeilingMilli, Milli
<1>6. ASSUME placed.error = 0
      PROVE  /\ SampleEnergy(C.model, placed, v) \in Int
             /\ i <= ceiling <=> SampleEnergy(C.model, placed, v) <= o.max_energy
    <2> DEFINE energy == SampleEnergy(C.model, placed, v)
               offset == placed.offset
               max == o.max_energy
    <2>1. i \in Int /\ energy \in Int /\ offset \in Int /\ Exact(i, offset, energy)
        BY <1>6, ExactIs
    <2>2. max \in Int
        BY <1>2
    <2> HIDE DEF energy, offset, max
    <2>3. i <= EnergyCeilingMilli(max, offset) <=> energy <= max
        BY <2>1, <2>2, CeilingIs
    <2>4. QED BY <1>3, <2>1, <2>3 DEF energy, offset, max
<1>7. QED BY <1>1, <1>2, <1>5, <1>6

\* The floors that are refused.
LEMMA HopelessMeans ==
    ASSUME case \in DOMAIN Cases, NEW placed, JobOf(C.model, placed), NEW o, OptionsOK(o)
    PROVE  /\ "ceiling" \in HopelessFloors(o, placed) /\ placed.error = 0 =>
                \A v \in Vectors(placed) : SampleEnergy(C.model, placed, v) > o.max_energy
           /\ "diversity" \in HopelessFloors(o, placed) =>
                \A v, w \in Vectors(placed) :
                   Distance(v, w) * MilliScale < ChainFloors(o, placed).diversity * Len(v)
<1> DEFINE floors == ChainFloors(o, placed)
           n == Cardinality(placed.top.nodes)
<1>1. n \in Nat
    BY JobOfIs, FS_CardinalityType DEF JobOK, JobShape, GoodGraph
<1>2. ASSUME "ceiling" \in HopelessFloors(o, placed), placed.error = 0, NEW v \in Vectors(placed)
      PROVE  SampleEnergy(C.model, placed, v) > o.max_energy
    <2>1. floors.ceiling # None /\ floors.ceiling < -Reach(placed)
        BY <1>2 DEF HopelessFloors
    <2>2. o.max_energy # None
        BY <2>1 DEF ChainFloors
    <2> DEFINE i == IsingEnergyMilli(placed, v)
               energy == SampleEnergy(C.model, placed, v)
               ceiling == floors.ceiling
               reach == Reach(placed)
    <2>3. /\ i \in Int /\ -reach <= i /\ reach \in Nat /\ o.max_energy \in Int /\ ceiling \in Int
          /\ energy \in Int /\ (i <= ceiling <=> energy <= o.max_energy)
        BY <1>2, <2>2, CeilingMeans
    <2>4. ceiling < -reach
        BY <2>1
    <2> HIDE DEF i, energy, ceiling, reach
    <2>5. energy > o.max_energy
        BY <2>3, <2>4
    <2>6. QED BY <2>5 DEF energy
<1>3. ASSUME "diversity" \in HopelessFloors(o, placed), NEW v \in Vectors(placed), NEW w \in Vectors(placed)
      PROVE  Distance(v, w) * MilliScale < floors.diversity * Len(v)
    <2> DEFINE diversity == floors.diversity
               apart == Distance(v, w)
    <2>1. diversity # None /\ diversity * n > (n \div 2) * MilliScale
        BY <1>3 DEF HopelessFloors
    <2>2. diversity \in Int
        <3>1. diversity = o.min_diversity
            BY <2>1 DEF ChainFloors
        <3>2. o.min_diversity \in 0..(MilliScale \div 2)
            BY <2>1, <3>1 DEF OptionsOK, WithinLimits, MinDiversityOk
        <3> HIDE DEF diversity
        <3>3. QED BY <3>1, <3>2 DEF MilliScale
    <2>3. v \in [1..n -> {-1, 1}] /\ w \in [1..n -> {-1, 1}]
        BY DEF Vectors
    <2> HIDE DEF n, diversity, apart
    <2>4. Len(v) = n /\ Len(w) = n /\ apart \in Int /\ apart <= n \div 2
        BY <1>1, <2>3, DistanceIs DEF apart
    <2>5. apart * 1000 <= (n \div 2) * 1000 /\ (n \div 2) * 1000 < diversity * n
        BY <1>1, <2>1, <2>4 DEF MilliScale
    <2>6. diversity * n \in Int
        BY <1>1, <2>2
    <2>7. apart * 1000 < diversity * n
        BY <1>1, <2>4, <2>5, <2>6
    <2>8. apart * MilliScale < diversity * Len(v)
        BY <2>4, <2>7 DEF MilliScale
    <2>9. QED BY <2>8 DEF diversity, apart
<1>4. QED BY <1>2, <1>3

\* A floor is refused only where no vector could meet it; a ceiling that is
\* accepted lets exactly those pass that the user means, on a model that was not
\* rounded; and one that is called useless lets all pass: whatever the model,
\* the options and the placement.
THEOREM FloorsHold == Spec => []FloorsMeanWhatTheySay
<1>1. ASSUME OrderInv, TakenInv, MadeInv PROVE FloorsMeanWhatTheySay
    <2>1. case \in DOMAIN Cases
        BY <1>1 DEF OrderInv
    <2>2. ASSUME hopeless.floors # {}
          PROVE  LET floors == ChainFloors(hopeless.options, hopeless.job)
                     all == Vectors(hopeless.job)
                 IN /\ "ceiling" \in hopeless.floors /\ hopeless.job.error = 0 =>
                         \A v \in all : SampleEnergy(C.model, hopeless.job, v) > hopeless.options.max_energy
                    /\ "diversity" \in hopeless.floors =>
                         \A v, w \in all : Distance(v, w) * MilliScale < floors.diversity * Len(v)
        <3>1. /\ OptionsOK(hopeless.options) /\ JobOf(C.model, hopeless.job)
              /\ hopeless.floors = HopelessFloors(hopeless.options, hopeless.job)
            BY <1>1, <2>2 DEF MadeInv, HopelessMade
        <3>2. QED BY <2>1, <3>1, HopelessMeans
    <2>3. ASSUME HasJob, options.max_energy # None
          PROVE  /\ job.error = 0 =>
                      \A v \in Vectors(job) :
                        (IsingEnergyMilli(job, v) <= ChainFloors(options, job).ceiling)
                          <=> (SampleEnergy(C.model, job, v) <= options.max_energy)
                 /\ FiltersNothing(options, job) =>
                      \A v \in Vectors(job) : IsingEnergyMilli(job, v) <= ChainFloors(options, job).ceiling
        <3>1. OptionsOK(options) /\ JobOf(C.model, job)
            BY <1>1, <2>3 DEF TakenInv, DraftTaken, MadeInv, DraftMade
        <3>2. ASSUME NEW v \in Vectors(job)
              PROVE  /\ job.error = 0 => (IsingEnergyMilli(job, v) <= ChainFloors(options, job).ceiling
                                            <=> SampleEnergy(C.model, job, v) <= options.max_energy)
                     /\ FiltersNothing(options, job) => IsingEnergyMilli(job, v) <= ChainFloors(options, job).ceiling
            <4> DEFINE i == IsingEnergyMilli(job, v)
                       ceiling == ChainFloors(options, job).ceiling
                       reach == Reach(job)
            <4>1. /\ i \in Int /\ i <= reach /\ reach \in Nat /\ ceiling \in Int
                  /\ job.error = 0 => (i <= ceiling <=> SampleEnergy(C.model, job, v) <= options.max_energy)
                BY <2>1, <2>3, <3>1, CeilingMeans
            <4>2. FiltersNothing(options, job) => ceiling >= reach
                BY DEF FiltersNothing
            <4> HIDE DEF i, ceiling, reach
            <4>3. FiltersNothing(options, job) => i <= ceiling
                BY <4>1, <4>2
            <4>4. QED BY <4>1, <4>3 DEF i, ceiling
        <3>3. QED BY <3>2
    <2>4. QED BY <2>2, <2>3 DEF FloorsMeanWhatTheySay
<1>2. QED BY <1>1, OrderHolds, TakenHolds, MadeHolds, PTL
=============================================================================
