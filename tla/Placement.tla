------------------------------ MODULE Placement ------------------------------
(***************************************************************************)
(* The graphs an order is placed on, and the search that puts the          *)
(* variables of a model on the nodes of one of them (codec.py Topology,    *)
(* find_placement).  A graph is a set of nodes, which are numbers, and a   *)
(* set of normalized edges; the canonical order of the code is the order   *)
(* of the numbers, so a position is a rank.                                *)
(*                                                                         *)
(* The search is an explicit backtracking stack in the code, and a state   *)
(* machine here: one step per candidate tried or per retreat.              *)
(***************************************************************************)
EXTENDS Integers, Sequences, FiniteSets, FiniteSetsExt, SequencesExt

CONSTANTS MaxSteps   \* the budget of a search, in candidates tried

VARIABLE search      \* the running or the latest search

Edge(u, v) == IF u <= v THEN <<u, v>> ELSE <<v, u>>
Ends(edges) == UNION {{e[1], e[2]} : e \in edges}
TopologyOf(nodes, edges) == [nodes |-> nodes, edges |-> {Edge(e[1], e[2]) : e \in edges}]
HasEdge(top, u, v) == Edge(u, v) \in top.edges
Adjacency(top, node) == {m \in top.nodes : HasEdge(top, node, m)}

\* The position of a node or an edge in the arrays of an order.
IndexOf(top, node) == Cardinality({m \in top.nodes : m <= node})
\* Mutant: edges are ordered by their second node first.
EdgeIndexBySecond(top, u, v) ==
    LET e == Edge(u, v)
    IN Cardinality({f \in top.edges : f[2] < e[2] \/ (f[2] = e[2] /\ f[1] <= e[1])})
EdgeIndex(top, u, v) ==
    LET e == Edge(u, v)
    IN Cardinality({f \in top.edges : f[1] < e[1] \/ (f[1] = e[1] /\ f[2] <= e[2])})

\* A term of a variable with itself makes it its own neighbour.
Neighbours(couplings, var) == {w \in Ends(couplings) : Edge(var, w) \in couplings}

\* The couplings of two variables.
Between(couplings) == {e \in couplings : e[1] # e[2]}

\* The next variable of the order: the most neighbours in it already, then the
\* most neighbours, then the lowest.
MostConstrained(rest, done, couplings) ==
    LET placed(v) == Cardinality(Neighbours(couplings, v) \cap done)
        degree(v) == Cardinality(Neighbours(couplings, v))
        first(v, w) == \/ placed(v) > placed(w)
                       \/ placed(v) = placed(w) /\ degree(v) > degree(w)
                       \/ placed(v) = placed(w) /\ degree(v) = degree(w) /\ v <= w
    IN CHOOSE v \in rest : \A w \in rest : first(v, w)

PlacementOrder(variables, couplings) ==
    LET grown[k \in 0..Cardinality(variables)] ==
          IF k = 0 THEN <<>>
          ELSE LET before == grown[k - 1]
               IN Append(before, MostConstrained(variables \ ToSet(before), ToSet(before), couplings))
    IN grown[Cardinality(variables)]

\* What find_placement refuses in a mapping the caller gives.
MappingFits(variables, couplings, top, mapping) ==
    /\ variables \subseteq DOMAIN mapping
    /\ \A v \in variables : mapping[v] \in top.nodes
    /\ \A v, w \in variables : v # w => mapping[v] # mapping[w]
    /\ \A e \in couplings : HasEdge(top, mapping[e[1]], mapping[e[2]])

-----------------------------------------------------------------------------

NoSearch == [result |-> "idle", top |-> TopologyOf({}, {}), couplings |-> {}, order |-> <<>>,
             stack |-> <<>>, at |-> <<>>, used |-> {}, budget |-> 0]

\* The nodes a variable may go to, given where its neighbours are: a node that
\* is free and next to all of them.
Candidates(s, at, used, var) ==
    {n \in s.top.nodes \ used :
        \A w \in Neighbours(s.couplings, var) \cap DOMAIN at : n \in Adjacency(s.top, at[w])}

StartSearch(variables, couplings, top) ==
    LET s == [NoSearch EXCEPT !.result = "searching", !.top = top, !.couplings = couplings,
                              !.order = PlacementOrder(variables, couplings), !.budget = MaxSteps]
    IN search' = [s EXCEPT !.stack = <<Candidates(s, <<>>, {}, s.order[1])>>]

Depth == Len(search.stack)

\* The lowest candidate left at this depth is taken.
Advance ==
    /\ search.result = "searching" /\ search.stack[Depth] # {} /\ search.budget > 0
    /\ LET node == Min(search.stack[Depth])
           at == [v \in DOMAIN search.at \cup {search.order[Depth]} |->
                    IF v = search.order[Depth] THEN node ELSE search.at[v]]
           used == search.used \cup {node}
           tried == [search.stack EXCEPT ![Depth] = @ \ {node}]
           done == Depth = Len(search.order)
       IN search' = [search EXCEPT
            !.at = at, !.used = used, !.budget = @ - 1,
            !.result = IF done THEN "placed" ELSE @,
            !.stack = IF done THEN tried
                      ELSE Append(tried, Candidates(search, at, used, search.order[Depth + 1]))]

Exhaust ==
    /\ search.result = "searching" /\ search.stack[Depth] # {} /\ search.budget <= 0
    /\ search' = [search EXCEPT !.result = "exhausted"]

\* No candidate is left: the variable before this one moves on, if there is one.
Retreat ==
    /\ search.result = "searching" /\ search.stack[Depth] = {}
    /\ IF Depth = 1 THEN search' = [search EXCEPT !.result = "none"]
       ELSE LET parent == search.order[Depth - 1]
            IN search' = [search EXCEPT
                 !.stack = Front(@),
                 !.used = @ \ {search.at[parent]},
                 !.at = [v \in DOMAIN @ \ {parent} |-> search.at[v]]]

SearchStep == Advance \/ Exhaust \/ Retreat

-----------------------------------------------------------------------------

Embeddings(variables, couplings, top) ==
    {f \in [variables -> top.nodes] : MappingFits(variables, couplings, top, f)}

\* A search that found a placement found one that fits, and one that gave the
\* model up as no subgraph of the topology is right about it (find_placement).
\* It does not look at the terms of a variable with itself.
SearchIsRight ==
    LET variables == ToSet(search.order)
        couplings == Between(search.couplings)
    IN /\ search.result = "placed" => MappingFits(variables, couplings, search.top, search.at)
       /\ search.result = "none" => Embeddings(variables, couplings, search.top) = {}
=============================================================================
