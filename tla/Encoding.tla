------------------------------ MODULE Encoding ------------------------------
(***************************************************************************)
(* A model as the Ising problem an order carries, and a vector of spins    *)
(* back as a sample of the model (codec.py model_to_ising,                 *)
(* decode_solution, ising_energy_milli).                                   *)
(*                                                                         *)
(* The chain counts in milli.  Coefficients and energies of a model are    *)
(* here whole numbers of ticks, four to the milli, so that a coefficient   *)
(* may lie on the grid of the chain, between two points of it, or half way.*)
(* The coefficients of a binary model are whole milli, so that the change  *)
(* to spins, which quarters them, stays exact.  Floats are not modelled:   *)
(* there is no noise for _MILLI_GRID_TOLERANCE to absorb.                  *)
(***************************************************************************)
EXTENDS Placement

CONSTANTS MaxI32   \* the largest coefficient an order can carry, in milli

Milli == 4         \* ticks
Abs(n) == IF n < 0 THEN -n ELSE n
Total(f) == MapThenSumSet(LAMBDA k : f[k], DOMAIN f)
At0(f, k) == IF k \in DOMAIN f THEN f[k] ELSE 0

\* A tie goes to the even neighbour.
RoundMilli(ticks) ==
    LET below == ticks \div Milli
        over == ticks % Milli
    IN IF over * 2 > Milli \/ (over * 2 = Milli /\ below % 2 = 1) THEN below + 1 ELSE below
RoundingError(ticks) == Abs(ticks - Milli * RoundMilli(ticks))
FitsI32(milli) == milli \in (-MaxI32 - 1)..MaxI32

\* Mutant: a ceiling is rounded to the nearest milli.
NearestCeiling(energy, offset) == RoundMilli(energy - offset)
\* The ceiling of a model's energy as the chain takes it.
EnergyCeilingMilli(energy, offset) == (energy - offset) \div Milli

-----------------------------------------------------------------------------
(* From a model to spins.  A model has a domain, a size, and the linear    *)
(* and quadratic coefficients that are set.                                *)

Touching(quad, var) == {e \in DOMAIN quad : e[1] = var \/ e[2] = var}

\* x = (s + 1) / 2 in a binary model (dimod's change_vartype), where the term of
\* a variable with itself is linear first.
IsingCoefficients(model) ==
    IF model.domain = "spin" THEN [h |-> model.lin, j |-> model.quad, offset |-> 0]
    ELSE LET lin == [v \in DOMAIN model.lin \cup Ends(DOMAIN model.quad) |->
                       At0(model.lin, v) + At0(model.quad, <<v, v>>)]
             quad == [e \in Between(DOMAIN model.quad) |-> model.quad[e]]
         IN [h |-> [v \in DOMAIN lin |->
                      lin[v] \div 2 + Total([e \in Touching(quad, v) |-> quad[e] \div 4])],
             j |-> [e \in DOMAIN quad |-> quad[e] \div 4],
             offset |-> Total(lin) \div 2 + Total(quad) \div 4]

Couplings(model) == DOMAIN IsingCoefficients(model).j
Variables(model) == DOMAIN IsingCoefficients(model).h \cup Ends(Couplings(model))
HasTerms(model) == DOMAIN model.lin # {} \/ DOMAIN model.quad # {}
Rank(variables, var) == Cardinality({w \in variables : w < var})

\* The graph of the model itself, its variables renumbered from 0.
NativeMapping(model) == [v \in Variables(model) |-> Rank(Variables(model), v)]
NativeTopology(model) ==
    LET at == NativeMapping(model)
    IN TopologyOf({at[v] : v \in Variables(model)}, {<<at[e[1]], at[e[2]]>> : e \in Couplings(model)})

NoJob == [top |-> TopologyOf({}, {}), h |-> <<>>, j |-> <<>>, mapping |-> <<>>, error |-> 0, offset |-> 0]

\* The job of a placed model: the part of the graph that is used, with a
\* coefficient for each of its nodes and edges.
ModelToIsing(model, placement) ==
    LET ising == IsingCoefficients(model)
        image(e) == <<placement[e[1]], placement[e[2]]>>
        top == TopologyOf({placement[v] : v \in DOMAIN placement}, {image(e) : e \in DOMAIN ising.j})
        nodeOf(p) == CHOOSE v \in DOMAIN placement : IndexOf(top, placement[v]) = p
        edgeOf(p) == CHOOSE e \in DOMAIN ising.j : EdgeIndex(top, image(e)[1], image(e)[2]) = p
        field(p) == IF nodeOf(p) \in DOMAIN ising.h THEN ising.h[nodeOf(p)] ELSE 0
        coefficients == {ising.h[v] : v \in DOMAIN ising.h} \cup {ising.j[e] : e \in DOMAIN ising.j}
    IN [top |-> top,
        h |-> [p \in 1..Cardinality(top.nodes) |-> RoundMilli(field(p))],
        j |-> [p \in 1..Cardinality(top.edges) |-> RoundMilli(ising.j[edgeOf(p)])],
        mapping |-> placement,
        error |-> Max({RoundingError(c) : c \in coefficients}),
        offset |-> ising.offset]

\* What model_to_ising refuses once the model is placed.
Encodes(job) ==
    /\ \A p \in DOMAIN job.h : FitsI32(job.h[p])
    /\ \A p \in DOMAIN job.j : FitsI32(job.j[p])
    /\ \/ \E p \in DOMAIN job.h : job.h[p] # 0
       \/ \E p \in DOMAIN job.j : job.j[p] # 0

-----------------------------------------------------------------------------
(* From spins to the model.  A vector has a spin for each node of a job.   *)

Vectors(job) == [1..Cardinality(job.top.nodes) -> {-1, 1}]

DecodeSolution(model, job, spins) ==
    LET binary == model.domain = "binary"
        spin(v) == spins[IndexOf(job.top, job.mapping[v])]
    IN [v \in 0..(model.size - 1) |->
          IF v \notin DOMAIN job.mapping THEN (IF binary THEN 0 ELSE -1)
          ELSE IF binary THEN (spin(v) + 1) \div 2 ELSE spin(v)]

IsingEnergyMilli(job, spins) ==
    Total([p \in DOMAIN job.h |-> job.h[p] * spins[p]])
    + Total([e \in job.top.edges |-> job.j[EdgeIndex(job.top, e[1], e[2])]
                                     * spins[IndexOf(job.top, e[1])] * spins[IndexOf(job.top, e[2])]])

ModelEnergy(model, x) ==
    Total([v \in DOMAIN model.lin |-> model.lin[v] * x[v]])
    + Total([e \in DOMAIN model.quad |-> model.quad[e] * x[e[1]] * x[e[2]]])

SampleEnergy(model, job, spins) == ModelEnergy(model, DecodeSolution(model, job, spins))
=============================================================================
