------------------------------ MODULE Answers ------------------------------
(***************************************************************************)
(* The answers to an order: the mempool pallet that judges, stores and     *)
(* ranks them (not in the repository: as quip-orders.md, solution.py and   *)
(* chain.py describe it), and how the client picks and lists them          *)
(* (solution.py, receipt.py) and works out who is paid (receipt.py         *)
(* settlement, resolution.py).                                             *)
(*                                                                         *)
(* The pallet ranks an answer by the best vector that was sent.  What it   *)
(* stores may lack that vector: a solution floor keeps the most diverse    *)
(* vectors only, and a later answer of the same solver replaces what was   *)
(* stored, not its rank.                                                   *)
(***************************************************************************)
EXTENDS OrderOptions

VARIABLES posted,        \* the call the chain took
          answers,       \* what is stored for each solver that answered; solvers are
                         \* numbers, in the order the storage is read in
          ranking,       \* the ranked solvers and their energies, best first
          submissions,   \* the answers taken so far
          changed        \* solvers whose stored vectors lack the one that ranks them

chainVars == <<posted, answers, ranking, submissions, changed>>

NotPosted == [reward |-> None]

-----------------------------------------------------------------------------
(* The pallet.                                                             *)

\* What propose_job refuses, after taking the fee.
ChainTakes(call, limits) ==
    /\ AtLeast(call.reward, limits.min_reward)
    /\ AtMost(call.deadline_blocks, limits.max_deadline_blocks) /\ AtMost(call.block_wait, limits.max_block_wait)
    /\ ~call.mode.open =>
         /\ call.mode.miners # None \/ call.mode.miner_types # None
         /\ call.mode.miners # None => AtMost(Cardinality(call.mode.miners), limits.max_bid_miners)
         /\ call.mode.miner_types # None => Cardinality(call.mode.miner_types) <= MaxBidTypes
    /\ call.resolution.variant # "SingleBest" => call.resolution.n \in 1..MaxWinners
    /\ call.floors.solutions # None =>
         call.floors.solutions >= 1 /\ AtMost(call.floors.solutions, limits.max_solutions)
    /\ call.floors.diversity # None /\ call.floors.solutions # None => call.floors.solutions >= 2
    /\ Len(call.h) = Len(call.nodes) /\ Len(call.j) = Len(call.edges)
    /\ \A e \in ToSet(call.edges) : {e[1], e[2]} \subseteq ToSet(call.nodes)

\* The pallet's energy of a vector: coefficients by position.
At(call, node) == CHOOSE p \in DOMAIN call.nodes : call.nodes[p] = node
ChainEnergy(call, spins) ==
    Total([p \in DOMAIN call.h |-> call.h[p] * spins[p]])
    + Total([p \in DOMAIN call.j |->
               call.j[p] * spins[At(call, call.edges[p][1])] * spins[At(call, call.edges[p][2])]])

\* The nodes on which two vectors differ, a vector and its flip being one.
Distance(u, v) ==
    LET differ == Cardinality({p \in DOMAIN u : u[p] # v[p]})
    IN Min({differ, Len(u) - differ})
Pairs(vectors) == {S \in SUBSET DOMAIN vectors : Cardinality(S) = 2}
Spread(vectors) == MapThenSumSet(LAMBDA S : Distance(vectors[Min(S)], vectors[Max(S)]), Pairs(vectors))

\* The average distance of the vectors, in thousandths of the nodes.
DiverseEnough(vectors, floor) ==
    floor # None =>
       Spread(vectors) * MilliScale >= floor * Cardinality(Pairs(vectors)) * Len(vectors[1])

\* The vectors that are kept: those at or below the ceiling and, under a
\* solution floor, as many of them as it says, the most diverse.
Chosen(vectors, S) ==
    LET at == Sorted(S, LAMBDA i, k : i < k) IN [i \in 1..Cardinality(S) |-> vectors[at[i]]]
Under(call, vectors) ==
    Chosen(vectors, {i \in DOMAIN vectors :
                       call.floors.ceiling = None \/ ChainEnergy(call, vectors[i]) <= call.floors.ceiling})
Kept(vectors, count) ==
    IF count = None THEN {vectors}
    ELSE LET some == {Chosen(vectors, S) : S \in {T \in SUBSET DOMAIN vectors : Cardinality(T) = count}}
         IN {part \in some : \A other \in some : Spread(part) >= Spread(other)}

\* An answer that is better goes behind those that are no worse; a solver is
\* ranked once, at its best, and an earlier solver stays ahead on a tie.
Places(call) == IF call.resolution.variant = "SingleBest" THEN 1 ELSE call.resolution.n
RankIn(call, entry) ==
    LET known == {i \in DOMAIN ranking : ranking[i].solver = entry.solver}
        others == IF known = {} THEN ranking ELSE RemoveAt(ranking, Min(known))
        ahead == Cardinality({i \in DOMAIN others : others[i].energy <= entry.energy})
        list == InsertAt(others, ahead + 1, entry)
    IN IF \E i \in known : ranking[i].energy <= entry.energy THEN ranking
       ELSE SubSeq(list, 1, Min({Places(call), Len(list)}))

\* A solver's answer is taken.  A block_wait of 0 ends the order at the first.
Answer(solver, vectors) ==
    /\ posted # NotPosted
    /\ submissions > 0 => posted.block_wait > 0
    /\ LET left == Under(posted, vectors)
           energies == {ChainEnergy(posted, left[i]) : i \in DOMAIN left}
       IN /\ left # <<>> /\ AtLeast(Len(left), posted.floors.solutions)
          /\ \E kept \in Kept(left, posted.floors.solutions) :
               LET ranked == RankIn(posted, [solver |-> solver, energy |-> Min(energies)])
                   rank == {r.energy : r \in {q \in ToSet(ranked) : q.solver = solver}}
               IN /\ DiverseEnough(kept, posted.floors.diversity)
                  /\ answers' = [s \in DOMAIN answers \cup {solver} |->
                       IF s = solver THEN [energy |-> Min(energies), vectors |-> kept, at |-> submissions]
                       ELSE answers[s]]
                  /\ ranking' = ranked
                  /\ changed' = IF rank \subseteq {ChainEnergy(posted, kept[i]) : i \in DOMAIN kept}
                                THEN changed \ {solver} ELSE changed \cup {solver}
    /\ submissions' = submissions + 1
    /\ UNCHANGED posted

-----------------------------------------------------------------------------
(* The client.                                                             *)

\* Every stored vector, decoded.
Decoded(model, job, stored, leader) ==
    LET solutions(s) == {[solver |-> s, index |-> i, leader |-> s = leader,
                          energy |-> SampleEnergy(model, job, stored[s].vectors[i]),
                          milli |-> IsingEnergyMilli(job, stored[s].vectors[i])] : i \in DOMAIN stored[s].vectors}
    IN UNION {solutions(s) : s \in DOMAIN stored}

\* The first of them: the model's energy decides, the leader's come first on a
\* tie, and then the order of the storage (_decode_all).
Before(a, b) ==
    \/ a.energy < b.energy
    \/ a.energy = b.energy /\ a.leader /\ ~b.leader
    \/ a.energy = b.energy /\ a.leader = b.leader
         /\ (a.solver < b.solver \/ (a.solver = b.solver /\ a.index <= b.index))
First(decoded) == CHOOSE a \in decoded : \A b \in decoded : Before(a, b)

\* Mutant: the leader's best vector is the answer whatever energy it reaches.
PickBestTrusting(model, job, stored, ranked) ==
    LET leader == IF ranked # <<>> /\ ranked[1].solver \in DOMAIN stored THEN ranked[1].solver ELSE None
        decoded == Decoded(model, job, stored, leader)
        own == {d \in decoded : d.leader}
        choice == First(IF own # {} THEN own ELSE decoded)
        held == IF leader = None THEN stored[choice.solver].energy ELSE ranked[1].energy
    IN [solution |-> choice, held |-> held, matches |-> TRUE, leader_read |-> leader # None]

\* The leader's best vector, if one of its vectors has the energy it is ranked
\* at; else the best vector of all.  `stored` is not empty.
PickBest(model, job, stored, ranked) ==
    LET leader == IF ranked # <<>> /\ ranked[1].solver \in DOMAIN stored THEN ranked[1].solver ELSE None
        decoded == Decoded(model, job, stored, leader)
        own == {d \in decoded : d.leader}
        choice == First(IF own # {} THEN own ELSE decoded)
        held == IF leader = None THEN stored[choice.solver].energy ELSE ranked[1].energy
        reached == Min({d.milli : d \in {c \in decoded : c.solver = choice.solver}})
    IN [solution |-> IF reached = held THEN choice ELSE First(decoded),
        held |-> held, matches |-> reached = held, leader_read |-> leader # None]

\* Who answered: the ranked solvers, then the others by what is stored.
SolversListed(stored, ranked) ==
    LET place(s) == Min({i \in DOMAIN ranked : ranked[i].solver = s} \cup {Len(ranked) + 1})
        before(s, t) == \/ place(s) < place(t)
                        \/ place(s) = place(t) /\ stored[s].energy < stored[t].energy
                        \/ place(s) = place(t) /\ stored[s].energy = stored[t].energy /\ stored[s].at < stored[t].at
        earlier(s) == {t \in DOMAIN stored \ {s} : before(t, s)}
    IN [n \in 1..Cardinality(DOMAIN stored) |-> CHOOSE s \in DOMAIN stored : Cardinality(earlier(s)) = n - 1]

\* settlement(): the winners and what each receives, or nothing when the rule
\* cannot be worked out here.
Settlement(ranked, limits) ==
    IF ~(Readable(posted.resolution) /\ RankWeightingOk(posted.resolution, limits)) THEN None
    ELSE LET shares == Shares(posted.resolution.variant, Len(ranked), posted.reward)
         IN [i \in DOMAIN ranked |-> [solver |-> ranked[i].solver, share |-> shares[i]]]
=============================================================================
