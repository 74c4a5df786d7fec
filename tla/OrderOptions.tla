---------------------------- MODULE OrderOptions ----------------------------
(***************************************************************************)
(* The options of one order: how a change is merged into them, what the    *)
(* client refuses before anything is signed (order.py merge_options,       *)
(* _check_limits, _check_floors; access.py; resolution.py), and the call   *)
(* they become (client.py _propose_call_params).  A check that refuses     *)
(* raises; which of several raises first is not told apart.  Warnings are  *)
(* left out, except the one on a ceiling that filters nothing.             *)
(*                                                                         *)
(* Limits are what the client read from the chain when it connected; None  *)
(* for one the runtime does not expose, which is not checked.              *)
(***************************************************************************)
EXTENDS Encoding

CONSTANTS None, MaxI64     \* MaxI64: the largest ceiling, in milli

OrderOptionNames == {"reward", "access", "deadline_blocks", "block_wait", "topology", "mapping",
                     "resolution", "max_energy", "min_solutions", "min_diversity"}
MinDeadline == 10
MaxWinners == 32
MaxBidTypes == 8
MinRankWeightedSpec == 119
MilliScale == 1000
Native == "native"

AtLeast(value, bound) == bound # None => value >= bound
AtMost(value, bound) == bound # None => value <= bound

-----------------------------------------------------------------------------
(* Access rules.  A rule is open or lists accounts and solver types; a raw *)
(* one is the chain's dict, which only the deprecated calls let through.   *)

\* What AccessAllow and from_chain refuse to build.
Constructible(access) ==
    access.open \/ (/\ access.accounts # {} \/ access.types # {}
                    /\ Cardinality(access.types) <= MaxBidTypes)

AccessOk(access, limits) ==
    /\ access.raw => Constructible(access) /\ ~access.extra
    /\ access.open \/ (/\ AtMost(Cardinality(access.accounts), limits.max_bid_miners)
                       /\ limits.solver_types = None \/ access.types \subseteq limits.solver_types)

\* An empty list goes out as None.
AccessToChain(access) ==
    LET listed(S) == IF access.open \/ S = {} THEN None ELSE S
    IN [open |-> access.open, miners |-> listed(access.accounts), miner_types |-> listed(access.types)]

-----------------------------------------------------------------------------
(* Payout rules: a variant and, for a top-N one, the number of winners.    *)

Variants == {"SingleBest", "TopNEqual", "TopNWeighted"}

\* from_chain, and the constructors of the rules.
Readable(rule) == rule.variant = "SingleBest"
                  \/ (rule.variant \in Variants /\ rule.n # None /\ rule.n \in 1..MaxWinners)

RankWeightingOk(rule, limits) ==
    rule.variant = "TopNWeighted" => limits.spec_version # None /\ limits.spec_version >= MinRankWeightedSpec

\* A raw value that names no rule of this client passes.
ResolutionOk(rule, limits) ==
    IF rule.raw /\ rule.variant \notin Variants THEN TRUE
    ELSE Readable(rule) /\ RankWeightingOk(rule, limits)

\* Mutant: the part of the reward that the weights do not divide is not shared.
SharesCoarse(variant, k, reward) ==
    LET total == (k * (k + 1)) \div 2
        share == [r \in 1..k |-> (reward \div total) * (k + 1 - r)]
    IN [share EXCEPT ![1] = @ + (reward - Total(share))]
\* The planck each of k ranked solvers receives, best first.
Shares(variant, k, reward) ==
    IF k = 0 THEN <<>> ELSE
    CASE variant = "SingleBest" -> <<reward>>
      [] variant = "TopNEqual" -> [r \in 1..k |-> reward \div k + (IF r = 1 THEN reward % k ELSE 0)]
      [] OTHER ->
           LET total == (k * (k + 1)) \div 2
               share == [r \in 1..k |-> (reward \div total) * (k + 1 - r) + ((reward % total) * (k + 1 - r)) \div total]
           IN [share EXCEPT ![1] = @ + (reward - Total(share))]

-----------------------------------------------------------------------------
(* Merging and checking.                                                   *)

\* A solution floor and a diversity floor, in thousandths of the spins.
MinSolutionsOk(o, limits) ==
    o.min_solutions = None \/ (o.min_solutions >= 1 /\ AtMost(o.min_solutions, limits.max_solutions))
MinDiversityOk(o) ==
    o.min_diversity = None \/ (/\ o.min_diversity \in 0..(MilliScale \div 2)
                               /\ ~(o.min_diversity > 0 /\ o.min_solutions = 1))

WithinLimits(o, limits) ==
    /\ AtLeast(o.reward, limits.min_reward)
    /\ o.deadline_blocks >= MinDeadline /\ AtMost(o.deadline_blocks, limits.max_deadline_blocks)
    /\ o.block_wait >= 0 /\ AtMost(o.block_wait, limits.max_block_wait)
    /\ AccessOk(o.access, limits) /\ ResolutionOk(o.resolution, limits)
    /\ MinSolutionsOk(o, limits) /\ MinDiversityOk(o)

\* _pop_mode: the deprecated calls take access under its old name too, and an
\* access of None for none given.  Both at once are refused.
AccessNames == {"access", "mode"}
Given(updates) == {name \in AccessNames \cap DOMAIN updates : updates[name] # None}
PopMode(updates) ==
    LET given == Given(updates)
    IN [name \in (DOMAIN updates \ AccessNames) \cup {"access" : g \in given} |->
          updates[IF name = "access" THEN CHOOSE g \in given : TRUE ELSE name]]

\* coerce_access and coerce_resolution: None names no rule.
Coerced(o) == o.access # None /\ o.resolution # None
\* _check_raw_values and the names, which only the strict calls insist on.
Typed(o, updates) == DOMAIN updates \subseteq OrderOptionNames /\ ~o.access.raw /\ ~o.resolution.raw

Merged(current, updates) ==
    [name \in DOMAIN current |-> IF name \in DOMAIN updates THEN updates[name] ELSE current[name]]

\* Mutant: only the options that change are checked.
MergeOkChanged(current, updates, limits, strict) ==
    LET o == Merged(current, updates)
        alone == [o EXCEPT !.min_solutions = IF "min_solutions" \in DOMAIN updates THEN @ ELSE None,
                           !.min_diversity = IF "min_diversity" \in DOMAIN updates THEN @ ELSE None]
    IN /\ Coerced(o) /\ (strict => Typed(o, updates))
       /\ WithinLimits(alone, limits)

\* merge_options: whether the whole result passes.  The strict calls refuse an
\* unknown option and a raw value; the deprecated ones drop or keep it.
MergeOk(current, updates, limits, strict) ==
    LET o == Merged(current, updates)
    IN /\ Coerced(o) /\ (strict => Typed(o, updates))
       /\ WithinLimits(o, limits)

-----------------------------------------------------------------------------
(* Quality floors.                                                         *)

\* The floors as the chain takes them; a diversity of 0 is no floor.
ChainFloors(o, job) ==
    [ceiling |-> IF o.max_energy = None THEN None ELSE EnergyCeilingMilli(o.max_energy, job.offset),
     solutions |-> o.min_solutions,
     diversity |-> IF o.min_diversity = 0 THEN None ELSE o.min_diversity]

\* No vector of the job has an energy above this, or below its negative.
Reach(job) == Total([p \in DOMAIN job.h |-> Abs(job.h[p])]) + Total([p \in DOMAIN job.j |-> Abs(job.j[p])])

HopelessFloors(o, job) ==
    LET floors == ChainFloors(o, job)
        spins == Cardinality(job.top.nodes)
    IN {f \in {"ceiling", "range", "diversity"} :
          CASE f = "diversity" -> floors.diversity # None /\ floors.diversity * spins > (spins \div 2) * MilliScale
            [] f = "range" -> floors.ceiling # None /\ floors.ceiling \notin (-MaxI64 - 1)..MaxI64
            [] f = "ceiling" -> floors.ceiling # None /\ floors.ceiling < -Reach(job)}

FiltersNothing(o, job) == o.max_energy # None /\ ChainFloors(o, job).ceiling >= Reach(job)

-----------------------------------------------------------------------------
(* The client's defaults: an argument, then the environment, then the      *)
(* chain.  None where there is nothing.                                    *)

FirstOf(sources) ==
    LET given == {i \in DOMAIN sources : sources[i] # None}
    IN IF given = {} THEN None ELSE sources[Min(given)]

\* "native" from the argument or the environment wins before the chain is read.
ResolveTopology(client) == FirstOf(<<client.topology, client.env_topology, client.chain_topology>>)
ResolveReward(client, limits) == FirstOf(<<client.reward, client.env_reward, limits.min_reward>>)

Open == [open |-> TRUE, raw |-> FALSE, extra |-> FALSE, accounts |-> {}, types |-> {}]
SingleBest == [variant |-> "SingleBest", n |-> None, raw |-> FALSE]

DefaultOptions(client, limits) ==
    [reward |-> ResolveReward(client, limits), deadline_blocks |-> 100, block_wait |-> 10,
     topology |-> ResolveTopology(client), mapping |-> None, access |-> Open, resolution |-> SingleBest,
     max_energy |-> None, min_solutions |-> None, min_diversity |-> None]

\* The order's own topology, else the client's; a mapping needs a real graph.
SettleTopology(o, client) == [o EXCEPT !.topology = FirstOf(<<@, ResolveTopology(client)>>)]
TopologyOk(o) == ~(o.topology = Native /\ o.mapping # None)

-----------------------------------------------------------------------------
(* The call.                                                               *)

Sorted(S, before(_, _)) ==
    CHOOSE q \in [1..Cardinality(S) -> S] : \A i, k \in DOMAIN q : i < k => before(q[i], q[k])
NodesOf(job) == Sorted(job.top.nodes, LAMBDA m, n : m < n)
EdgesOf(job) == Sorted(job.top.edges, LAMBDA e, f : e[1] < f[1] \/ (e[1] = f[1] /\ e[2] < f[2]))

CallParams(o, job) ==
    [nodes |-> NodesOf(job), edges |-> EdgesOf(job), h |-> job.h, j |-> job.j,
     floors |-> ChainFloors(o, job), reward |-> o.reward, mode |-> AccessToChain(o.access),
     resolution |-> o.resolution, deadline_blocks |-> o.deadline_blocks, block_wait |-> o.block_wait]
=============================================================================
