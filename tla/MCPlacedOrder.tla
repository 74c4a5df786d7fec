--------------------------- MODULE MCPlacedOrder ---------------------------
(***************************************************************************)
(* Cases for PlacedOrder: small graphs with gaps in their numbering, small *)
(* models, and for each case the options and answers that are tried.       *)
(***************************************************************************)
EXTENDS PlacedOrder
LOCAL INSTANCE TLC

\* A function from a sequence of pairs.
Map(pairs) == [k \in {pairs[i][1] : i \in DOMAIN pairs} |-> LET i == CHOOSE n \in DOMAIN pairs : pairs[n][1] = k IN pairs[i][2]]
Model(domain, size, lin, quad) == [domain |-> domain, size |-> size, lin |-> Map(lin), quad |-> Map(quad)]

MCRegistered ==
    [path |-> TopologyOf({2, 3, 5, 7}, {<<3, 2>>, <<3, 5>>, <<7, 5>>}),
     kite |-> TopologyOf({0, 1, 4, 6}, {<<0, 1>>, <<4, 1>>, <<0, 4>>, <<6, 0>>}),
     tail |-> TopologyOf({0, 1, 2, 3, 4}, {<<0, 1>>, <<1, 2>>, <<2, 3>>, <<3, 4>>, <<2, 4>>})]

Chain == [min_reward |-> 3, max_deadline_blocks |-> 120, max_block_wait |-> 20, max_solutions |-> 3,
          spec_version |-> 119, max_bid_miners |-> 1, solver_types |-> {"cpu", "qpu"},
          max_nodes |-> 3, max_edges |-> 2]
OldChain == [Chain EXCEPT !.spec_version = 118, !.min_reward = None, !.max_solutions = None,
                          !.max_bid_miners = None, !.solver_types = None, !.max_nodes = None]

Client(topology) == [topology |-> topology, env_topology |-> None, chain_topology |-> "kite",
                     reward |-> 4, env_reward |-> None]

\* Models.  Coefficients are in ticks, and whole milli in a binary model.
Chain3 == Model("binary", 4, << <<0, 8>>, <<3, -12>> >>, << << <<0, 1>>, 4>>, << <<1, 3>>, -8>> >>)
Triangle == Model("spin", 3, << <<0, 6>> >>, << << <<0, 1>>, 5>>, << <<0, 2>>, -4>>, << <<1, 2>>, 10>> >>)
Paw == Model("spin", 4, << <<3, 2>> >>, << << <<0, 1>>, 4>>, << <<0, 2>>, 8>>, << <<1, 2>>, 10>>, << <<2, 3>>, -4>> >>)
Square == Model("spin", 4, <<>>, << << <<0, 1>>, 4>>, << <<1, 2>>, 4>>, << <<2, 3>>, 4>>, << <<0, 3>>, -4>> >>)
Bull == Model("binary", 5, << <<4, 4>> >>,
    << << <<0, 1>>, 4>>, << <<1, 2>>, 4>>, << <<0, 2>>, 4>>, << <<0, 3>>, -4>>, << <<3, 4>>, 8>> >>)
Pair == Model("binary", 2, << <<0, -24>>, <<1, 8>> >>, << << <<0, 1>>, 16>> >>)
Half == Model("spin", 2, << <<0, 2>>, <<1, -6>> >>, << << <<0, 1>>, 9>> >>)
Faint == Model("spin", 2, << <<0, 1>> >>, << << <<0, 1>>, -2>> >>)
Heavy == Model("spin", 1, << <<0, 42>> >>, <<>>)
\* Terms of a variable with itself.
Looped == Model("spin", 2, << <<0, 4>> >>, << << <<0, 0>>, 8>>, << <<0, 1>>, -4>> >>)
Squared == Model("binary", 3, << <<2, 4>> >>, << << <<0, 0>>, 8>>, << <<0, 2>>, -8>> >>)
Empty == Model("binary", 2, <<>>, <<>>)

Allow(accounts, types) == [open |-> FALSE, raw |-> FALSE, extra |-> FALSE, accounts |-> accounts, types |-> types]
RawAllow(accounts, types, extra) == [Allow(accounts, types) EXCEPT !.raw = TRUE, !.extra = extra]
Rule(variant, n) == [variant |-> variant, n |-> n, raw |-> FALSE]
RawRule(variant, n) == [Rule(variant, n) EXCEPT !.raw = TRUE]

Ceilings(S) == {[max_energy |-> e] : e \in S}
Mapping(pairs) == [mapping |-> Map(pairs)]
Unchanged == [reward |-> 4]
Case(model, client, limits) ==
    [model |-> model, client |-> client, limits |-> limits, creates |-> {Unchanged}, sets |-> {},
     submissions |-> 0, batches |-> {}, solvers |-> {1, 2}]

\* The graph: found, not found, given up, mapped by hand, or the model's own.
Graphs ==
    {[topology |-> "path"], [topology |-> "kite"], [topology |-> "tail"], [topology |-> Native],
     [topology |-> "elsewhere"], [mapping |-> None]}
PlacementCase(model, client, hand) ==
    [Case(model, Client(client), Chain) EXCEPT !.creates = Graphs,
       !.sets = Graphs \cup {hand, Mapping(<< <<0, 2>>, <<1, 3>>, <<3, 3>> >>), Mapping(<< <<0, 2>> >>)}
                \cup {hand @@ [topology |-> "path"]} \cup {[max_energy |-> 0]}]

\* Floors and coefficients.
FloorCase(model, client) ==
    [Case(model, Client(client), OldChain) EXCEPT !.creates = {Unchanged, [min_diversity |-> 0]},
       !.sets = Ceilings({-200, -28, -21, -20, -19, -17, -16, -12, -9, -8, -7, -3, -1, 0, 1, 4, 7, 5, 8, 9, 12, 17, 21, 40, 400})
                \cup {[min_diversity |-> d] : d \in {0, 333, 334, 400, 500, 501}}]

\* Options against each other and against the limits.
OptionSets ==
    {[min_solutions |-> n] : n \in {None, 0, 1, 2, 4}} \cup {[min_diversity |-> d] : d \in {None, 0, 250, 600}}
    \cup {[access |-> a] : a \in {Open, None, Allow({1}, {}), Allow({1, 2}, {}), Allow({}, {"qpu"}), Allow({2}, {"gpu"})}}
    \cup {[resolution |-> r] : r \in {None, Rule("TopNEqual", 2), Rule("TopNWeighted", 3), SingleBest}}
    \cup {[reward |-> 2], [deadline_blocks |-> 9], [deadline_blocks |-> 121], [block_wait |-> -1], [block_wait |-> 21]}
Deprecated ==
    {[access |-> RawAllow({1}, {}, FALSE)], [access |-> RawAllow({}, {}, FALSE)], [access |-> RawAllow({1}, {}, TRUE)],
     [access |-> RawAllow({}, {"cpu", "qpu"}, FALSE)], [resolution |-> RawRule("TopNEqual", 2)],
     [resolution |-> RawRule("TopNEqual", None)], [resolution |-> RawRule("TopNEqual", 33)],
     [resolution |-> RawRule("Lottery", None)], [mode |-> Allow({1}, {})], [mode |-> None, access |-> Allow({1}, {})],
     [mode |-> Allow({2}, {}), access |-> Allow({1}, {})], [mode |-> RawAllow({}, {"gpu"}, FALSE)]}
OptionCase(limits) ==
    [Case(Pair, Client(None), limits) EXCEPT !.creates = OptionSets \cup Deprecated, !.sets = OptionSets]

\* Clients with nothing to go by, or with their environment only.
Poor == [topology |-> None, env_topology |-> None, chain_topology |-> None, reward |-> None, env_reward |-> None]
ClientCases == <<
    Case(Pair, Poor, Chain), Case(Pair, [Poor EXCEPT !.env_topology = Native], OldChain),
    Case(Pair, [Poor EXCEPT !.env_topology = Native, !.env_reward = 2, !.reward = 5], Chain)>>

\* Answers, best, middling and bad, alone or together, to orders of every rule.
AllTwo == {<<a, b>> : a, b \in {-1, 1}}
Single(S) == {<<v>> : v \in S}
Both(S) == {w \in {<<u, v>> : u, v \in S} : w[1] # w[2]}
AnswerCase(model, updates, limits) ==
    [Case(model, Client("path"), limits) EXCEPT !.creates = updates, !.submissions = 2,
       !.batches = Single(AllTwo) \cup Both({<<1, -1>>, <<1, 1>>})
                   \cup {<< <<1, 1>>, <<1, -1>>, <<-1, -1>> >>, << <<-1, -1>>, <<-1, 1>>, <<1, 1>> >>}]
Money == [resolution |-> Rule("TopNWeighted", 3), reward |-> 11]
Shared == [Money EXCEPT !.resolution = Rule("TopNEqual", 2)]
AnswerCases == <<
    AnswerCase(Pair, {Unchanged, Unchanged @@ [min_solutions |-> 1], Unchanged @@ [min_solutions |-> 2, min_diversity |-> 500],
                      Unchanged @@ [max_energy |-> 0], Unchanged @@ [block_wait |-> 0]}, Chain),
    AnswerCase(Half, {Unchanged, Money, Shared}, Chain),
    [AnswerCase(Pair, {Money, [Money EXCEPT !.reward = 5], Shared}, Chain)
       EXCEPT !.batches = Single({<<1, -1>>, <<1, 1>>, <<-1, -1>>}), !.submissions = 3, !.solvers = {1, 2, 3}],
    [AnswerCase(Pair, {Unchanged @@ [access |-> RawAllow({2}, {}, FALSE)],
                       Unchanged @@ [resolution |-> RawRule("TopNWeighted", 2)],
                       Unchanged @@ [resolution |-> RawRule("Lottery", None)]}, OldChain)
       EXCEPT !.client = Client(Native), !.submissions = 1]>>

MCCases == <<
    PlacementCase(Chain3, None, Mapping(<< <<0, 2>>, <<1, 3>>, <<3, 5>> >>)),
    PlacementCase(Triangle, "kite", Mapping(<< <<0, 2>>, <<1, 3>>, <<2, 5>> >>)),
    PlacementCase(Paw, "kite", Mapping(<< <<0, 1>>, <<1, 4>>, <<2, 0>>, <<3, 6>> >>)),
    PlacementCase(Bull, "tail", Mapping(<< <<0, 2>>, <<1, 3>>, <<2, 4>>, <<3, 1>>, <<4, 0>> >>)),
    PlacementCase(Square, "tail", Mapping(<< <<0, 0>>, <<1, 1>>, <<2, 2>>, <<3, 3>> >>)),
    PlacementCase(Looped, "path", Mapping(<< <<0, 2>>, <<1, 3>> >>)),
    PlacementCase(Squared, "path", Mapping(<< <<0, 3>>, <<2, 5>> >>)),
    FloorCase(Chain3, "path"), FloorCase(Triangle, "kite"), FloorCase(Pair, "path"), FloorCase(Half, Native),
    FloorCase(Faint, "path"), FloorCase(Heavy, "path"), FloorCase(Empty, "path"),
    OptionCase(Chain), OptionCase(OldChain)>> \o ClientCases \o AnswerCases
=============================================================================
