---------------------------- MODULE PlacedOrder ----------------------------
(***************************************************************************)
(* What an order holds, from create_order() to the answer: the client      *)
(* merges and checks the options and places the model (client.py           *)
(* _create_order, order.py set), the draft is posted, solvers answer, and  *)
(* best(), solvers() and settlement() read the answers back.  JobOrder has *)
(* the way of the proposal to the chain, and Session the clock and the end *)
(* of an order; here the proposal arrives and the order stays open.        *)
(*                                                                         *)
(* A case names a client, the limits of its chain, a model, the options    *)
(* that its user may give and the answers that its solvers may send.       *)
(***************************************************************************)
EXTENDS Answers

CONSTANTS Cases,       \* the cases
          Registered,  \* the topologies of the chain, by name
          MaxSets      \* the calls of set() on one draft

\* Variables are numbered, a coupling names its lower variable first
\* (quadratic_items), and the coefficients of a binary model are whole milli.
IsModel(model) ==
    LET variables == 0..(model.size - 1)
        coefficients == {model.lin[v] : v \in DOMAIN model.lin} \cup {model.quad[e] : e \in DOMAIN model.quad}
    IN /\ model.domain \in {"binary", "spin"}
       /\ model.size \in Nat /\ DOMAIN model.lin \subseteq variables
       /\ \A e \in DOMAIN model.quad : e \in variables \X variables /\ e[1] <= e[2]
       /\ coefficients \subseteq Int
       /\ model.domain = "binary" => \A c \in coefficients : c % Milli = 0

\* A reward is an amount, and an allowlist that is no raw dict was built.
IsUpdate(updates) ==
    /\ "reward" \in DOMAIN updates => updates.reward \in Nat
    /\ \A name \in DOMAIN updates \cap {"min_solutions", "max_energy"} : updates[name] = None \/ updates[name] \in Int
    /\ \A name \in Given(updates) :
         /\ updates[name].raw \/ Constructible(updates[name])
         /\ None \notin {updates[name].accounts, updates[name].types}

IsCase(c) ==
    /\ IsModel(c.model)
    /\ \A updates \in c.creates \cup c.sets : IsUpdate(updates)
    /\ c.solvers \subseteq Nat /\ None \notin c.solvers
    /\ \A vectors \in c.batches : vectors \in Seq(ToSet(vectors))
    /\ \A amount \in {c.client.reward, c.client.env_reward, c.limits.min_reward} : amount = None \/ amount \in Nat

ASSUME PlacedOrderAssumption ==
    /\ \A c \in DOMAIN Cases : IsCase(Cases[c])
    /\ \A name \in DOMAIN Registered :
         Registered[name].nodes \subseteq Int /\ IsFiniteSet(Registered[name].nodes)

VARIABLES case,      \* the case that runs
          state,     \* "new", "placing", "draft", "refused", "open" or "failed"
          options, job,
          pending,   \* the options a running create_order() or set() places
          sets,      \* the calls of set() so far
          hopeless,  \* the floors of the latest call that was refused for them
          read,      \* what the running best() read of the answers
          pick       \* what the latest best() returned

draftVars == <<state, options, job, pending, sets, hopeless, search>>
readVars == <<read, pick>>
vars == <<case, draftVars, chainVars, readVars>>

C == Cases[case]
NoFloors == [options |-> None, job |-> NoJob, floors |-> {}]
NoPick == [solution |-> None]

Init ==
    /\ case \in DOMAIN Cases
    /\ state = "new" /\ options = None /\ job = NoJob /\ pending = None /\ sets = 0
    /\ hopeless = NoFloors /\ search = NoSearch
    /\ posted = NotPosted /\ answers = <<>> /\ ranking = <<>> /\ submissions = 0 /\ changed = {}
    /\ read = None /\ pick = NoPick

-----------------------------------------------------------------------------
(* Creating and editing a draft.                                           *)

\* A call that raises: a draft stays as it was, and nothing is created.
Raised == /\ state' = IF options = None THEN "refused" ELSE "draft"
          /\ pending' = None
          /\ UNCHANGED <<options, job>>

\* The last steps of create_order() and set(): the floors, and then the order
\* takes its options and its job.
Finish(o, placed) ==
    IF HopelessFloors(o, placed) = {}
    THEN /\ state' = "draft" /\ options' = o /\ job' = placed /\ pending' = None /\ UNCHANGED hopeless
    ELSE /\ state' = IF options = None THEN "refused" ELSE "draft"
         /\ pending' = None /\ UNCHANGED <<options, job>>
         /\ hopeless' = [options |-> o, job |-> placed, floors |-> HopelessFloors(o, placed)]

Encode(o, placement) ==
    \E placed \in {ModelToIsing(C.model, placement)} :
        IF Encodes(placed) THEN Finish(o, placed)
        ELSE Raised /\ UNCHANGED hopeless

\* _job_for: the model's own graph, the mapping that was given, or a search.
Place(o) ==
    LET variables == Variables(C.model)
        couplings == Couplings(C.model)
        top == Registered[o.topology]
    IN IF ~HasTerms(C.model) \/ (o.topology # Native /\ o.topology \notin DOMAIN Registered)
       THEN Raised /\ UNCHANGED <<hopeless, search>>
       ELSE CASE o.topology = Native ->
              /\ UNCHANGED search
              /\ IF /\ AtMost(Cardinality(variables), C.limits.max_nodes)
                    /\ AtMost(Cardinality(couplings), C.limits.max_edges)
                 THEN Encode(o, NativeMapping(C.model)) ELSE Raised /\ UNCHANGED hopeless
            [] o.topology # Native /\ o.mapping # None ->
              /\ UNCHANGED search
              /\ IF MappingFits(variables, couplings, top, o.mapping)
                 THEN Encode(o, [v \in variables |-> o.mapping[v]]) ELSE Raised /\ UNCHANGED hopeless
            [] OTHER ->
              /\ StartSearch(variables, couplings, top)
              /\ state' = "placing" /\ pending' = o /\ UNCHANGED <<options, job, hopeless>>

Create ==
    /\ state = "new"
    /\ \E given \in C.creates, strict \in BOOLEAN :
         LET updates == IF strict THEN given ELSE PopMode(given)
             defaults == DefaultOptions(C.client, C.limits)
             o == SettleTopology(Merged(defaults, updates), C.client)
         IN IF /\ defaults.topology # None /\ defaults.reward # None
               /\ strict \/ Cardinality(Given(given)) <= 1
               /\ MergeOk(defaults, updates, C.limits, strict) /\ TopologyOk(o)
            THEN Place(o) ELSE Raised /\ UNCHANGED <<hopeless, search>>
    /\ UNCHANGED <<case, sets, chainVars, readVars>>

\* Mutant: a change of the mapping alone does not place the model again.
ReplacesOnTopology(o) == o.topology # options.topology
\* Whether a change of the options places the model again.
Replaces(o) == o.topology # options.topology \/ o.mapping # options.mapping

\* The calls that made the draft were strict, or it is sent as it is.
Set ==
    /\ state = "draft" /\ sets < MaxSets
    /\ sets' = sets + 1
    /\ \E updates \in C.sets :
         LET o == SettleTopology(Merged(options, updates), C.client)
         IN IF ~(MergeOk(options, updates, C.limits, TRUE) /\ TopologyOk(o))
            THEN Raised /\ UNCHANGED <<hopeless, search>>
            ELSE IF Replaces(o) THEN Place(o)
            ELSE Finish(o, job) /\ UNCHANGED search
    /\ UNCHANGED <<case, chainVars, readVars>>

Searching ==
    /\ state = "placing" /\ SearchStep
    /\ UNCHANGED <<case, state, options, job, pending, sets, hopeless, chainVars, readVars>>

Placed ==
    /\ state = "placing" /\ search.result # "searching"
    /\ IF search.result = "placed" THEN Encode(pending, search.at) ELSE Raised /\ UNCHANGED hopeless
    /\ search' = NoSearch
    /\ UNCHANGED <<case, sets, chainVars, readVars>>

-----------------------------------------------------------------------------
(* On the chain.                                                           *)

\* A payout rule that names no variant cannot be encoded, and is not sent.
Propose ==
    /\ state = "draft" /\ options.resolution.variant \in Variants
    /\ \E call \in {CallParams(options, job)} :
         /\ posted' = call
         /\ state' = IF ChainTakes(call, C.limits) THEN "open" ELSE "failed"
    /\ UNCHANGED <<case, options, job, pending, sets, hopeless, search,
                   answers, ranking, submissions, changed, readVars>>

\* Only a solver the order admits is heard.
Solve ==
    /\ state = "open" /\ submissions < C.submissions
    /\ \E solver \in C.solvers, vectors \in C.batches :
         /\ posted.mode.miners # None => solver \in posted.mode.miners
         /\ \A i \in DOMAIN vectors : vectors[i] \in Vectors(job)
         /\ Answer(solver, vectors)
    /\ pick' = NoPick
    /\ UNCHANGED <<case, draftVars, read>>

-----------------------------------------------------------------------------
(* best(): the answers are read, and then the ranking, which may be better *)
(* by then, or may not be readable.                                        *)

ReadAnswers ==
    /\ state = "open" /\ read = None /\ answers # <<>>
    /\ read' = [answers |-> answers, at |-> submissions] /\ pick' = NoPick
    /\ UNCHANGED <<case, draftVars, chainVars>>

ReadRanking ==
    /\ read # None
    /\ \E seen \in {ranking, <<>>} :
         \E best \in {PickBest(C.model, job, read.answers, seen)} :
           pick' = [solution |-> best.solution, held |-> best.held, matches |-> best.matches,
                    leader_read |-> best.leader_read, stored |-> read.answers, ranked |-> seen, lacking |-> changed,
                    raced |-> read.at # submissions]
    /\ read' = None
    /\ UNCHANGED <<case, draftVars, chainVars>>

Next == Create \/ Set \/ Searching \/ Placed \/ Propose \/ Solve \/ ReadAnswers \/ ReadRanking

Spec == Init /\ [][Next]_vars

-----------------------------------------------------------------------------
(* Properties.                                                             *)

HasJob == state \in {"draft", "open", "failed"}
Graph(o) == IF o.topology = Native THEN NativeTopology(C.model) ELSE Registered[o.topology]

\* A job is the model placed as options say.
Follows(o, placed) ==
    /\ MappingFits(Variables(C.model), Between(Couplings(C.model)), Graph(o), placed.mapping)
    /\ o.mapping # None => \A v \in DOMAIN placed.mapping :
         v \in DOMAIN o.mapping /\ placed.mapping[v] = o.mapping[v]

\* The job of an order is the model placed as its options say, after every
\* set(): on the graph they name, each coupling of two variables on an edge, and
\* by the mapping that they give, if any.  And what the search says is so.
JobFollowsTheOptions ==
    /\ SearchIsRight
    /\ HasJob => Follows(options, job)

\* The energy of a vector is the model's energy of the sample it decodes to, up
\* to the offset and the rounding of the coefficients, no two vectors decode
\* alike, and the chain, which reads coefficients by their place in the call,
\* finds the same energy (decode_solution, ising_energy_milli, IsingJob).
EncodingKeepsEnergy ==
    HasJob =>
      LET terms == Cardinality(DOMAIN job.h) + Cardinality(DOMAIN job.j)
      IN /\ \A v \in Vectors(job) :
              Abs(Milli * IsingEnergyMilli(job, v) + job.offset - SampleEnergy(C.model, job, v)) <= terms * job.error
         /\ Cardinality({DecodeSolution(C.model, job, v) : v \in Vectors(job)}) = Cardinality(Vectors(job))
         /\ posted # NotPosted => \A v \in Vectors(job) : ChainEnergy(posted, v) = IsingEnergyMilli(job, v)

\* A floor is refused only where no answer could meet it, one that is accepted
\* filters as the user means it on a model that was not rounded, and one that
\* is called useless passes everything (_check_floors, energy_ceiling_milli).
FloorsMeanWhatTheySay ==
    /\ hopeless.floors # {} =>
         LET floors == ChainFloors(hopeless.options, hopeless.job)
             all == Vectors(hopeless.job)
         IN /\ "ceiling" \in hopeless.floors /\ hopeless.job.error = 0 =>
                 \A v \in all : SampleEnergy(C.model, hopeless.job, v) > hopeless.options.max_energy
            /\ "diversity" \in hopeless.floors =>
                 \A v, w \in all : Distance(v, w) * MilliScale < floors.diversity * Len(v)
    /\ HasJob /\ options.max_energy # None =>
         /\ job.error = 0 =>
              \A v \in Vectors(job) :
                (IsingEnergyMilli(job, v) <= ChainFloors(options, job).ceiling)
                  <=> (SampleEnergy(C.model, job, v) <= options.max_energy)
         /\ FiltersNothing(options, job) =>
              \A v \in Vectors(job) : IsingEnergyMilli(job, v) <= ChainFloors(options, job).ceiling

\* A draft that the client accepts, through any number of set() calls, is one
\* that the chain takes: a proposal it refuses costs its fee (merge_options,
\* "recheck the whole configuration").
AcceptedIsTaken == state # "failed"

\* best() returns the leader's vector, the one that is paid for, unless the
\* chain gave a reason: its ranking could not be read, answers arrived between
\* the two reads, or the leader's stored vectors lack the one that ranks it.
\* Otherwise it returns the best vector that was stored (pick_best).
PickIsPaidFor ==
    pick # NoPick /\ ~pick.raced =>
      LET leader == IF pick.ranked = <<>> THEN None ELSE pick.ranked[1].solver
          energies(s) == {SampleEnergy(C.model, job, pick.stored[s].vectors[i]) : i \in DOMAIN pick.stored[s].vectors}
      IN IF leader # None /\ leader \notin pick.lacking
         THEN pick.matches /\ pick.solution.solver = leader /\ pick.solution.energy = Min(energies(leader))
         ELSE pick.solution.energy = Min(UNION {energies(s) : s \in DOMAIN pick.stored})

\* settlement() hands out the whole reward, never more to a worse rank, and to
\* each but the first the share that its weight makes, and solvers() lists those
\* it pays first and in their order (resolution.py payouts, repeated from the
\* pallet; receipt.py solvers).
PayoutsSplitTheReward ==
    posted # NotPosted /\ ranking # <<>> =>
      LET paid == Settlement(ranking, C.limits)
          k == Len(ranking)
      IN paid # None =>
           /\ Total([i \in DOMAIN paid |-> paid[i].share]) = posted.reward
           /\ \A i, j \in DOMAIN paid : i < j => paid[i].share >= paid[j].share
           /\ \A i \in 2..k : posted.resolution.variant = "TopNWeighted" =>
                paid[i].share = (posted.reward * (k + 1 - i)) \div ((k * (k + 1)) \div 2)
           /\ \A i \in DOMAIN paid : SolversListed(answers, ranking)[i] = paid[i].solver
=============================================================================
