------------------------------ MODULE Adapter -------------------------------
(***************************************************************************)
(* The adapters between a model and a local solver: Solver.solve           *)
(* (xqsa/solver.py) over a solver binary (binary.py), which takes an Ising *)
(* model in thousandths (ising.py), or over a sampler in process           *)
(* (inprocess/cpu.py).                                                     *)
(*                                                                         *)
(* An Ising model has a field h[i] on each variable i, a coupling j[p] on  *)
(* each pair p of two variables, and the constant it leaves out.  Spins    *)
(* are sequences: variable i is at position i + 1.  Numbers go to a binary *)
(* as whole units or exact quarters, so nothing is rounded and the model   *)
(* stays in thousandths.                                                   *)
(***************************************************************************)
LOCAL INSTANCE Expansion
LOCAL INSTANCE Integers
LOCAL INSTANCE Sequences
LOCAL INSTANCE FiniteSetsExt
LOCAL INSTANCE Functions
LOCAL INSTANCE TLC

Milli == 1000
I32 == (-2147483647 - 1)..2147483647

SumOver(S, f(_)) == MapThenSumSet(f, S)

\* Mutant: the diagonal terms of a binary model are dropped.
MutOffDiagonal(m) ==
  LET Vars == 0..(m.size - 1)
      Edges == {p \in DOMAIN m.quad : p[1] # p[2]}
      linear(i) == At(m.lin, i)
      coupling(p) == m.quad[p]
  IN [h |-> [i \in Vars |-> 500 * linear(i) + 250 * SumOver({p \in Edges : i \in {p[1], p[2]}}, coupling)],
      j |-> [p \in Edges |-> 250 * coupling(p)],
      offset |-> 500 * SumOver(Vars, linear) + 250 * SumOver(Edges, coupling)]

ToIsingMilli(m) ==
  LET Vars == 0..(m.size - 1)
      Edges == {p \in DOMAIN m.quad : p[1] # p[2]}
      Touching(i) == {p \in Edges : i \in {p[1], p[2]}}
      diagonal(i) == At(m.quad, <<i, i>>)
      coupling(p) == m.quad[p]
      linear(i) == At(m.lin, i) + IF m.domain = "binary" THEN diagonal(i) ELSE 0
  IN IF m.domain = "spin"
     THEN [h |-> [i \in Vars |-> Milli * linear(i)],
           j |-> [p \in Edges |-> Milli * coupling(p)],
           offset |-> Milli * SumOver(Vars, diagonal)]
     ELSE [h |-> [i \in Vars |-> 500 * linear(i) + 250 * SumOver(Touching(i), coupling)],
           j |-> [p \in Edges |-> 250 * coupling(p)],
           offset |-> 500 * SumOver(Vars, linear) + 250 * SumOver(Edges, coupling)]

\* What the binary minimises, and reports as energy_milli of a read.
IsingEnergy(ising, spins) ==
  SumOver(DOMAIN ising.h, LAMBDA i : ising.h[i] * spins[i + 1])
  + SumOver(DOMAIN ising.j, LAMBDA p : ising.j[p] * spins[p[1] + 1] * spins[p[2] + 1])

SpinsToSample(m, spins) ==
  Sample(IF m.domain = "spin" THEN spins ELSE [i \in DOMAIN spins |-> (spins[i] + 1) \div 2], m.rows, m.cols)

\* What a binary says of itself; a limit of 0 is none.  An unusable binary is
\* refused when the solver is built.
Usable(caps) ==
  /\ caps.exit = 0 /\ caps.protocolVersion = 2
  /\ caps.algorithm = "sa" /\ "ISING_SAMPLE" \in caps.supportedKinds

Within(limit, n) == limit = 0 \/ n <= limit
Magnitude(v) == IF v < 0 THEN -v ELSE v

Fits(caps, ising, schedule) ==
  LET Vars == DOMAIN ising.h
      Edges == DOMAIN ising.j
      Touching(i) == {p \in Edges : i \in {p[1], p[2]}}
      Values == Range(ising.h) \cup Range(ising.j)
  IN /\ schedule = "linear" => "linear-schedule" \in caps.features
     /\ Within(caps.maxNodes, Cardinality(Vars)) /\ Within(caps.maxEdges, Cardinality(Edges))
     /\ \A i \in Vars :
          /\ Within(caps.maxDegree, Cardinality(Touching(i)))
          /\ Within(caps.maxLocalFieldMilli,
                    Magnitude(ising.h[i]) + SumOver(Touching(i), LAMBDA p : Magnitude(ising.j[p])))
     /\ "exact-coefficients" \in caps.features /\ caps.exactResolutionMilli # 0
          => \A v \in Values : v % caps.exactResolutionMilli = 0
     /\ Values \subseteq I32

\* In process there is no conversion, and a sampler answers only for the
\* variables that have a term; the others keep the default of the domain.
BqmVariables(m) == DOMAIN m.lin \cup UNION {{p[1], p[2]} : p \in DOMAIN m.quad}

SampleToXqmx(m, raw) ==
  LET default == IF m.domain = "spin" THEN -1 ELSE 0
  IN Sample([i \in 1..m.size |-> IF i - 1 \in DOMAIN raw THEN raw[i - 1] ELSE default], m.rows, m.cols)

\* The keywords solve() takes, with their defaults.
Defaults ==
  [num_reads |-> 100, num_sweeps |-> 1000, num_sweeps_per_beta |-> 1,
   beta_range |-> "none", seed |-> "none", beta_schedule_type |-> "geometric"]
Accepted(engine) == DOMAIN Defaults \ IF engine = "inprocess" THEN {"beta_schedule_type"} ELSE {}

\* The parameters are in order; the sampler in process checks the last two itself.
ParamsOk(p) ==
  /\ p.num_reads >= 1 /\ p.num_sweeps >= 1 /\ p.num_sweeps_per_beta >= 1
  /\ p.num_sweeps % p.num_sweeps_per_beta = 0
  /\ p.beta_schedule_type \in {"geometric", "linear"}
  /\ p.seed \in {"none", "u64"} /\ p.beta_range \in {"none", "positive"}

\* Why a request ends before anything is sampled, in the order of the checks; a
\* binary is asked what it can do when the solver is built.
RefusedAs(m, request) ==
  LET params == request.kwargs @@ Defaults
      binary == request.engine = "binary"
  IN IF binary /\ ~Usable(request.caps) THEN "unavailable"
     ELSE IF m.domain \notin {"binary", "spin"} THEN "unsupported"
     ELSE IF ~(DOMAIN request.kwargs \subseteq Accepted(request.engine)) THEN "unknown_keyword"
     ELSE IF ~ParamsOk(params) THEN "invalid"
     ELSE IF binary /\ ~Fits(request.caps, ToIsingMilli(m), params.beta_schedule_type) THEN "rejected"
     ELSE "none"

\* How a run that did not exit with 0 is reported.
ExitError(exit) ==
  CASE exit = 64 -> "protocol" [] exit = 65 -> "rejected" [] exit = 69 -> "unavailable" [] OTHER -> "failed"

ReadOk(read, nodes) == Len(read.spins) = nodes /\ \A i \in DOMAIN read.spins : read.spins[i] \in {-1, 1}

\* min(): the first of the reads that report the lowest energy.
BestRead(reads) ==
  reads[Min({n \in DOMAIN reads : \A k \in DOMAIN reads : reads[n].energy <= reads[k].energy})]

Unsolved(error) == [status |-> error, sample |-> <<>>, energy |-> 0]
Solved(m, sample) == [status |-> "solved", sample |-> sample, energy |-> EnergyOf(m, sample.values)]

\* What solve() makes of a binary's reply, and of the reads of a sampler.
OfBinary(m, reply) ==
  IF reply.exit # 0 THEN Unsolved(ExitError(reply.exit))
  ELSE IF reply.reads = <<>> \/ \E n \in DOMAIN reply.reads : ~ReadOk(reply.reads[n], m.size)
       THEN Unsolved("failed")
       ELSE Solved(m, SpinsToSample(m, BestRead(reply.reads).spins))

OfSampler(m, reads) == Solved(m, SampleToXqmx(m, BestRead(reads).raw))
=============================================================================
