------------------------------ MODULE Pipeline ------------------------------
(***************************************************************************)
(* A problem from its script to its answer.  The script records a problem  *)
(* (Problem); compile() makes the encoder, the verifier and the decoder    *)
(* (Compiler); a host runs the encoder on the problem's inputs, a solver   *)
(* hands back a sample of the model the encoder built, and the host runs   *)
(* the verifier and the decoder on it (Evaluator, through Session.run of   *)
(* xquad/program.py).  Meaning says what the three programs ought to do.   *)
(*                                                                         *)
(* The programs judge any sample whose values SolverValues allows, values  *)
(* outside the domain too.  A sample may come from a solver, a binary or   *)
(* one in process, through the adapter (Adapter); the solver is external:  *)
(* any reads of its problem may come back, at their energy.                *)
(***************************************************************************)
EXTENDS Compiler, Meaning, Adapter
LOCAL INSTANCE Evaluator
LOCAL INSTANCE FiniteSetsExt

CONSTANTS Calldatas,    \* for each script, the alternative inputs of its programs
          SolverValues, \* for each domain, the values a solver may hand back
          Requests      \* calls of solve(): the engine, what a binary can do, the keywords

VARIABLES programs,  \* the compiled programs
          calldata,  \* the inputs the host passes
          model,     \* what the encoder put in slot 0
          x,         \* the values of the sample
          reads,     \* what the solver read, as values of the variables
          result,    \* what solve() returned
          verdict,   \* the machine the verifier halted in
          answer     \* the machine the decoder halted in

hostVars == <<programs, calldata, model, x, reads, result, verdict, answer>>
vars == <<problemVars, hostVars>>

NoPrograms == [encoder |-> <<>>, verifier |-> <<>>, decoder |-> <<>>]
NotRun == [status |-> "not run", out |-> <<>>]

\* What a RunResult keeps of a run: how it ended and the output slots.
Result(m) == [status |-> m.status, out |-> m.out]

Init ==
  /\ RecordInit
  /\ programs = NoPrograms /\ calldata = <<>> /\ model = Unset /\ x = <<>>
  /\ reads = <<>> /\ result = Unsolved("not run")
  /\ verdict = NotRun /\ answer = NotRun

Record == RecordNext /\ UNCHANGED hostVars

\* Problem.compile(): all three programs, or an exception.
Compile ==
  /\ phase = "recording" /\ at > Len(Scripts[script])
  /\ IF Compilable(prob)
     THEN /\ programs' = [encoder |-> Encoder(prob), verifier |-> Verifier(prob), decoder |-> Decoder(prob)]
          /\ phase' = "compiled"
     ELSE phase' = "refused" /\ UNCHANGED programs
  /\ UNCHANGED <<prob, script, at, calldata, model, x, reads, result, verdict, answer>>

Encode ==
  /\ phase = "compiled"
  /\ \E i \in DOMAIN Calldatas[script] :
       \E run \in {Run(programs.encoder, Calldatas[script][i])} :
         /\ calldata' = Calldatas[script][i]
         /\ model' = run.out[0]
         /\ phase' = IF run.status = "halted" THEN "encoded" ELSE "faulted"
  /\ UNCHANGED <<prob, script, at, programs, x, reads, result, verdict, answer>>

\* What the solver answers for: every variable of the model, in its domain.  A
\* read is any of these, and another one, before it or after it, is uniform.
Low == IF model.domain = "spin" THEN -1 ELSE 0
Answers == [1..model.size -> {Low, 1}]
Uniform(v) == [i \in 1..model.size |-> v]
Series == UNION {{<<v, Uniform(Low)>>, <<Uniform(1), v>>} : v \in Answers}

\* The replies of a binary: an exit code, or reads, of which one may be short or
\* no spin at all, at the Ising energy of the spins.
SpinsOf(values) == [i \in DOMAIN values |-> IF values[i] = 1 THEN 1 ELSE -1]
Garbage == {<<>>, <<[spins |-> <<>>, energy |-> 0]>>, <<[spins |-> Uniform(0), energy |-> 0]>>}
Printed(ising, values) == [spins |-> SpinsOf(values), energy |-> IsingEnergy(ising, SpinsOf(values))]
FailingReplies ==
  {[exit |-> e, reads |-> <<>>] : e \in {1, 64, 65, 69}} \cup {[exit |-> 0, reads |-> g] : g \in Garbage}
Sampled(values) ==
  [raw |-> [i \in BqmVariables(model) |-> values[i + 1]], energy |-> EnergyOf(model, values)]

\* solve(): the host hands the model to a solver.  Nothing is left of a call that
\* fails but the error.
Solve ==
  /\ phase = "encoded"
  /\ \E request \in Requests : \E refusal \in {RefusedAs(model, request)} :
       \/ /\ refusal # "none"
          /\ result' = Unsolved(refusal) /\ reads' = <<>>
       \/ /\ refusal = "none" /\ request.engine = "binary"
          /\ \E reply \in FailingReplies : result' = OfBinary(model, reply)
          /\ reads' = <<>>
       \/ /\ refusal = "none" /\ request.engine = "binary"
          /\ \E ising \in {ToIsingMilli(model)} : \E series \in Series :
               /\ reads' = series
               /\ result' = OfBinary(model, [exit |-> 0, reads |-> [n \in 1..2 |-> Printed(ising, series[n])]])
       \/ /\ refusal = "none" /\ request.engine = "inprocess"
          /\ reads' \in Series
          /\ result' = OfSampler(model, [n \in 1..2 |-> Sampled(reads'[n])])
  /\ phase' = "solved"
  /\ UNCHANGED <<prob, script, at, programs, calldata, model, x, verdict, answer>>

Assignments(n) == [1..n -> SolverValues[model.domain]]

\* The calldata of the verifier (verifier_calldata_layout), and of the decoder:
\* the sample and the scalar that the header of the decoder names.
VerifierCalldata(sample) == calldata \o <<model, sample>>
DecoderCalldata(sample) ==
  LET env == Read(prob, calldata, sample.values).env
  IN <<sample, Number(IF DecoderScalars(prob) = {} THEN 0 ELSE env[Min(DecoderScalars(prob))])>>

\* The host runs the verifier and the decoder on a solver's sample.
Judge ==
  /\ phase = "encoded"
  /\ \E values \in Assignments(model.size) :
       \E sample \in {Sample(values, model.rows, model.cols)} :
         /\ x' = values
         /\ verdict' = Result(Run(programs.verifier, VerifierCalldata(sample)))
         /\ answer' = Result(Run(programs.decoder, DecoderCalldata(sample)))
  /\ phase' = "judged"
  /\ UNCHANGED <<prob, script, at, programs, calldata, model, reads, result>>

Next == Record \/ Compile \/ Encode \/ Solve \/ Judge

Spec == Init /\ [][Next]_vars

-----------------------------------------------------------------------------
(* Properties.                                                             *)

\* compile_verifier's promise: the flag the verifier ships is whether the
\* sample meets the domain and every constraint the user wrote, whatever the
\* slack bits and auxiliaries say, and slot 0 is the energy of the sample.
VerdictIsTheConstraint ==
  phase = "judged" =>
    /\ verdict.status = "halted"
    /\ verdict.out[0] = Number(EnergyOf(model, x))
    /\ verdict.out[1] = Number(Flag(Feasible(Read(prob, calldata, x))))

\* The model as a solver has it: by its Ising form, unless it has none.
Form == IF model.domain = "integer" THEN <<>> ELSE ToIsingMilli(model)

\* What a solver minimises, in thousandths.
Minimised(form, values) ==
  IF form = <<>> THEN Milli * EnergyOf(model, values)
  ELSE IsingEnergy(form, SpinsOf(values)) + form.offset

\* It at the best setting of the encoding's own bits, for a value of the
\* variables the user knows.
Best(form, u) ==
  Min({Minimised(form, u \o bits) : bits \in [1..(model.size - Len(u)) -> {0, 1}]}) + Milli * model.dropped

UserValues(s) == IF s.domain = "spin" THEN {-1, 1} ELSE 0..(s.width - 1)

\* What the encoding adds to the objective over the user's variables is one
\* constant where the constraints hold, and strictly more elsewhere.
ObjectivePlusPenalty ==
  \E zero \in {Read(prob, calldata, Zeros(model.size))} :
  \E reading \in {[u \in [1..zero.aux -> UserValues(zero)] |-> Read(prob, calldata, u)]} :
  \E form \in {Form} :
  \E gap \in {[u \in DOMAIN reading |-> Best(form, u) - Milli * Cost(reading[u])]} :
    LET meets == {u \in DOMAIN reading : reading[u].holds}
    IN /\ \A u, v \in meets : gap[u] = gap[v]
       /\ \A u \in DOMAIN reading \ meets : \A v \in meets : gap[u] > gap[v]

\* solve() returns a sample in the domain, with the least energy of all that
\* were read, and an Ising form has the energy of the model, but for a constant.
BestIsReturned ==
  /\ \E form \in {Form} : \A n \in DOMAIN reads : Minimised(form, reads[n]) = Milli * EnergyOf(model, reads[n])
  /\ result.sample.values \in Answers
  /\ result.energy = Min({EnergyOf(model, reads[n]) : n \in DOMAIN reads})

\* The encoder's promise, kept through the solver's adapter: given the inputs
\* the script declared the encoder runs to its end; what the solver minimises is
\* the objective plus the penalty, for every expansion, the indices of slack bits
\* and auxiliaries, the shift of a ranged model and the Ising form; and the best
\* read comes back as a sample of the model.
EncodingIsExact ==
  /\ phase # "faulted"
  /\ phase = "encoded" => ObjectivePlusPenalty
  /\ phase = "solved" /\ result.status = "solved" => BestIsReturned

\* compile_decoder's promise: each output slot holds what the script's
\* statements after output() build from the sample.
DecoderAnswers ==
  phase = "judged" =>
    LET outs == Read(prob, calldata, x).outs
    IN /\ answer.status = "halted"
       /\ \A n \in DOMAIN outs : answer.out[n - 1] = VecOf(outs[n])
=============================================================================
