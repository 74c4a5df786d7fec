------------------------------ MODULE Verifier ------------------------------
(***************************************************************************)
(* The bytecode verifier (`Verifier::default`): one linear scan, then the  *)
(* three flow analyses on one control-flow graph, each solved by the       *)
(* worklist solver and then replayed over the program.  The first phase    *)
(* that objects rejects the program.                                       *)
(***************************************************************************)
EXTENDS Analyses, Submission

VARIABLES
  phase,              \* the phase running, or the verdict
  job, worklist, inWorklist, state, pending   \* the solver's own variables

solverVars == <<job, worklist, inWorklist, state, pending>>
verifierVars == <<program, phase, solverVars>>

Solver ==
  INSTANCE Dataflow WITH Jobs <- {}, Top <- JobTop, Boundary <- JobBoundary,
                         Meet <- JobMeet, Transfer <- JobTransfer

Verdicts == {"accepted", "rejected"}

\* No solver call is under way.
NoJob == [kind |-> "none"]

Idle ==
  /\ job = NoJob
  /\ worklist = <<>>
  /\ inWorklist = {}
  /\ state = <<>>
  /\ pending = <<>>

VerifierInit ==
  /\ program \in Programs
  /\ phase = "scan"
  /\ Idle

\* Call the solver for the next analysis, on the program's one graph.
Call(kind) ==
  \E graph \in {Graph(program)} :
    \E call \in {JobFor(kind, program, graph)} :
      /\ phase' = kind
      /\ job' = call
      /\ worklist' = call.nodes
      /\ inWorklist' = Solver!Nodes(call)
      /\ state' = Solver!InitialState(call)
      /\ pending' = <<>>

Conclude(verdict) ==
  /\ phase' = verdict
  /\ job' = NoJob
  /\ worklist' = <<>>
  /\ inWorklist' = {}
  /\ state' = <<>>
  /\ pending' = <<>>

\* Phase 1: the linear scan.  An empty program has nothing left to analyse.
Scan ==
  /\ phase = "scan"
  /\ IF ~ScanAccepts(program) THEN Conclude("rejected")
     ELSE IF program = <<>> THEN Conclude("accepted")
     ELSE Call("types")
  /\ UNCHANGED program

\* One step of the solver's loop.
Solve ==
  /\ phase \in {"types", "init", "depth"}
  /\ Solver!Next
  /\ UNCHANGED <<program, phase>>

-----------------------------------------------------------------------------
\* What each phase requires of the converged state.  A node whose value
\* before is the top is taken to be unreachable and skipped.
Reached(n) == Solver!Before(job, state, n) # JobTop(job)

TypesAccept ==
  \A n \in DOMAIN state :
    Reached(n) =>
      ReadsSatisfied(job.body[n], Solver!Before(job, state, n))

InitAccept ==
  \A n \in DOMAIN state :
    Reached(n) => InitReads(job.body[n], Solver!Before(job, state, n))

DepthAccept ==
  /\ \A region \in LoopRegions(program) : LoopBalanced(job, state, region)
  /\ \A n \in DOMAIN state :
       LET before == Solver!Before(job, state, n)
       IN  JoinAgrees(job, state, before, n) /\ DepthSafe(before, state[n])

FinishTypes ==
  /\ phase = "types" /\ Solver!Converged
  /\ IF TypesAccept THEN Call("init") ELSE Conclude("rejected")
  /\ UNCHANGED program

FinishInit ==
  /\ phase = "init" /\ Solver!Converged
  /\ IF InitAccept THEN Call("depth") ELSE Conclude("rejected")
  /\ UNCHANGED program

FinishDepth ==
  /\ phase = "depth" /\ Solver!Converged
  /\ Conclude(IF DepthAccept THEN "accepted" ELSE "rejected")
  /\ UNCHANGED program

VerifierNext == Scan \/ Solve \/ FinishTypes \/ FinishInit \/ FinishDepth

=============================================================================
