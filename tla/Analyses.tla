------------------------------ MODULE Analyses ------------------------------
(***************************************************************************)
(* The three flow analyses of the verifier, as jobs for the worklist       *)
(* solver, and what each phase accepts once the solver has converged:      *)
(* register types (dataflow/register.rs), must-init (dataflow/uninit.rs)   *)
(* and stack depth (dataflow/bytecode.rs).                                 *)
(***************************************************************************)
EXTENDS ControlFlow, Machine

(***************************************************************************)
(* A job carries its graph and, per node, what the analysis needs of the   *)
(* node's code: the span of instructions for the register analyses, the    *)
(* stack effect for the depth analysis.                                    *)
(***************************************************************************)
JobFor(kind, code, graph) ==
  [kind |-> kind, nodes |-> graph.nodes, entry |-> graph.entry,
   preds |-> graph.preds, succs |-> graph.succs,
   body |-> [n \in DOMAIN graph.succs |->
               IF kind = "depth" THEN BlockEffect(code, n)
               ELSE SubSeq(code, n + 1, SpanEnd(code, graph, n))]]

-----------------------------------------------------------------------------
(***************************************************************************)
(* Register types.                                                         *)
(***************************************************************************)
Grids == {"Model", "Sample", "Grid"}
Vecs == {"VecInt", "VecXqmx", "AnyVec"}
RegTypes == {"Unset", "Int", "Conflict", "Any"} \cup Grids \cup Vecs

\* Mutant: types with nothing in common satisfy everything after a join.
MeetRegPermissive(a, b) ==
  IF a = "Any" THEN b
  ELSE IF b \in {"Any", a} THEN a
  ELSE IF {a, b} \subseteq Grids THEN "Grid"
  ELSE IF {a, b} \subseteq Vecs THEN "AnyVec" ELSE "Any"

\* What two branches of a join share.  "Any" is the identity, and a register
\* one branch left unset stays permissive.
MeetReg(a, b) ==
  IF a = "Any" THEN b
  ELSE IF b \in {"Any", a} THEN a
  ELSE IF {a, b} \subseteq Grids THEN "Grid"
  ELSE IF {a, b} \subseteq Vecs THEN "AnyVec"
  ELSE IF "Unset" \in {a, b} THEN "Any" ELSE "Conflict"

\* The requirements a type satisfies.
Satisfies(type, req) ==
  \/ type = "Any"
  \/ type # "Unset" /\ req = "NonUnset"
  \/ type \in Vecs /\ (req = "AnyVec" \/ (type = "VecInt" /\ req = "VecInt"))
  \/ type \in Grids /\ req \in {type, "Grid"}
  \/ type = "Int" /\ req = "Int"

AllRegisters(type) == [r \in Registers |-> type]

ApplyWrites(i, types) ==
  IF Writes(i) THEN [types EXCEPT ![i.regs[1]] = WrittenKind(i.op)] ELSE types

\* The types before each instruction of a span, and after the last.
TypesAlong(body, types) ==
  LET along[k \in 0 .. Len(body)] ==
        IF k = 0 THEN types ELSE ApplyWrites(body[k], along[k - 1])
  IN  along

\* A block no path reaches contributes nothing to a join: it is recognised by
\* its input being the top.
TypesTransfer(body, types) ==
  IF types = AllRegisters("Any") THEN types
  ELSE TypesAlong(body, types)[Len(body)]

\* Every read of the span finds a type that satisfies it.
ReadsSatisfied(body, types) ==
  LET along == TypesAlong(body, types)
  IN  \A k \in 1 .. Len(body) :
        \A read \in Requires(body[k]) :
          Satisfies(along[k - 1][read[1]], read[2])

-----------------------------------------------------------------------------
(***************************************************************************)
(* Must-init: the set of registers written on every path.  The reads of a  *)
(* span are replayed with "Any" standing for a written register.           *)
(***************************************************************************)
\* Mutant: DROP counts as a write.
InitTransferDropKeeps(body, init) ==
  init \cup {body[k].regs[1] : k \in {m \in DOMAIN body : Writes(body[m])}}

InitTransfer(body, init) ==
  LET along[k \in 0 .. Len(body)] ==
        IF k = 0 THEN init
        ELSE IF ~Writes(body[k]) THEN along[k - 1]
        ELSE IF WrittenKind(body[k].op) = "Unset" THEN along[k - 1] \ {body[k].regs[1]}
        ELSE along[k - 1] \cup {body[k].regs[1]}
  IN  along[Len(body)]

InitReads(body, init) ==
  \A k \in 1 .. Len(body) :
    \A read \in Requires(body[k]) :
      read[1] \in InitTransfer(SubSeq(body, 1, k - 1), init)

-----------------------------------------------------------------------------
(***************************************************************************)
(* Stack depth.                                                            *)
(***************************************************************************)
Unreached == [at |-> "Top", n |-> 0]
Known(n) == [at |-> "Known", n |-> n]
Underflowed == [at |-> "Underflow", n |-> 0]

MeetDepth(a, b) ==
  IF a.at = "Top" THEN b
  ELSE IF b.at = "Top" THEN a
  ELSE IF "Underflow" \in {a.at, b.at} THEN Underflowed
  ELSE IF a.n <= b.n THEN a ELSE b

\* Mutant: only the net effect of a block is compared with the entry depth.
DepthTransferNet(effect, depth) ==
  IF depth.at # "Known" THEN depth
  ELSE IF effect.fixed THEN Known(effect.depth)
  ELSE IF depth.n + effect.depth < 0 THEN Underflowed
  ELSE Known(depth.n + effect.depth)

DepthTransfer(effect, depth) ==
  IF depth.at # "Known" THEN depth
  ELSE IF depth.n < effect.needs \/ effect.underflow THEN Underflowed
  ELSE IF effect.fixed THEN Known(effect.depth)
  ELSE Known(depth.n + effect.depth)

Depths == [at : {"Top", "Known", "Underflow"}, n : Nat]

\* Depth on leaving the NEXT of a loop body entered at `entry`, propagated
\* forwards through the body until nothing changes, without the loop's own
\* back edge and skip edge.
LoopExit(j, bodyStart, after, entry) ==
  LET blocks == DOMAIN j.succs
      out(in, b) == DepthTransfer(j.body[b], in[b])
      MeetOver(in, S) ==
        IF S = {} THEN Unreached
        ELSE CHOOSE d \in {out(in, b) : b \in S} :
               \A b \in S : MeetDepth(d, out(in, b)) = d
      preds(b) == {j.preds[b][i] : i \in DOMAIN j.preds[b]}
      settle[in \in [blocks -> Depths]] ==
        LET next == [b \in blocks |->
                       IF b \in {bodyStart, after} THEN in[b]
                       ELSE MeetDepth(in[b], MeetOver(in, preds(b)))]
        IN  IF next = in THEN in ELSE settle[next]
      settled == settle[[b \in blocks |->
                           IF b = bodyStart THEN entry ELSE Unreached]]
  IN  MeetOver(settled, preds(bodyStart))

\* The loops of a program: the block that ends in the opener, the first block
\* of the body and the first block after the NEXT.
LoopRegions(code) ==
  {[opener |-> CHOOSE b \in Leaders(code) : TerminatorOf(code, b) = pair[1],
    bodyStart |-> pair[1] + 1,
    after |-> pair[2] + 1] : pair \in LoopPairs(code)}

\* A loop body leaves the stack as deep as it found it.
LoopBalanced(j, state, region) ==
  LET entry == state[region.opener]
      exit == LoopExit(j, region.bodyStart, region.after, entry)
  IN  entry.at = "Known" /\ exit.at = "Known" => entry.n = exit.n

\* Mutant: the entry of the program is not counted as an edge.
JoinAgreesAtEdges(j, state, before, n) ==
  LET arriving == {state[j.preds[n][i]] : i \in DOMAIN j.preds[n]}
  IN  before.at # "Top" => Cardinality({d \in arriving : d.at = "Known"}) <= 1

\* All edges into a block arrive with the same depth, the entry of the
\* program counting as an edge.
JoinAgrees(j, state, before, n) ==
  LET arriving == {state[j.preds[n][i]] : i \in DOMAIN j.preds[n]}
                  \cup IF n = j.entry THEN {Known(0)} ELSE {}
      known == {d \in arriving : d.at = "Known"}
  IN  before.at # "Top" => Cardinality(known) <= 1

DepthSafe(before, after) ==
  before.at # "Top" =>
    \A d \in {before, after} : d.at = "Known" /\ d.n <= StackLimit

-----------------------------------------------------------------------------
(***************************************************************************)
(* The operators the solver is generic in.                                 *)
(***************************************************************************)
JobTop(j) ==
  CASE j.kind = "types" -> AllRegisters("Any")
    [] j.kind = "init" -> Registers
    [] j.kind = "depth" -> Unreached

JobBoundary(j) ==
  CASE j.kind = "types" -> AllRegisters("Unset")
    [] j.kind = "init" -> {}
    [] j.kind = "depth" -> Known(0)

\* Mutant: written on some path is enough.
JobMeetMay(j, a, b) ==
  CASE j.kind = "types" -> [r \in Registers |-> MeetReg(a[r], b[r])]
    [] j.kind = "init" -> a \cup b
    [] j.kind = "depth" -> MeetDepth(a, b)

JobMeet(j, a, b) ==
  CASE j.kind = "types" -> [r \in Registers |-> MeetReg(a[r], b[r])]
    [] j.kind = "init" -> a \cap b
    [] j.kind = "depth" -> MeetDepth(a, b)

JobTransfer(j, n, value) ==
  CASE j.kind = "types" -> TypesTransfer(j.body[n], value)
    [] j.kind = "init" -> InitTransfer(j.body[n], value)
    [] j.kind = "depth" -> DepthTransfer(j.body[n], value)
=============================================================================
