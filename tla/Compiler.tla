------------------------------ MODULE Compiler ------------------------------
(***************************************************************************)
(* The constraint compiler (xqcp/compiler.py): from the actions a problem  *)
(* recorded to the encoder, the verifier and the decoder.  A program is a  *)
(* sequence of instructions (Evaluator); a RuntimeError of the compiler is *)
(* the instruction <<"REFUSED">>, and a program that holds one is refused. *)
(* Comments, blank lines and indentation are left out.                     *)
(***************************************************************************)
EXTENDS Problem
LOCAL INSTANCE SequencesExt
LOCAL INSTANCE FiniteSetsExt

Starts == {"range_start", "iter_start"}
Ends == {"range_end", "iter_end"}
ConstraintKinds == {"onehot_row", "onehot_col", "exclude", "implies", "equality", "atleast",
                    "atleastw", "inequality"}
GrowingKinds == {"atleast", "atleastw", "inequality"}
BinaryOnlyKinds == ConstraintKinds \cup {"reduce"}
VerifierRegCount == 9
DecoderLoopBase == 10

OfKind(actions, kind) == SelectSeq(actions, LAMBDA a : a.kind = kind)

\* _partition_program: everything before the first output but the inputs and
\* the model.
BodyOf(actions) ==
  LET outputs == {i \in DOMAIN actions : actions[i].kind = "output_decl"}
      before == IF outputs = {} THEN actions ELSE SubSeq(actions, 1, Min(outputs) - 1)
  IN SelectSeq(before, LAMBDA a : a.kind \notin {"input", "define_model"})

RECURSIVE HasConstraint(_)
HasConstraint(actions) ==
  \E i \in DOMAIN actions :
     \/ actions[i].kind \in ConstraintKinds
     \/ \E n \in DOMAIN actions[i].arms : HasConstraint(actions[i].arms[n].actions)

\* The top-level blocks: a loop with its body, or an action on its own.
RECURSIVE Blocks(_, _, _)
Blocks(actions, block, depth) ==
  IF actions = <<>> THEN IF block = <<>> THEN <<>> ELSE <<block>>
  ELSE LET a == Head(actions)
           deeper == IF a.kind \in Starts THEN depth + 1 ELSE IF a.kind \in Ends THEN depth - 1 ELSE depth
       IN IF deeper = 0 THEN <<Append(block, a)>> \o Blocks(Tail(actions), <<>>, 0)
          ELSE Blocks(Tail(actions), Append(block, a), deeper)

\* _partition_body: the objective blocks, then the constraint blocks.
Objective(body) == FlattenSeq(SelectSeq(Blocks(body, <<>>, 0), LAMBDA b : ~HasConstraint(b)))
Constraints(body) == FlattenSeq(SelectSeq(Blocks(body, <<>>, 0), HasConstraint))

-----------------------------------------------------------------------------
(* The walk shared by the encoder and the verifier.  A mode names the      *)
(* target, and for the verifier its registers and what its scan found.     *)

EncoderMode == [target |-> "encoder", base |-> 0, sentinel |-> 0, model |-> 0,
                domain |-> "", slackEqualities |-> {}]

\* The verifier's own registers, above everything the problem allocated.
SampleAt(mode) == mode.base
ValidAt(mode)  == mode.base + 1
EnergyAt(mode) == mode.base + 2
SizeAt(mode)   == mode.base + 3
AccAt(mode)    == mode.base + 4
PosAt(mode)    == mode.base + 5
ElemAt(mode)   == mode.base + 6
AuxAt(mode)    == mode.base + 7
WidthAt(mode)  == mode.base + 8

\* _rewrite_expr: sample reads move to the verifier's sample; a read of a model
\* coefficient is refused.
RECURSIVE VerifierExpr(_, _)
VerifierExpr(mode, e) ==
  LET kids == [i \in DOMAIN e.kids |-> VerifierExpr(mode, e.kids[i])]
  IN CASE e.kind = "CoefficientRef" -> Refusal
       [] e.kind = "GetQuadExpr" /\ e.reg = mode.model -> Refusal
       [] e.kind \in SampleReads /\ e.reg = mode.model -> Refusal
       [] e.kind \in SampleReads /\ e.reg = mode.sentinel ->
            Rebuilt([e EXCEPT !.reg = SampleAt(mode)], kids)
       [] OTHER -> Rebuilt(e, kids)

Xf(mode, e) == IF mode.target = "encoder" THEN e ELSE VerifierExpr(mode, e)
EmitXf(mode, e) == Emit(Xf(mode, e))
EmitCoord(mode, model, coord) ==
  EmitIndex([i \in DOMAIN coord |-> Xf(mode, coord[i])], model.is2d, model.cols)

\* RANGE takes a count: end when the start is the literal 0, else end - start.
EmitBounds(start, end) ==
  Emit(start) \o Emit(end) \o
  (IF start = Literal(0) THEN <<>> ELSE Append(Emit(start), <<"SUB">>)) \o <<<<"RANGE">>>>

\* _ENCODER_OPS: the instructions an action makes on the model.
Opcode == [add_linear |-> "ADDLINE", add_quadratic |-> "ADDQUAD", set_linear |-> "SETLINE",
           set_quadratic |-> "SETQUAD", exclude |-> "EXCLUDE", implies |-> "IMPLIES",
           onehot_row |-> "ONEHOTR", onehot_col |-> "ONEHOTC", equality |-> "EQUALITY",
           atleast |-> "ATLEAST", atleastw |-> "ATLEASTW", reduce |-> "REDUCE"]

\* A constraint ends in its penalty and the instruction that expands it.
PenaltyOp(a, op) == <<<<"PUSH", a.penalty>>, <<op, a.model.reg>> \o a.regs>>

EncoderOp(a) ==
  LET coords == FlattenSeq([n \in DOMAIN a.coords |-> EmitCoord(EncoderMode, a.model, a.coords[n])])
      exprs == FlattenSeq([n \in DOMAIN a.exprs |-> Emit(a.exprs[n])])
  IN CASE a.kind \in {"add_linear", "add_quadratic", "set_linear", "set_quadratic"} ->
            coords \o exprs \o <<<<Opcode[a.kind], a.model.reg>>>>
       [] a.kind \in {"exclude", "implies", "onehot_row", "onehot_col", "equality", "atleast", "atleastw"} ->
            coords \o exprs \o PenaltyOp(a, Opcode[a.kind])
       [] a.kind = "slack" -> exprs \o <<<<"SLACK">> \o a.regs>>
       [] a.kind = "reduce" -> exprs \o <<<<"REDUCE", a.model.reg>>, <<"STOW", a.reg>>>>
       \* target is the slack start; capacity bounds the slack and the sum
       [] a.kind = "inequality" ->
            exprs \o <<<<"SLACK">> \o a.regs>> \o Emit(a.exprs[2]) \o
            PenaltyOp(a, "EQUALITY")

-----------------------------------------------------------------------------
(* The verifier's check of the sample in place of each constraint.         *)

Commit(mode) == <<<<"LOAD", ValidAt(mode)>>, <<"AND">>, <<"STOW", ValidAt(mode)>>>>
SampleLine(mode) == <<<<"GETLINE", SampleAt(mode)>>>>

\* _sum_into_acc: the weighted sum of the sample over a vector of indices.
SumIntoAcc(mode, idx, co) ==
  <<<<"PUSH", 0>>, <<"STOW", AccAt(mode)>>, <<"PUSH", 0>>, <<"VECLEN", idx>>, <<"ITER", idx>>>> \o
  (IF co = -1 THEN <<>> ELSE <<<<"LIDX", PosAt(mode)>>>>) \o <<<<"LVAL", ElemAt(mode)>>>> \o
  (IF co = -1 THEN <<>> ELSE <<<<"LOAD", PosAt(mode)>>, <<"VECGET", co>>>>) \o
  <<<<"LOAD", ElemAt(mode)>>>> \o SampleLine(mode) \o (IF co = -1 THEN <<>> ELSE <<<<"MUL">>>>) \o
  <<<<"LOAD", AccAt(mode)>>, <<"ADD">>, <<"STOW", AccAt(mode)>>, <<"NEXT">>>>

CheckSum(mode, idx, co, bound, op) ==
  SumIntoAcc(mode, idx, co) \o <<<<"LOAD", AccAt(mode)>>>> \o EmitXf(mode, bound) \o <<<<op>>>> \o Commit(mode)

CheckLine(mode, a, op) ==
  EmitXf(mode, a.exprs[1]) \o <<<<op, SampleAt(mode)>>, <<"PUSH", 1>>, <<"EQ">>>> \o Commit(mode)

CheckPair(mode, a, test) ==
  EmitCoord(mode, a.model, a.coords[1]) \o SampleLine(mode) \o
  EmitCoord(mode, a.model, a.coords[2]) \o SampleLine(mode) \o test \o Commit(mode)

\* Mutant: the counter stands still, so a second reduce() checks the first one's.
MutCheckReduce(mode, a) ==
  <<<<"LOAD", AuxAt(mode)>>, <<"STOW", a.reg>>, <<"LOAD", a.reg>>>> \o SampleLine(mode) \o
  EmitXf(mode, a.exprs[1]) \o SampleLine(mode) \o EmitXf(mode, a.exprs[2]) \o SampleLine(mode) \o
  <<<<"MUL">>, <<"EQ">>>> \o Commit(mode)

\* The auxiliary's index comes from a shadow counter, and goes where the
\* encoder put it, so that a chained reduce() resolves.
CheckReduce(mode, a) ==
  <<<<"LOAD", AuxAt(mode)>>, <<"STOW", a.reg>>,
    <<"LOAD", AuxAt(mode)>>, <<"INC">>, <<"STOW", AuxAt(mode)>>, <<"LOAD", a.reg>>>> \o SampleLine(mode) \o
  EmitXf(mode, a.exprs[1]) \o SampleLine(mode) \o EmitXf(mode, a.exprs[2]) \o SampleLine(mode) \o
  <<<<"MUL">>, <<"EQ">>>> \o Commit(mode)

VerifierOp(mode, a) ==
  CASE a.kind = "onehot_row" -> CheckLine(mode, a, "ROWSUM")
    [] a.kind = "onehot_col" -> CheckLine(mode, a, "COLSUM")
    [] a.kind = "exclude" -> CheckPair(mode, a, <<<<"MUL">>, <<"PUSH", 0>>, <<"EQ">>>>)
    [] a.kind = "implies" -> CheckPair(mode, a, <<<<"LTE">>>>)
    [] a.kind = "equality" ->
         CheckSum(mode, a.regs[1], a.regs[2], a.exprs[1],
                  IF a.id \in mode.slackEqualities THEN "LTE" ELSE "EQ")
    [] a.kind = "inequality" -> CheckSum(mode, a.regs[1], a.regs[2], a.exprs[2], "LTE")
    [] a.kind = "atleast" -> CheckSum(mode, a.regs[1], -1, a.exprs[1], "GTE")
    [] a.kind = "atleastw" -> CheckSum(mode, a.regs[1], a.regs[2], a.exprs[1], "GTE")
    [] a.kind = "reduce" -> CheckReduce(mode, a)
    [] OTHER -> <<>>

\* emit_domain_check: every declared variable is in the domain.
DomainTest(mode) ==
  IF mode.domain = "integer"
  THEN <<<<"PUSH", 0>>, <<"GTE">>, <<"SWAP">>, <<"LOAD", WidthAt(mode)>>, <<"LT">>, <<"AND">>>>
  ELSE <<<<"PUSH", IF mode.domain = "binary" THEN 0 ELSE -1>>, <<"EQ">>, <<"SWAP">>,
         <<"PUSH", 1>>, <<"EQ">>, <<"OR">>>>

DomainCheck(mode) ==
  <<<<"PUSH", 0>>, <<"LOAD", SizeAt(mode)>>, <<"RANGE">>, <<"LVAL", PosAt(mode)>>,
    <<"LOAD", PosAt(mode)>>>> \o SampleLine(mode) \o <<<<"COPY">>>> \o DomainTest(mode) \o
  Commit(mode) \o <<<<"NEXT">>>>

-----------------------------------------------------------------------------
(* _emit_body_actions: structure is emitted alike for both targets, and a  *)
(* model action through the target's own table.                            *)

Jump(a, n) == <<a.id, n>>   \* the label behind arm n; 0 is the end

RECURSIVE EmitBody(_, _)
EmitArm(mode, a, n) ==
  LET arm == a.arms[n]
  IN IF arm.cond.kind = "None" THEN EmitBody(mode, arm.actions)
     ELSE EmitXf(mode, arm.cond) \o <<<<"NOT">>, <<"JUMPI", Jump(a, n)>>>> \o
          EmitBody(mode, arm.actions) \o <<<<"JUMP", Jump(a, 0)>>, <<"TARGET", Jump(a, n)>>>>

EmitAction(mode, a) ==
  CASE a.kind = "range_start" ->
         Append(EmitBounds(Xf(mode, a.exprs[1]), Xf(mode, a.exprs[2])), <<"LVAL", a.reg>>)
    [] a.kind = "iter_start" ->
         EmitXf(mode, a.exprs[1]) \o EmitXf(mode, a.exprs[2]) \o
         <<<<"ITER", a.regs[1]>>, <<"LIDX", a.regs[2]>>, <<"LVAL", a.regs[3]>>>>
    [] a.kind \in Ends -> <<<<"NEXT">>>>
    [] a.kind = "stow" -> Append(EmitXf(mode, a.exprs[1]), <<"STOW", a.reg>>)
    [] a.kind = "vec_alloc" -> <<<<"VEC", a.reg>>>>
    [] a.kind = "vec_push" -> Append(EmitXf(mode, a.exprs[1]), <<"VECPUSH", a.regs[1]>>)
    [] a.kind = "branch" ->
         Append(FlattenSeq([n \in DOMAIN a.arms |-> EmitArm(mode, a, n)]), <<"TARGET", Jump(a, 0)>>)
    [] OTHER -> IF mode.target = "encoder" THEN EncoderOp(a) ELSE VerifierOp(mode, a)

EmitBody(mode, actions) == FlattenSeq([i \in DOMAIN actions |-> EmitAction(mode, actions[i])])

\* Both programs run the objective blocks first.
Replay(p) == Objective(BodyOf(p.actions)) \o Constraints(BodyOf(p.actions))

EmitInputs(p) ==
  FlattenSeq([i \in DOMAIN OfKind(p.actions, "input") |->
    LET r == OfKind(p.actions, "input")[i].reg IN <<<<"PUSH", r>>, <<"INPUT", r>>>>])

\* _emit_size_expr: n * n is one load and a square.
EmitSize(e) ==
  IF e.kind = "BinOp" /\ e.op = "MUL" /\ e.kids[1].kind \in {"RegLoad", "InputRef"} /\ e.kids[1] = e.kids[2]
  THEN Emit(e.kids[1]) \o <<<<"SQR">>>> ELSE Emit(e)

\* The last define_model() recorded, with its size, rows, cols, width and lo.
ModelAction(p) == Last(OfKind(p.actions, "define_model"))
Allocator == [binary |-> "BQMX", spin |-> "SQMX", integer |-> "XQMX"]

EmitAllocation(a) ==
  EmitSize(a.exprs[1]) \o (IF a.model.domain = "integer" THEN Emit(a.exprs[4]) ELSE <<>>) \o
  <<<<Allocator[a.model.domain], a.reg>>>> \o
  (IF a.regs[1] = -1 THEN <<>> ELSE Append(Emit(a.exprs[5]), <<"STOW", a.regs[1]>>)) \o
  (IF ~a.model.is2d THEN <<>>
   ELSE Emit(a.exprs[3]) \o <<<<"STOW", a.model.cols>>>> \o Emit(a.exprs[2]) \o
        <<<<"LOAD", a.model.cols>>, <<"RESIZE", a.reg>>>>)

Encoder(p) ==
  EmitInputs(p) \o EmitAllocation(ModelAction(p)) \o EmitBody(EncoderMode, Replay(p)) \o
  <<<<"PUSH", 0>>, <<"OUTPUT", ModelAction(p).reg>>, <<"HALT">>>>

-----------------------------------------------------------------------------
(* The analyses the verifier rests on.                                     *)

\* _walk_scoped: the leaves in execution order, each with its loops and arms.
RECURSIVE Walk(_, _)
Walk(actions, scopes) ==
  IF actions = <<>> THEN <<>>
  ELSE LET a == Head(actions)
           here == Last(scopes)
       IN CASE a.kind \in Ends ->
                 Walk(Tail(actions), IF Len(scopes) > 1 THEN Front(scopes) ELSE scopes)
            [] a.kind \in Starts -> Walk(Tail(actions), Append(scopes, Append(here, <<a.id, 0>>)))
            [] a.kind = "branch" ->
                 FlattenSeq([n \in DOMAIN a.arms |->
                   Walk(a.arms[n].actions, <<Append(here, <<a.id, n>>)>>)]) \o Walk(Tail(actions), scopes)
            [] OTHER -> <<[a |-> a, scope |-> here]>> \o Walk(Tail(actions), scopes)

Leaves(p) == Walk(Replay(p), <<<<>>>>)

\* _scan_slack_equalities: the equalities over vectors that SLACK extended, by
\* a pass over the leaves; -1 for a slack() and an equality in other scopes.
Without(live, reg) == [k \in {x \in DOMAIN live : reg \notin {x[1], x[2]}} |-> live[k]]
With(live, key, scope) == [k \in DOMAIN live \cup {key} |-> IF k = key THEN scope ELSE live[k]]

RECURSIVE SlackScan(_, _)
SlackScan(leaves, live) ==
  IF leaves = <<>> THEN {}
  ELSE LET a == Head(leaves).a
           scope == Head(leaves).scope
           rest(l) == SlackScan(Tail(leaves), l)
       IN CASE a.kind = "vec_alloc" -> rest(Without(live, a.reg))
            [] a.kind \in {"slack", "inequality"} -> rest(With(live, a.regs, scope))
            [] a.kind = "equality" /\ a.regs \in DOMAIN live ->
                 {IF live[a.regs] = scope THEN a.id ELSE -1} \cup rest(live)
            [] OTHER -> rest(live)

\* _check_reduce_ordering: no growing constraint before a reduce(), nor in a
\* block with one.
SharesBlock(s, t) == s # <<>> /\ t # <<>> /\ s[1] = t[1]

GrowsBeforeReduce(leaves, slackEqualities) ==
  \E g, r \in DOMAIN leaves :
    /\ leaves[r].a.kind = "reduce"
    /\ \/ leaves[g].a.kind \in GrowingKinds
       \/ leaves[g].a.kind = "equality" /\ leaves[g].a.id \in slackEqualities
    /\ g < r \/ SharesBlock(leaves[g].scope, leaves[r].scope)

VerifierMode(p) ==
  [target |-> "verifier", base |-> p.alloc, sentinel |-> ModelAction(p).reg + 100,
   model |-> ModelAction(p).reg, domain |-> ModelAction(p).model.domain,
   slackEqualities |-> SlackScan(Leaves(p), [k \in {} |-> 0])]

\* reject_unsupported: constraints that mean something on 0/1 variables only.
BinaryOnlyUsed(p) ==
  /\ ModelAction(p).model.domain # "binary"
  /\ \E i \in DOMAIN Leaves(p) : Leaves(p)[i].a.kind \in BinaryOnlyKinds

VerifierRefuses(p) ==
  \/ p.alloc + VerifierRegCount - 1 > LastReg
  \/ -1 \in VerifierMode(p).slackEqualities
  \/ GrowsBeforeReduce(Leaves(p), VerifierMode(p).slackEqualities)
  \/ BinaryOnlyUsed(p)

\* compile_verifier: the encoder's inputs, the model and the sample; the shape
\* of the model; the domain; the replay; the energy.
Verifier(p) ==
  LET mode == VerifierMode(p)
      shape == ModelAction(p)
      slot == Len(OfKind(p.actions, "input"))
  IN EmitInputs(p) \o
     <<<<"PUSH", slot>>, <<"INPUT", mode.model>>, <<"PUSH", slot + 1>>, <<"INPUT", SampleAt(mode)>>>> \o
     Append(EmitSize(shape.exprs[1]), <<"STOW", SizeAt(mode)>>) \o
     (IF mode.domain = "integer" THEN Append(Emit(shape.exprs[4]), <<"STOW", WidthAt(mode)>>) ELSE <<>>) \o
     (IF shape.model.is2d THEN Append(Emit(shape.exprs[3]), <<"STOW", shape.model.cols>>) ELSE <<>>) \o
     <<<<"PUSH", 1>>, <<"STOW", ValidAt(mode)>>>> \o
     (IF \E i \in DOMAIN Leaves(p) : Leaves(p)[i].a.kind = "reduce"
      THEN <<<<"LOAD", SizeAt(mode)>>, <<"STOW", AuxAt(mode)>>>> ELSE <<>>) \o
     DomainCheck(mode) \o EmitBody(mode, Replay(p)) \o
     <<<<"ENERGY", mode.model, SampleAt(mode)>>, <<"STOW", EnergyAt(mode)>>,
       <<"PUSH", 0>>, <<"OUTPUT", EnergyAt(mode)>>, <<"PUSH", 1>>, <<"OUTPUT", ValidAt(mode)>>, <<"HALT">>>>

-----------------------------------------------------------------------------
(* The decoder: a program of its own over the sample and one scalar.       *)

\* _decoder_actions: everything from the first output on.
DecoderActions(p) ==
  LET outputs == {i \in DOMAIN p.actions : p.actions[i].kind = "output_decl"}
  IN IF outputs = {} THEN <<>> ELSE SubSeq(p.actions, Min(outputs), Len(p.actions))

\* The registers of the decoder: 0 the sample, 1 the scalar, then the outputs
\* in their order, and above them the loops that are open.
OutputReg(p, reg) ==
  LET hits == {n \in DOMAIN p.outputs : p.outputs[n].reg = reg}
  IN IF hits = {} THEN -1 ELSE 1 + Min(hits)
LoopBase(p) == IF Len(p.outputs) + 2 > DecoderLoopBase THEN Len(p.outputs) + 2 ELSE DecoderLoopBase
\* Mutant: nested loops share the register of the outer one.
MutLoopReg(p, open, reg) == IF \E n \in DOMAIN open : open[n] = reg THEN LoopBase(p) ELSE -1
LoopReg(p, open, reg) ==
  LET hits == {n \in DOMAIN open : open[n] = reg}
  IN IF hits = {} THEN -1 ELSE LoopBase(p) + Min(hits) - 1

\* sample_reg: a read of the sample moves to the decoder's; one of the model is
\* refused.
SampleTarget(p, reg) == IF reg = SampleReg(p) THEN 0 ELSE -1

\* _rewrite_decoder_expr: every node resolves onto one of these registers, or
\* is refused.
RECURSIVE DecoderExpr(_, _, _)
DecoderExpr(p, open, e) ==
  LET kids == [i \in DOMAIN e.kids |-> DecoderExpr(p, open, e.kids[i])]
      moved(reg) == IF reg = -1 THEN Refusal ELSE Rebuilt([e EXCEPT !.reg = reg], kids)
  IN CASE e.kind = "LoopVar" ->
            IF LoopReg(p, open, e.reg) = -1 THEN Refusal ELSE RegLoad(LoopReg(p, open, e.reg))
       [] e.kind = "RegLoad" \/ (e.kind = "InputRef" /\ e.op = "Int") -> RegLoad(1)
       [] e.kind \in SampleReads -> moved(SampleTarget(p, e.reg))
       [] e.kind = "VecGetExpr" -> moved(OutputReg(p, e.reg))
       [] e.kind \in {"InputRef", "CoefficientRef", "GetQuadExpr", "VecLenExpr"} -> Refusal
       [] OTHER -> Rebuilt(e, kids)

\* The scalars an expression of the decoder names: slot 1 can carry only one.
RECURSIVE Scalars(_)
Scalars(e) ==
  (IF e.kind \in {"RegLoad", "InputRef"} THEN {e.reg} ELSE {}) \cup
  UNION {Scalars(e.kids[i]) : i \in DOMAIN e.kids}

RECURSIVE ScalarsOf(_)
ScalarsOf(actions) ==
  UNION {UNION {Scalars(actions[i].exprs[n]) : n \in DOMAIN actions[i].exprs} \cup
         UNION {Scalars(actions[i].arms[n].cond) \cup ScalarsOf(actions[i].arms[n].actions) :
                n \in DOMAIN actions[i].arms} : i \in DOMAIN actions}

DecoderScalars(p) ==
  ScalarsOf(DecoderActions(p)) \cup UNION {Scalars(p.outputs[n].length) : n \in DOMAIN p.outputs}

\* _emit_decoder_block: the bounds of a loop are rewritten before it opens, a
\* branch hands each arm to the same walker, and the rest of the kinds are
\* refused.
RECURSIVE DecoderBlock(_, _, _)
DecoderArm(p, open, a, n) ==
  LET arm == a.arms[n]
  IN IF arm.cond.kind = "None" THEN DecoderBlock(p, open, arm.actions)
     ELSE Emit(DecoderExpr(p, open, arm.cond)) \o <<<<"NOT">>, <<"JUMPI", Jump(a, n)>>>> \o
          DecoderBlock(p, open, arm.actions) \o <<<<"JUMP", Jump(a, 0)>>, <<"TARGET", Jump(a, n)>>>>

DecoderAction(p, open, a) ==
  LET args == [n \in DOMAIN a.exprs |-> DecoderExpr(p, open, a.exprs[n])]
      pushed == FlattenSeq([n \in DOMAIN args |-> Emit(args[n])])
  IN CASE a.kind = "output_decl" -> <<>>
       [] a.kind = "range_start" ->
            Append(EmitBounds(args[1], args[2]), <<"LVAL", LoopBase(p) + Len(open)>>)
       [] a.kind = "range_end" -> <<<<"NEXT">>>>
       [] a.kind = "output_append" -> Append(pushed, <<"VECPUSH", OutputReg(p, a.reg)>>)
       [] a.kind = "output_setitem" -> Append(pushed, <<"VECSET", OutputReg(p, a.reg)>>)
       [] a.kind = "branch" ->
            Append(FlattenSeq([n \in DOMAIN a.arms |-> DecoderArm(p, open, a, n)]), <<"TARGET", Jump(a, 0)>>)
       [] OTHER -> Emit(Refusal)

DecoderBlock(p, open, actions) ==
  IF actions = <<>> THEN <<>>
  ELSE LET a == Head(actions)
           after == IF a.kind = "range_start" THEN Append(open, a.reg)
                    ELSE IF a.kind = "range_end" /\ open # <<>> THEN Front(open) ELSE open
       IN DecoderAction(p, open, a) \o DecoderBlock(p, after, Tail(actions))

\* An output with a length starts as that many zeros.
EmitOutput(p, n) ==
  <<<<"VECI", n + 1>>>> \o
  (IF p.outputs[n].length.kind = "None" THEN <<>>
   ELSE <<<<"PUSH", 0>>>> \o Emit(DecoderExpr(p, <<>>, p.outputs[n].length)) \o
        <<<<"RANGE">>, <<"PUSH", 0>>, <<"VECPUSH", n + 1>>, <<"NEXT">>>>)

Decoder(p) ==
  <<<<"PUSH", 0>>, <<"INPUT", 0>>, <<"PUSH", 1>>, <<"INPUT", 1>>>> \o
  (IF Cardinality(DecoderScalars(p)) > 1 THEN Emit(Refusal) ELSE <<>>) \o
  FlattenSeq([n \in DOMAIN p.outputs |-> EmitOutput(p, n)]) \o
  (IF p.outputs = <<>> THEN <<>> ELSE DecoderBlock(p, <<>>, DecoderActions(p))) \o
  FlattenSeq([n \in DOMAIN p.outputs |-> <<<<"PUSH", n - 1>>, <<"OUTPUT", n + 1>>>>]) \o <<<<"HALT">>>>

\* Problem.compile: the three programs, or the error of one of them.  The
\* check by xqffi that follows is skipped where xqffi is not installed.
Refused(prog) == \E i \in DOMAIN prog : prog[i] = <<"REFUSED">>

Compilable(p) ==
  /\ p.model # NoModel
  /\ ~VerifierRefuses(p)
  /\ ~Refused(Encoder(p)) /\ ~Refused(Verifier(p)) /\ ~Refused(Decoder(p))

=============================================================================
