------------------------------ MODULE Meaning -------------------------------
(***************************************************************************)
(* What a recorded problem says, read directly from its actions in the     *)
(* order they were recorded (`ordered trace`, spec/xqcp/SPEC.md), with no   *)
(* registers of a machine, no vectors that mix a user's terms with slack,  *)
(* no penalties and no programs: the objective, whether the constraints    *)
(* hold of an assignment, and the outputs.  The compiled programs are      *)
(* checked against it.                                                     *)
(*                                                                         *)
(* An element of a vector remembers whether a slack() put it there: such   *)
(* an element is the encoding's own and no part of a user's sum.           *)
(***************************************************************************)
EXTENDS Problem
LOCAL INSTANCE Evaluator
LOCAL INSTANCE SequencesExt
LOCAL INSTANCE FiniteSetsExt

Term(v)  == [v |-> v, slack |-> FALSE]
Filler(v) == [v |-> v, slack |-> TRUE]
Values(v) == [n \in DOMAIN v |-> v[n].v]
Zeros(n) == <<>> \o [i \in 1..n |-> 0]

\* The reading of a problem p under calldata and an assignment x.
Reading(p, calldata, x) ==
  LET inputs == SelectSeq(p.actions, LAMBDA a : a.kind = "input")
      given(t) == {n \in DOMAIN inputs : calldata[n].t = t}
      value(n) == calldata[n].v
      slot(r) == CHOOSE n \in DOMAIN inputs : inputs[n].reg = r
  IN [env |-> [r \in {inputs[n].reg : n \in given("int")} |-> value(slot(r))],
      vecs |-> [r \in {inputs[n].reg : n \in given("vec")} |->
                  [k \in DOMAIN value(slot(r)) |-> Term(value(slot(r))[k])]],
      x |-> x, size |-> 0, width |-> 2, rows |-> 0, cols |-> 0, lo |-> 0, aux |-> 0,
      domain |-> "none", poly |-> NewModel("binary", 1000), holds |-> TRUE, outs |-> <<>>,
      outputs |-> p.outputs]

Bind(f, k, v) == [y \in DOMAIN f \cup {k} |-> IF y = k THEN v ELSE f[y]]

OutputNumber(s, reg) ==
  LET hits == {n \in DOMAIN s.outputs : s.outputs[n].reg = reg} IN IF hits = {} THEN 0 ELSE Min(hits)

SampleOf(s) == Sample(s.x, s.rows, s.cols)

RECURSIVE Value(_, _)
Value(s, e) ==
  LET k == [i \in DOMAIN e.kids |-> Value(s, e.kids[i])]
      cells == IF e.kind \in {"RowSumExpr", "RowFindExpr"} THEN RowCells(SampleOf(s), k[1])
               ELSE ColCells(SampleOf(s), k[1])
  IN CASE e.kind = "Literal" -> e.val
       [] e.kind \in {"RegLoad", "InputRef", "LoopVar"} -> s.env[e.reg]
       [] e.kind = "VecGetExpr" ->
            IF OutputNumber(s, e.reg) # 0 THEN s.outs[OutputNumber(s, e.reg)][k[1] + 1]
            ELSE s.vecs[e.reg][k[1] + 1].v
       [] e.kind = "VecLenExpr" -> Len(s.vecs[e.reg])
       [] e.kind = "GetLineExpr" -> s.x[k[1] + 1]
       [] e.kind \in {"RowSumExpr", "ColSumExpr"} -> SumOf(SampleOf(s), cells)
       [] e.kind \in {"RowFindExpr", "ColFindExpr"} -> FirstOf(SampleOf(s), cells, e.val)
       [] e.kind = "CoefficientRef" ->
            IF Len(k) = 1 THEN At(s.poly.lin, k[1]) ELSE At(s.poly.quad, Pair(k[1], k[2]))
       [] e.kind = "GridExpr" -> k[1] * k[3] + k[2]
       [] e.kind = "TriuExpr" -> Triu(k[1], k[2])
       [] Len(k) = 1 -> Apply1(e.op, k[1])
       [] OTHER -> Apply2(e.op, k[1], k[2])

Index(s, coord) ==
  IF Len(coord) = 2 THEN Value(s, coord[1]) * s.cols + Value(s, coord[2]) ELSE Value(s, coord[1])

\* The user's sum over a pair of vectors: the assignment's variables only.
UserSum(s, idx, weight(_)) ==
  MapThenSumSet(LAMBDA n : weight(n) * s.x[idx[n].v + 1], {n \in DOMAIN idx : ~idx[n].slack})
Weighted(s, a) == UserSum(s, s.vecs[a.regs[1]], LAMBDA n : s.vecs[a.regs[2]][n].v)
Counted(s, a) == UserSum(s, s.vecs[a.regs[1]], LAMBDA n : 1)

HasFillers(v) == \E n \in DOMAIN v : v[n].slack

\* Whether the assignment meets the constraint that an action states.
Meets(s, a) ==
  LET arg(n) == Value(s, a.exprs[n])
      var(n) == s.x[Index(s, a.coords[n]) + 1]
  IN CASE a.kind = "onehot_row" -> SumOf(SampleOf(s), RowCells(SampleOf(s), arg(1))) = 1
       [] a.kind = "onehot_col" -> SumOf(SampleOf(s), ColCells(SampleOf(s), arg(1))) = 1
       [] a.kind = "exclude" -> ~(var(1) = 1 /\ var(2) = 1)
       [] a.kind = "implies" -> var(1) = 1 => var(2) = 1
       [] a.kind = "equality" ->
            IF HasFillers(s.vecs[a.regs[1]]) THEN Weighted(s, a) <= arg(1) ELSE Weighted(s, a) = arg(1)
       [] a.kind = "inequality" -> Weighted(s, a) <= arg(2)
       [] a.kind = "atleast" -> Counted(s, a) >= arg(1)
       [] a.kind = "atleastw" -> Weighted(s, a) >= arg(1)
       [] a.kind = "reduce" -> s.x[s.aux + 1] = s.x[arg(1) + 1] * s.x[arg(2) + 1]
       [] OTHER -> TRUE

\* slack(start, capacity), and the slack an inequality brings along.
Filled(s, regs, start, capacity) ==
  [s EXCEPT !.vecs[regs[1]] = @ \o [i \in DOMAIN SlackIndices(start, capacity) |-> Filler(0)],
            !.vecs[regs[2]] = @ \o [i \in DOMAIN SlackCoeffs(capacity) |-> Filler(0)]]

Written_(s, a) ==
  LET i == Index(s, a.coords[1])
      w == Value(s, a.exprs[1])
  IN IF a.shift THEN s.poly ELSE
     CASE a.kind = "add_linear" -> AddLine(s.poly, i, w)
       [] a.kind = "set_linear" -> SetLine(s.poly, i, w)
       [] a.kind = "add_quadratic" -> AddQuad(s.poly, i, Index(s, a.coords[2]), w)
       [] OTHER -> SetQuad(s.poly, i, Index(s, a.coords[2]), w)

\* The effect of one action; `met` is the state with its constraint judged.
Does(s, a) ==
  LET met == [s EXCEPT !.holds = @ /\ Meets(s, a)]
      arg(n) == Value(s, a.exprs[n])
  IN CASE a.kind = "define_model" ->
            LET lo == IF a.exprs[5].kind = "None" THEN 0 ELSE arg(5)
            IN [s EXCEPT !.size = arg(1), !.aux = arg(1), !.domain = a.model.domain, !.lo = lo,
                         !.rows = IF a.model.is2d THEN arg(2) ELSE 0,
                         !.cols = IF a.model.is2d THEN arg(3) ELSE 0,
                         !.width = IF a.model.domain = "integer" THEN arg(4) ELSE 2,
                         !.env = IF a.regs[1] = -1 THEN @ ELSE Bind(@, a.regs[1], lo)]
       [] a.kind = "stow" -> [s EXCEPT !.env = Bind(@, a.reg, arg(1))]
       [] a.kind = "vec_alloc" -> [s EXCEPT !.vecs = Bind(@, a.reg, <<>>)]
       [] a.kind = "vec_push" -> [s EXCEPT !.vecs[a.regs[1]] = Append(@, Term(arg(1)))]
       [] a.kind = "slack" -> Filled(s, a.regs, arg(1), arg(2))
       [] a.kind = "inequality" -> Filled(met, a.regs, arg(1), arg(2))
       [] a.kind = "reduce" -> [met EXCEPT !.env = Bind(@, a.reg, s.aux), !.aux = @ + 1]
       [] a.kind \in {"add_linear", "add_quadratic", "set_linear", "set_quadratic"} ->
            [s EXCEPT !.poly = Written_(s, a)]
       [] a.kind = "output_decl" ->
            LET length == s.outputs[Len(s.outs) + 1].length
            IN [s EXCEPT !.outs = Append(@, IF Given(length) THEN Zeros(Value(s, length)) ELSE <<>>)]
       [] a.kind = "output_append" -> [s EXCEPT !.outs[OutputNumber(s, a.reg)] = Append(@, arg(1))]
       [] a.kind = "output_setitem" ->
            [s EXCEPT !.outs[OutputNumber(s, a.reg)] = [@ EXCEPT ![arg(1) + 1] = arg(2)]]
       [] OTHER -> met

\* The position of the action that closes the block opened by the first one.
BlockEnd(actions) ==
  LET depth(n) ==
        Cardinality({i \in 1..n : actions[i].kind \in {"range_start", "iter_start"}}) -
        Cardinality({i \in 1..n : actions[i].kind \in {"range_end", "iter_end"}})
  IN Min({n \in DOMAIN actions : depth(n) = 0})

\* The first arm whose condition holds, or the default.
Chosen(s, a) ==
  LET open == {n \in DOMAIN a.arms :
                 IF Given(a.arms[n].cond) THEN Value(s, a.arms[n].cond) # 0 ELSE TRUE}
  IN IF open = {} THEN <<>> ELSE a.arms[Min(open)].actions

RECURSIVE Plays(_, _), Repeats(_, _, _, _, _)
Repeats(s, a, body, i, end) ==
  IF i >= end THEN s
  ELSE LET entered == IF a.kind = "range_start" THEN [s EXCEPT !.env = Bind(@, a.reg, i)]
                      ELSE [s EXCEPT !.env = Bind(Bind(@, a.regs[2], i), a.regs[3], s.vecs[a.regs[1]][i + 1].v)]
       IN Repeats(Plays(entered, body), a, body, i + 1, end)

Plays(s, actions) ==
  IF actions = <<>> THEN s
  ELSE LET a == Head(actions)
       IN CASE a.kind \in {"range_start", "iter_start"} ->
                 Plays(Repeats(s, a, SubSeq(actions, 2, BlockEnd(actions) - 1),
                               Value(s, a.exprs[1]), Value(s, a.exprs[2])),
                       SubSeq(actions, BlockEnd(actions) + 1, Len(actions)))
            [] a.kind = "branch" -> Plays(Plays(s, Chosen(s, a)), Tail(actions))
            [] OTHER -> Plays(Does(s, a), Tail(actions))

Read(p, calldata, x) == Plays(Reading(p, calldata, x), p.actions)

\* The declared variables are in the domain.
InDomain(s) ==
  \A i \in 1..s.size :
    s.x[i] \in CASE s.domain = "binary" -> {0, 1} [] s.domain = "spin" -> {-1, 1} [] OTHER -> 0..(s.width - 1)

Feasible(s) == InDomain(s) /\ s.holds

\* The objective, in the declared domain of the variables.
Cost(s) == EnergyOf(s.poly, [i \in DOMAIN s.x |-> s.x[i] + s.lo])

=============================================================================
