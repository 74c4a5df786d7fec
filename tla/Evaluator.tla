----------------------------- MODULE Evaluator ------------------------------
(***************************************************************************)
(* Running a compiled program: the opcodes the constraint compiler emits,  *)
(* with the values they compute (exec_* in xqvm/src/vm.rs).  Xqvm models   *)
(* the interpreter itself, with its budgets; here a run is a function from *)
(* a program and its calldata to the machine it halts in.                  *)
(*                                                                         *)
(* A program is a sequence of instructions, an instruction a tuple of the  *)
(* opcode and its operands.  A register holds nothing, a number, a vector, *)
(* a model or a sample.  Any fault ends the run with status "fault".       *)
(***************************************************************************)
EXTENDS Expansion
LOCAL INSTANCE Integers
LOCAL INSTANCE Sequences
LOCAL INSTANCE FiniteSetsExt

Unset == [t |-> "unset"]
Number(v) == [t |-> "int", v |-> v]
VecOf(s) == [t |-> "vec", v |-> s]

NewMachine(prog, calldata) ==
  [prog |-> prog, calldata |-> calldata, pc |-> 1, stack |-> <<>>, frames |-> <<>>,
   regs |-> [r \in 0..255 |-> Unset], out |-> [s \in 0..15 |-> Unset], status |-> "running"]

Failed(m) == [m EXCEPT !.status = "fault"]

\* The top of the stack is its last element; Top(m, 0) is the last push.
Top(m, n) == m.stack[Len(m.stack) - n]
Popped(m, n) == SubSeq(m.stack, 1, Len(m.stack) - n)

Flag(b) == IF b THEN 1 ELSE 0

Binary == {"ADD", "SUB", "MUL", "MOD", "DIV", "EQ", "LT", "GT", "LTE", "GTE", "AND", "OR", "IDXTRIU"}
Unary == {"NEG", "NOT", "INC", "DEC", "SQR", "BITLEN"}

\* The flat index of a pair in the upper triangle, whichever order it comes in.
Triu(i, j) ==
  LET lo == IF i > j THEN j ELSE i
      hi == IF i > j THEN i ELSE j
  IN (hi * (hi - 1)) \div 2 + lo

\* Floor division, and the remainder with the divisor's sign.
FloorDiv(a, b) == IF b > 0 THEN a \div b ELSE (-a) \div (-b)

Apply2(op, a, b) ==
  CASE op = "ADD" -> a + b
    [] op = "SUB" -> a - b
    [] op = "MUL" -> a * b
    [] op = "DIV" -> FloorDiv(a, b)
    [] op = "MOD" -> a - b * FloorDiv(a, b)
    [] op = "EQ"  -> Flag(a = b)
    [] op = "LT"  -> Flag(a < b)
    [] op = "GT"  -> Flag(a > b)
    [] op = "LTE" -> Flag(a <= b)
    [] op = "GTE" -> Flag(a >= b)
    [] op = "AND" -> Flag(a # 0 /\ b # 0)
    [] op = "OR"  -> Flag(a # 0 \/ b # 0)
    [] op = "IDXTRIU" -> Triu(a, b)

Apply1(op, a) ==
  CASE op = "NEG" -> -a
    [] op = "NOT" -> Flag(a = 0)
    [] op = "INC" -> a + 1
    [] op = "DEC" -> a - 1
    [] op = "SQR" -> a * a
    [] op = "BITLEN" -> IF a <= 0 THEN 0 ELSE BitLength(a)

\* The steps of a machine: the rest of the stack is s, and the next pc follows.
Continue(m, s) == [m EXCEPT !.stack = s, !.pc = @ + 1]
Push(m, n, v) == Continue(m, Append(Popped(m, n), v))
Write(m, n, r, v) ==
  IF v = Fault THEN Failed(m) ELSE [Continue(m, Popped(m, n)) EXCEPT !.regs[r] = v]

IsA(m, r, t) == m.regs[r].t \in t
Grid == {"model", "sample"}

\* A sample's values and a model's linear coefficients are read alike.
Linear(g, i) == IF g.t = "sample" THEN g.values[i + 1] ELSE At(g.lin, i)

RECURSIVE SumOf(_, _)
SumOf(g, cells) == IF cells = <<>> THEN 0 ELSE Linear(g, Head(cells)) + SumOf(g, Tail(cells))

FirstOf(g, cells, v) ==
  LET hits == {n \in DOMAIN cells : Linear(g, cells[n]) = v}
  IN IF hits = {} THEN -1 ELSE Min(hits) - 1

\* SkipLoop: the position after the NEXT that closes the loop opened before p.
RECURSIVE AfterLoop(_, _, _)
AfterLoop(prog, p, depth) ==
  CASE prog[p][1] \in {"RANGE", "ITER"} -> AfterLoop(prog, p + 1, depth + 1)
    [] prog[p][1] = "NEXT" -> IF depth = 1 THEN p + 1 ELSE AfterLoop(prog, p + 1, depth - 1)
    [] OTHER -> AfterLoop(prog, p + 1, depth)

TargetOf(prog, label) == CHOOSE p \in DOMAIN prog : prog[p] = <<"TARGET", label>>

\* A frame: the values LVAL reads, the index LIDX reads for the first of them,
\* the place in the slice, and where the body starts.
Opened(m, values, first) ==
  IF values = <<>> THEN [m EXCEPT !.stack = Popped(m, 2), !.pc = AfterLoop(m.prog, m.pc + 1, 1)]
  ELSE [Continue(m, Popped(m, 2)) EXCEPT
          !.frames = Append(@, [values |-> values, first |-> first, at |-> 1, body |-> m.pc + 1])]

Iterate(m, r) ==
  LET v == m.regs[r].v  first == Top(m, 1)  end == Top(m, 0)
  IN IF first >= end THEN Opened(m, <<>>, 0)
     ELSE IF first < 0 \/ end > Len(v) THEN Failed(m)
     ELSE Opened(m, SubSeq(v, first + 1, end), first)

NextIteration(m) ==
  LET f == m.frames[Len(m.frames)]
  IN IF f.at < Len(f.values)
     THEN [m EXCEPT !.frames[Len(m.frames)].at = @ + 1, !.pc = f.body]
     ELSE [m EXCEPT !.frames = SubSeq(@, 1, Len(@) - 1), !.pc = @ + 1]

\* The register an opcode needs, by the kind of value it must hold.
NeedsVec == {"VECPUSH", "VECGET", "VECSET", "VECLEN", "ITER", "SLACK"}
NeedsGrid == {"GETLINE", "RESIZE", "ROWSUM", "COLSUM", "ROWFIND", "COLFIND"}
NeedsModel == {"SETLINE", "ADDLINE", "GETQUAD", "SETQUAD", "ADDQUAD", "ONEHOTR", "ONEHOTC", "EXCLUDE",
               "IMPLIES", "EQUALITY", "ATLEAST", "ATLEASTW", "REDUCE", "ENERGY"}

MisTyped(m, i) ==
  \/ i[1] = "LOAD" /\ ~IsA(m, i[2], {"int"})
  \/ i[1] = "OUTPUT" /\ IsA(m, i[2], {"unset"})
  \/ i[1] \in NeedsVec /\ \E n \in 2..Len(i) : ~IsA(m, i[n], {"vec"})
  \/ i[1] \in NeedsGrid /\ ~IsA(m, i[2], Grid)
  \/ i[1] \in NeedsModel /\ ~IsA(m, i[2], {"model"})
  \/ i[1] \in NeedsModel \ {"ENERGY"} /\ \E n \in 3..Len(i) : ~IsA(m, i[n], {"vec"})
  \/ i[1] = "ENERGY" /\ ~IsA(m, i[3], {"sample"})

Control == {"RANGE", "ITER", "NEXT", "LVAL", "LIDX", "JUMP", "JUMPI", "TARGET", "HALT"}

StepControl(m, i) ==
  LET frame == m.frames[Len(m.frames)]
  IN CASE i[1] = "RANGE" -> Opened(m, [n \in 1..Top(m, 0) |-> Top(m, 1) + n - 1], Top(m, 1))
       [] i[1] = "ITER" -> Iterate(m, i[2])
       [] i[1] = "NEXT" -> NextIteration(m)
       [] i[1] = "LVAL" -> Write(m, 0, i[2], Number(frame.values[frame.at]))
       [] i[1] = "LIDX" -> Write(m, 0, i[2], Number(frame.first + frame.at - 1))
       [] i[1] = "JUMP" -> [m EXCEPT !.pc = TargetOf(m.prog, i[2])]
       [] i[1] = "JUMPI" -> [m EXCEPT !.stack = Popped(m, 1),
                                      !.pc = IF Top(m, 0) # 0 THEN TargetOf(m.prog, i[2]) ELSE @ + 1]
       [] i[1] = "TARGET" -> Continue(m, m.stack)
       [] i[1] = "HALT" -> [m EXCEPT !.status = "halted"]

\* Opcodes on a vector or a model in register i[2]; x is what it holds.
StepData(m, i, x) ==
  CASE i[1] = "VECPUSH" -> Write(m, 1, i[2], VecOf(Append(x.v, Top(m, 0))))
    [] i[1] = "VECLEN" -> Push(m, 0, Len(x.v))
    [] i[1] = "VECGET" ->
         IF Top(m, 0) \in 0..(Len(x.v) - 1) THEN Push(m, 1, x.v[Top(m, 0) + 1]) ELSE Failed(m)
    [] i[1] = "VECSET" ->
         IF Top(m, 1) \in 0..(Len(x.v) - 1)
         THEN Write(m, 2, i[2], VecOf([x.v EXCEPT ![Top(m, 1) + 1] = Top(m, 0)])) ELSE Failed(m)
    [] i[1] = "SLACK" ->
         Write([m EXCEPT !.regs[i[2]].v = @ \o SlackIndices(Top(m, 1), Top(m, 0))], 2, i[3],
               VecOf(m.regs[i[3]].v \o SlackCoeffs(Top(m, 0))))
    [] i[1] = "GETLINE" ->
         IF InModel(x, Top(m, 0)) THEN Push(m, 1, Linear(x, Top(m, 0))) ELSE Failed(m)
    [] i[1] = "GETQUAD" ->
         IF InModel(x, Top(m, 0)) /\ InModel(x, Top(m, 1))
         THEN Push(m, 2, At(x.quad, Pair(Top(m, 1), Top(m, 0)))) ELSE Failed(m)
    [] i[1] \in {"ROWSUM", "COLSUM"} ->
         LET cells == IF i[1] = "ROWSUM" THEN RowCells(x, Top(m, 0)) ELSE ColCells(x, Top(m, 0))
         IN IF cells = <<>> THEN Failed(m) ELSE Push(m, 1, SumOf(x, cells))
    [] i[1] \in {"ROWFIND", "COLFIND"} ->
         LET cells == IF i[1] = "ROWFIND" THEN RowCells(x, Top(m, 1)) ELSE ColCells(x, Top(m, 1))
         IN IF cells = <<>> THEN Failed(m) ELSE Push(m, 2, FirstOf(x, cells, Top(m, 0)))
    [] i[1] = "RESIZE" -> Write(m, 2, i[2], Resize(x, Top(m, 1), Top(m, 0)))
    [] i[1] = "ENERGY" ->
         LET s == m.regs[i[3]]
         IN IF s.size # x.size THEN Failed(m) ELSE Push(m, 0, EnergyOf(x, s.values))

\* Opcodes that rewrite the model x of register i[2].
StepModel(m, i, x) ==
  LET vec(n) == m.regs[i[n]].v
  IN CASE i[1] = "SETLINE" -> Write(m, 2, i[2], SetLine(x, Top(m, 1), Top(m, 0)))
       [] i[1] = "ADDLINE" -> Write(m, 2, i[2], AddLine(x, Top(m, 1), Top(m, 0)))
       [] i[1] = "SETQUAD" -> Write(m, 3, i[2], SetQuad(x, Top(m, 2), Top(m, 1), Top(m, 0)))
       [] i[1] = "ADDQUAD" -> Write(m, 3, i[2], AddQuad(x, Top(m, 2), Top(m, 1), Top(m, 0)))
       [] i[1] = "ONEHOTR" -> Write(m, 2, i[2], OneHot(x, RowCells(x, Top(m, 1)), Top(m, 0)))
       [] i[1] = "ONEHOTC" -> Write(m, 2, i[2], OneHot(x, ColCells(x, Top(m, 1)), Top(m, 0)))
       [] i[1] = "EXCLUDE" -> Write(m, 3, i[2], Exclude(x, Top(m, 2), Top(m, 1), Top(m, 0)))
       [] i[1] = "IMPLIES" -> Write(m, 3, i[2], Implies(x, Top(m, 2), Top(m, 1), Top(m, 0)))
       [] i[1] = "EQUALITY" -> Write(m, 2, i[2], Equality(x, vec(3), vec(4), Top(m, 1), Top(m, 0)))
       [] i[1] = "ATLEAST" -> Write(m, 2, i[2], AtLeastCount(x, vec(3), Top(m, 1), Top(m, 0)))
       [] i[1] = "ATLEASTW" ->
            Write(m, 2, i[2], AtLeastWeight(x, vec(3), vec(4), Top(m, 1), Top(m, 0)))
       [] i[1] = "REDUCE" ->
            LET reduced == Reduce(x, Top(m, 2), Top(m, 1), Top(m, 0))
            IN IF reduced = Fault THEN Failed(m)
               ELSE [Push(m, 3, x.size) EXCEPT !.regs[i[2]] = reduced]

Step(m) ==
  LET i == m.prog[m.pc]
  IN IF MisTyped(m, i) THEN Failed(m) ELSE
     CASE i[1] = "PUSH" -> Push(m, 0, i[2])
       [] i[1] = "LOAD" -> Push(m, 0, m.regs[i[2]].v)
       [] i[1] = "STOW" -> Write(m, 1, i[2], Number(Top(m, 0)))
       [] i[1] = "COPY" -> Push(m, 0, Top(m, 0))
       [] i[1] = "SWAP" -> Continue(m, Popped(m, 2) \o <<Top(m, 0), Top(m, 1)>>)
       [] i[1] \in Binary ->
            IF i[1] \in {"DIV", "MOD"} /\ Top(m, 0) = 0 THEN Failed(m)
            ELSE Push(m, 2, Apply2(i[1], Top(m, 1), Top(m, 0)))
       [] i[1] \in Unary -> Push(m, 1, Apply1(i[1], Top(m, 0)))
       [] i[1] = "IDXGRID" -> Push(m, 3, Top(m, 2) * Top(m, 0) + Top(m, 1))
       [] i[1] \in Control -> StepControl(m, i)
       [] i[1] = "INPUT" ->
            IF Top(m, 0) \in 0..(Len(m.calldata) - 1)
            THEN Write(m, 1, i[2], m.calldata[Top(m, 0) + 1]) ELSE Failed(m)
       [] i[1] = "OUTPUT" ->
            IF Top(m, 0) \in DOMAIN m.out
            THEN [Continue(m, Popped(m, 1)) EXCEPT !.out[Top(m, 0)] = m.regs[i[2]]] ELSE Failed(m)
       [] i[1] \in {"BQMX", "SQMX"} ->
            Write(m, 1, i[2], IF Top(m, 0) < 0 THEN Fault
                              ELSE NewModel(IF i[1] = "BQMX" THEN "binary" ELSE "spin", Top(m, 0)))
       [] i[1] = "XQMX" ->
            Write(m, 2, i[2], IF Top(m, 0) < 2 \/ Top(m, 1) < 0 THEN Fault
                              ELSE NewModel("integer", Top(m, 1)))
       [] i[1] \in {"VEC", "VECI"} -> Write(m, 0, i[2], VecOf(<<>>))
       [] i[1] \in NeedsModel \ {"GETQUAD", "ENERGY"} -> StepModel(m, i, m.regs[i[2]])
       [] OTHER -> StepData(m, i, m.regs[i[2]])

\* Up to 2^k steps, without a recursion as deep as the run is long.
RECURSIVE Steps(_, _)
Steps(m, k) ==
  IF m.status # "running" THEN m
  ELSE IF k = 0 THEN Step(m) ELSE Steps(Steps(m, k - 1), k - 1)

\* The budget of a run: 2^StepBits steps.
StepBits == 12

Run(prog, calldata) == Steps(NewMachine(prog, calldata), StepBits)

=============================================================================
