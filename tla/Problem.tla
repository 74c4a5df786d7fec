------------------------------ MODULE Problem -------------------------------
(***************************************************************************)
(* Recording a problem (xqcp/problem.py and the references of              *)
(* xqcp/symbols.py).  A user's script is a sequence of calls on a Problem; *)
(* each one appends to the ordered list of actions the compiler reads, and *)
(* most of them hand out a register.  A call may be refused, which ends    *)
(* the script: the exception is not caught.                                *)
(*                                                                         *)
(* `prob` is the Problem object: the next free register, the buffer that   *)
(* actions are appended to, the blocks that are open around the call (a    *)
(* loop, a branch, an arm of a branch), the model and the outputs.  Its    *)
(* `names` are the script's own Python variables, so that an expression in *)
(* a call may name what an earlier call returned.                          *)
(*                                                                         *)
(* The scripts are a constant: a script is a sequence of alternatives, of  *)
(* which one call is made at each place.                                   *)
(***************************************************************************)
EXTENDS Expression, Integers, Sequences, FiniteSets

CONSTANTS Scripts,  \* a sequence of scripts
          LastReg   \* the highest register: 255 in the code

ASSUME LastRegAssumption == LastReg \in 1..255

VARIABLES prob,    \* the Problem object
          script,  \* the script that runs
          at,      \* the place in it
          phase    \* "recording", "refused", then the phases of the pipeline

problemVars == <<prob, script, at, phase>>

\* An argument that was not given, and a block of the script.
None == Node("None", "", 0, 0, <<>>)
NoModel == [reg |-> -1, domain |-> "none", cols |-> -1, is2d |-> FALSE, lo |-> None]

EmptyProblem ==
  [alloc |-> 0, actions |-> <<>>, open |-> <<>>, model |-> NoModel, outputs |-> <<>>,
   names |-> [n \in {} |-> 0], serial |-> 0]

\* Node kinds that only a script holds: a sample read in the declared domain,
\* the case of a categorical variable and an element of an output.
SampleValue(i) == Node("SampleValue", "", 0, 0, <<i>>)
SampleCase(r)  == Node("SampleCase", "", 0, 1, <<r>>)
OutputGet(o, i) == Node("OutputGet", "", o, 0, <<i>>)

Handle(reg, type) == [reg |-> reg, type |-> type, length |-> None]
Bound(p, name, h) == [p EXCEPT !.names = [n \in DOMAIN @ \cup {name} |-> IF n = name THEN h ELSE @[n]]]

Named == {"RegLoad", "InputRef", "LoopVar", "VecGetExpr", "VecLenExpr", "OutputGet"}
GridReads == {"RowSumExpr", "ColSumExpr", "RowFindExpr", "ColFindExpr", "SampleCase"}

\* _indexed: an output is read and written by index only when it has a length,
\* and a literal index must lie inside a literal length.
IndexAllowed(h, i) ==
  /\ h.length.kind # "None"
  /\ h.length.kind = "Literal" /\ i.kind = "Literal" => i.val \in 0..(h.length.val - 1)

\* What an expression of the script may not be: a read of the sample before
\* there is a model or of a grid where there is none, an index into a number.
Illegal(p, e, kids) ==
  \/ e.kind \in SampleReads \cup GridReads \cup {"SampleValue", "CoefficientRef"} /\ p.model = NoModel
  \/ e.kind \in GridReads /\ ~p.model.is2d
  \/ e.kind \in Named /\ e.reg \notin DOMAIN p.names
  \/ e.kind \in {"VecGetExpr", "VecLenExpr"} /\ p.names[e.reg].type = "Int"
  \/ e.kind = "OutputGet" /\ ~IndexAllowed(p.names[e.reg], kids[1])

Clean(es) == \A i \in DOMAIN es : es[i].kind # "Refusal"

\* The sample's register is a sentinel: the model's, moved out of the way.
SampleReg(p) == p.model.reg + 100

\* The expression a call records: names become registers.
RECURSIVE Resolve(_, _)
Resolve(p, e) ==
  LET kids == [i \in DOMAIN e.kids |-> Resolve(p, e.kids[i])]
      raw == GetLineExpr(SampleReg(p), kids[1])
  IN IF e.kind = "None" THEN None
     ELSE IF Illegal(p, e, kids) \/ ~Clean(kids) THEN Refusal ELSE
     CASE e.kind = "SampleValue" -> IF p.model.lo = None THEN raw ELSE BinOp("ADD", raw, p.model.lo)
       [] e.kind = "SampleCase" -> RowFindExpr(SampleReg(p), kids[1], 1)
       [] e.kind = "OutputGet" -> VecGetExpr(p.names[e.reg].reg, kids[1])
       [] e.kind = "InputRef" -> InputRef(p.names[e.reg].reg, p.names[e.reg].type)
       [] e.kind \in Named \ {"OutputGet", "InputRef"} -> [e EXCEPT !.reg = p.names[e.reg].reg, !.kids = kids]
       [] e.kind = "CoefficientRef" -> [e EXCEPT !.reg = p.model.reg, !.kids = kids]
       [] e.kind \in SampleReads -> [e EXCEPT !.reg = SampleReg(p), !.kids = kids]
       [] OTHER -> [e EXCEPT !.kids = kids]

ResolveAll(p, es) == [i \in DOMAIN es |-> Resolve(p, es[i])]

\* _record_*: an action goes to the buffer, with the identity of its data.
Recorded(p, kind, data) ==
  [p EXCEPT !.actions = Append(@, [data EXCEPT !.kind = kind, !.id = p.serial]), !.serial = @ + 1]

\* The data of an action: the registers, expressions, coordinates and penalty
\* it uses, the actions of its arms, and whether it is a correction that the
\* script did not write (a ghost).
Data == [kind |-> "", id |-> 0, reg |-> -1, regs |-> <<>>, exprs |-> <<>>, coords |-> <<>>,
         penalty |-> 0, model |-> NoModel, arms |-> <<>>, shift |-> FALSE]

-----------------------------------------------------------------------------
(* The calls: what a call of the script makes of the problem.              *)

Indent(p) == Cardinality({i \in DOMAIN p.open : p.open[i].block = "loop"})
ArmDepth(p) == Cardinality({i \in DOMAIN p.open : p.open[i].block = "arm"})

Block(block, cond, saved) == [block |-> block, cond |-> cond, saved |-> saved, arms |-> <<>>]
Inner(p) == p.open[Len(p.open)]
Closed(p) == [p EXCEPT !.open = SubSeq(@, 1, Len(@) - 1)]

\* The next register, if the file has one: RuntimeError past r255.
Take(p, n) == [p EXCEPT !.alloc = @ + n]
InFile(p) == p.alloc <= LastReg + 1

\* _check_domain_args: every combination of arguments the domains refuse.
Given(e) == e.kind # "None"
IsNumber(e) == e.kind = "Literal"
NarrowK(k) == IsNumber(k) /\ k.val < 2

DomainArgsRefused(c) ==
  \/ /\ c.domain \in {"binary", "spin"}
     /\ Given(c.k) \/ Given(c.lo) \/ Given(c.hi) \/ c.penalty # 0
  \/ /\ c.domain = "categorical"
     /\ \/ ~Given(c.k) \/ c.penalty = 0 \/ NarrowK(c.k)
        \/ Given(c.rows) \/ Given(c.cols) \/ Given(c.lo) \/ Given(c.hi)
  \/ /\ c.domain = "integer"
     /\ \/ c.penalty # 0
        \/ Given(c.k) /\ (Given(c.lo) \/ Given(c.hi) \/ NarrowK(c.k))
        \/ ~Given(c.k) /\ ~(Given(c.lo) /\ Given(c.hi))
        \/ IsNumber(c.lo) /\ IsNumber(c.hi) /\ c.hi.val < c.lo.val + 1
  \/ Given(c.rows) # Given(c.cols)

\* define_model: the columns, the lower bound and the model take their
\* registers in this order.  A literal lower bound needs none.
Defined(p, domain, size, rows, cols, k, lo, hi) ==
  LET is2d == Given(rows)
      colsReg == p.alloc
      loReg == IF is2d THEN p.alloc + 1 ELSE p.alloc
      needsLo == domain = "integer" /\ Given(lo) /\ ~IsNumber(lo)
      modelReg == IF needsLo THEN loReg + 1 ELSE loReg
      width == IF Given(k) \/ domain # "integer" THEN k
               ELSE BinOp("ADD", BinOp("SUB", hi, lo), One)
      model == [reg |-> modelReg, domain |-> domain, cols |-> IF is2d THEN colsReg ELSE -1,
                is2d |-> is2d, lo |-> IF needsLo THEN RegLoad(loReg) ELSE lo]
  IN Recorded([p EXCEPT !.alloc = modelReg + 1, !.model = model], "define_model",
              [Data EXCEPT !.reg = modelReg, !.model = model,
                           !.exprs = <<size, rows, cols, width, lo>>,
                           !.regs = <<IF needsLo THEN loReg ELSE -1>>])

\* A loop's variable is allocated and its start recorded; its end is recorded
\* when the block is left.
LoopOpened(p, name, start, end) ==
  [Bound(Recorded(Take(p, 1), "range_start", [Data EXCEPT !.reg = p.alloc, !.exprs = <<start, end>>]),
         name, Handle(p.alloc, "var"))
     EXCEPT !.open = Append(@, Block("loop", "range_end", <<>>))]

LoopClosed(p) == Recorded(Closed(p), Inner(p).cond, Data)

OneHotRecorded(p, kind, line, penalty) ==
  Recorded(p, kind, [Data EXCEPT !.exprs = <<line>>, !.penalty = penalty, !.model = p.model])

\* A categorical model is a binary grid with one case per row.
Categorical(p, size, k, penalty) ==
  LET grid == Defined(p, "binary", BinOp("MUL", size, k), size, k, None, None, None)
      loop == LoopOpened(grid, "_case", Literal(0), size)
  IN LoopClosed(OneHotRecorded(loop, "onehot_row", LoopVar(grid.alloc), penalty))


\* _record_*: the calls that only append one action.
Vectors(p, vs) == [i \in DOMAIN vs |-> p.names[vs[i]].reg]

\* CoefficientRef.add: on a ranged model the user writes over x = y + lo, so a
\* quadratic write also records weight * lo on each of its two variables.
Corrected(p, c, w) ==
  LET shift == BinOp("MUL", w, p.model.lo)
      corrected(q, coord) ==
        Recorded(q, "add_linear", [Data EXCEPT !.exprs = <<shift>>, !.coords = <<coord>>,
                                               !.model = p.model, !.shift = TRUE])
  IN corrected(corrected(p, ResolveAll(p, c.coords[1])), ResolveAll(p, c.coords[2]))

Written(p, c) ==
  LET w == Resolve(p, c.weight)
      kind == IF c.op = "add" THEN IF Len(c.coords) = 1 THEN "add_linear" ELSE "add_quadratic"
              ELSE IF Len(c.coords) = 1 THEN "set_linear" ELSE "set_quadratic"
      p1 == Recorded(p, kind, [Data EXCEPT !.exprs = <<w>>, !.model = p.model,
                                           !.coords = [i \in DOMAIN c.coords |-> ResolveAll(p, c.coords[i])]])
  IN IF kind = "add_quadratic" /\ Given(p.model.lo) THEN Corrected(p1, c, w) ELSE p1

\* branch(): the arms in order, each with its condition; the default has none.
ArmOpened(p, cond) ==
  [p EXCEPT !.open = Append(@, Block("arm", cond, p.actions)), !.actions = <<>>]

ArmClosed(p) ==
  LET arm == [cond |-> Inner(p).cond, actions |-> p.actions]
      outer == [Closed(p) EXCEPT !.actions = Inner(p).saved]
  IN [outer EXCEPT !.open[Len(outer.open)].arms = Append(@, arm)]

BranchClosed(p) == Recorded(Closed(p), "branch", [Data EXCEPT !.arms = Inner(p).arms])

\* output(): declared at the top level, and its length may not read an output.
RECURSIVE ReadsOutput(_, _)
ReadsOutput(p, e) ==
  \/ e.kind = "VecGetExpr" /\ e.reg \in {p.outputs[i].reg : i \in DOMAIN p.outputs}
  \/ \E i \in DOMAIN e.kids : ReadsOutput(p, e.kids[i])

OutputAllowed(p, length) ==
  /\ Indent(p) = 0 /\ ArmDepth(p) = 0
  /\ ~(IsNumber(length) /\ length.val <= 0)
  /\ ~ReadsOutput(p, length)

Declared(p, name, length) ==
  LET out == [reg |-> p.alloc, length |-> length]
  IN Bound(Recorded([Take(p, 1) EXCEPT !.outputs = Append(@, out)], "output_decl", Data),
           name, [reg |-> p.alloc, type |-> "out", length |-> length])

-----------------------------------------------------------------------------
(* The steps of a script: the call at its place is made, or refused.       *)

Calls == Scripts[script][at]
Running == phase = "recording" /\ at <= Len(Scripts[script])
Offered(method) == IF Running THEN {i \in DOMAIN Calls : Calls[i].do = method} ELSE {}

Returns(allowed, p) ==
  /\ IF allowed /\ InFile(p)
     THEN prob' = p /\ phase' = phase
     ELSE prob' = prob /\ phase' = "refused"
  /\ at' = at + 1 /\ UNCHANGED script

Input == \E i \in Offered("input") : LET c == Calls[i] IN
  Returns(prob.model = NoModel,
          Bound(Recorded(Take(prob, 1), "input", [Data EXCEPT !.reg = prob.alloc]),
                c.as, Handle(prob.alloc, c.type)))

DefineModel == \E i \in Offered("model") :
  LET c == Calls[i]
      args == ResolveAll(prob, <<c.size, c.rows, c.cols, c.k, c.lo, c.hi>>)
  IN Returns(~DomainArgsRefused(c) /\ Clean(args),
             IF c.domain = "categorical" THEN Categorical(prob, args[1], args[4], c.penalty)
             ELSE Defined(prob, c.domain, args[1], args[2], args[3], args[4], args[5], args[6]))

Range_ == \E i \in Offered("range") :
  LET c == Calls[i]  args == ResolveAll(prob, <<c.start, c.end>>)
  IN Returns(Clean(args), LoopOpened(prob, c.as, args[1], args[2]))

Iter == \E i \in Offered("iter") :
  LET c == Calls[i]  args == ResolveAll(prob, <<c.start, c.end>>)
      started == Recorded(Take(prob, 2), "iter_start",
                          [Data EXCEPT !.regs = <<prob.names[c.vec].reg, prob.alloc, prob.alloc + 1>>,
                                       !.exprs = args])
  IN Returns(Clean(args),
             [Bound(Bound(started, c.idx, Handle(prob.alloc, "var")), c.as, Handle(prob.alloc + 1, "var"))
                EXCEPT !.open = Append(@, Block("loop", "iter_end", <<>>))])

\* Leaving a with block, the body of an arm, or the call of branch() itself.
End == \E i \in Offered("end") :
  Returns(TRUE, CASE Inner(prob).block = "loop" -> LoopClosed(prob)
                  [] Inner(prob).block = "arm" -> ArmClosed(prob)
                  [] OTHER -> BranchClosed(prob))

Branch == \E i \in Offered("branch") :
  Returns(TRUE, [prob EXCEPT !.open = Append(@, Block("branch", None, <<>>))])

Arm == \E i \in Offered("arm") : LET cond == Resolve(prob, Calls[i].cond) IN
  Returns(Clean(<<cond>>), ArmOpened(prob, cond))

\* stow() into a name takes a register, stow() into a register reuses it.
Stow == \E i \in Offered("stow") :
  LET c == Calls[i]  e == Resolve(prob, c.expr)
      fresh == c.as \notin DOMAIN prob.names
      reg == IF fresh THEN prob.alloc ELSE prob.names[c.as].reg
  IN Returns(Clean(<<e>>),
             Bound(Recorded(Take(prob, IF fresh THEN 1 ELSE 0), "stow",
                            [Data EXCEPT !.reg = reg, !.exprs = <<e>>]),
                   c.as, Handle(reg, "var")))

Vec == \E i \in Offered("vec") :
  Returns(TRUE, Bound(Recorded(Take(prob, 1), "vec_alloc", [Data EXCEPT !.reg = prob.alloc]),
                      Calls[i].as, Handle(prob.alloc, "Vec")))

Coordinates(p, c) == [n \in DOMAIN c.coords |-> ResolveAll(p, c.coords[n])]
Grows == {"vec_push", "slack"}

\* The action of a call over vectors, expressions or coordinates of the model.
ConstraintRecorded(p, c) ==
  Recorded(p, c.kind, [Data EXCEPT !.regs = Vectors(p, c.vecs), !.exprs = ResolveAll(p, c.exprs),
                                   !.coords = Coordinates(p, c), !.penalty = c.penalty, !.model = p.model])

\* The constraints: equality, inequality, atleast and atleastw over vectors,
\* one-hot rows and columns, exclude and implies.
Constrain == \E i \in Offered("record") :
  LET c == Calls[i] IN
  /\ c.kind \notin Grows
  /\ Returns(/\ Clean(ResolveAll(prob, c.exprs))
             /\ \A n \in DOMAIN c.coords : Clean(Coordinates(prob, c)[n])
             /\ c.kind \in {"onehot_row", "onehot_col"} => prob.model.is2d
             /\ prob.model # NoModel,
             ConstraintRecorded(prob, c))

\* vec.push() and slack(), which extend vectors and need no model.
Extend == \E i \in Offered("record") :
  LET c == Calls[i] IN
  /\ c.kind \in Grows
  /\ Returns(Clean(ResolveAll(prob, c.exprs)), ConstraintRecorded(prob, c))

\* model.linear[i] and model.quadratic[i, j], added to or assigned; a ranged
\* model refuses the assignment.
Write_ == \E i \in Offered("write") : LET c == Calls[i] IN
  Returns(/\ prob.model # NoModel
          /\ Clean(<<Resolve(prob, c.weight)>>)
          /\ \A n \in DOMAIN c.coords : Clean(ResolveAll(prob, c.coords[n]))
          /\ ~(c.op = "set" /\ Given(prob.model.lo)),
          Written(prob, c))

ReduceCall == \E i \in Offered("reduce") :
  LET c == Calls[i]  args == ResolveAll(prob, <<c.a, c.b, c.p>>)
  IN Returns(prob.model # NoModel /\ Clean(args),
             Bound(Recorded(Take(prob, 1), "reduce",
                            [Data EXCEPT !.exprs = args, !.reg = prob.alloc, !.model = prob.model]),
                   c.as, Handle(prob.alloc, "var")))

Output == \E i \in Offered("output") :
  LET c == Calls[i]  length == Resolve(prob, c.length)
  IN Returns(Clean(<<length>>) /\ OutputAllowed(prob, length), Declared(prob, c.as, length))

OutputWritten(p, kind, out, args) ==
  Recorded(p, kind, [Data EXCEPT !.reg = p.names[out].reg, !.exprs = args])

\* append() to an output without a length, out[i] = v on one with a length.
Append_ == \E i \in Offered("append") :
  LET c == Calls[i]  v == Resolve(prob, c.value)
  IN Returns(Clean(<<v>>) /\ ~Given(prob.names[c.out].length),
             OutputWritten(prob, "output_append", c.out, <<v>>))

SetItem == \E i \in Offered("setitem") :
  LET c == Calls[i]  args == ResolveAll(prob, <<c.index, c.value>>)
  IN Returns(Clean(args) /\ IndexAllowed(prob.names[c.out], args[1]),
             OutputWritten(prob, "output_setitem", c.out, args))

\* A place where the script makes no call.
Skip == \E i \in Offered("skip") : Returns(TRUE, prob)

RecordInit == prob = EmptyProblem /\ script \in DOMAIN Scripts /\ at = 1 /\ phase = "recording"

RecordNext ==
  \/ Input \/ DefineModel \/ Range_ \/ Iter \/ End \/ Branch \/ Arm \/ Stow \/ Vec
  \/ Constrain \/ Extend \/ Write_ \/ ReduceCall \/ Output \/ Append_ \/ SetItem \/ Skip

=============================================================================
