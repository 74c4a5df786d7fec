----------------------------- MODULE MCPipeline -----------------------------
(***************************************************************************)
(* Scripts for the pipeline: one per part of the DSL, with alternatives at *)
(* the places where the programs could differ, and the inputs they run on. *)
(***************************************************************************)
EXTENDS Pipeline

Num(v) == Literal(v)
Nm(name) == RegLoad(name)
Loop(name) == LoopVar(name)
Arg(name) == InputRef(name, "Int")
Number(v) == [t |-> "int", v |-> v]
VecOf(v) == [t |-> "vec", v |-> v]

\* Calls and places.  A place offers alternatives; most offer one call.
Do(c) == <<c>>
In(name, type) == Do([do |-> "input", as |-> name, type |-> type])
ModelOf(domain, size) ==
  [do |-> "model", size |-> size, domain |-> domain, rows |-> None, cols |-> None, k |-> None,
   lo |-> None, hi |-> None, penalty |-> 0]
Flat(domain, size) == Do(ModelOf(domain, size))
GridModel(n, rows, cols) == Do([ModelOf("binary", n) EXCEPT !.rows = rows, !.cols = cols])
Ranged(size, lo, hi) == [ModelOf("integer", size) EXCEPT !.lo = lo, !.hi = hi]
RangeCall(as, start, end) == Do([do |-> "range", as |-> as, start |-> start, end |-> end])
IterCall(vec, idx, as, start, end) ==
  Do([do |-> "iter", vec |-> vec, idx |-> idx, as |-> as, start |-> start, end |-> end])
EndCall == Do([do |-> "end"])
BranchCall == Do([do |-> "branch"])
ArmCall(cond) == Do([do |-> "arm", cond |-> cond])
StowCall(as, e) == Do([do |-> "stow", as |-> as, expr |-> e])
VecCall(as) == Do([do |-> "vec", as |-> as])
RecordCall(kind, vecs, exprs, coords) ==
  [do |-> "record", kind |-> kind, vecs |-> vecs, exprs |-> exprs, coords |-> coords, penalty |-> 3]
PushCall(v, e) == Do(RecordCall("vec_push", <<v>>, <<e>>, <<>>))
OnPair(kind, exprs) == RecordCall(kind, <<"ix", "co">>, exprs, <<>>)
WriteCall(op, coords, weight) == [do |-> "write", op |-> op, coords |-> coords, weight |-> weight]
Add(coords, weight) == Do(WriteCall("add", coords, weight))
ReduceCallOf(as, a, b) == [do |-> "reduce", as |-> as, a |-> a, b |-> b, p |-> Num(2)]
OutputCall(as, length) == Do([do |-> "output", as |-> as, length |-> length])
AppendCall(out, v) == Do([do |-> "append", out |-> out, value |-> v])
SetCallOf(out, i, v) == [do |-> "setitem", out |-> out, index |-> i, value |-> v]
SetCallAt(out, i, v) == Do(SetCallOf(out, i, v))
SkipCall == [do |-> "skip"]

\* A weighted sum of three variables, an objective recorded after the vectors,
\* and one constraint on the sum.
PairOver(weights) == <<
  VecCall("ix"), VecCall("co"),
  RangeCall("i", Num(0), Arg("n")),
  PushCall("ix", Loop("i")), PushCall("co", VecGetExpr(weights, Loop("i"))), EndCall>>

Knapsack == <<
  In("n", "Int"), In("w", "Vec"), In("cap", "Int"), Flat("binary", Arg("n"))>> \o
  PairOver("w") \o <<
  << OnPair("inequality", <<Arg("n"), Arg("cap")>>), OnPair("equality", <<Arg("cap")>>),
     OnPair("atleastw", <<Arg("cap")>>), RecordCall("atleast", <<"ix">>, <<Num(2)>>, <<>>),
     OnPair("slack", <<Arg("n"), Arg("cap")>>) >>,
  << OnPair("equality", <<Arg("cap")>>), SkipCall >>,
  RangeCall("j", Num(1), Arg("n")),
  Add(<< <<Loop("j")>> >>, UnaryOp("NEG", VecGetExpr("w", BinOp("SUB", Loop("j"), Num(1))))),
  EndCall,
  OutputCall("taken", None),
  RangeCall("k", Num(0), Arg("n")),
  BranchCall,
  ArmCall(CompareOp("EQ", SampleValue(Loop("k")), Num(1))), AppendCall("taken", Loop("k")), EndCall,
  EndCall, EndCall>>

\* An assignment of one case per row, the objective between the constraints,
\* and a decoder with nested loops over the scalar n.
Tour == <<
  In("n", "Int"), GridModel(BinOp("MUL", Arg("n"), Arg("n")), Arg("n"), Arg("n")),
  RangeCall("r", Num(0), Arg("n")),
  << RecordCall("onehot_row", <<>>, <<Loop("r")>>, <<>>), RecordCall("onehot_col", <<>>, <<Loop("r")>>, <<>>) >>,
  EndCall,
  RangeCall("a", Num(0), Arg("n")), RangeCall("b", BinOp("ADD", Loop("a"), Num(1)), Arg("n")),
  StowCall("d", BinOp("SUB", Loop("b"), Loop("a"))),
  Add(<< <<Loop("a"), Num(0)>>, <<Loop("b"), Num(1)>> >>, BinOp("MUL", Num(3), Nm("d"))),
  EndCall, EndCall,
  << RecordCall("exclude", <<>>, <<>>, << <<Num(0), Num(0)>>, <<Num(1), Num(0)>> >>),
     RecordCall("implies", <<>>, <<>>, << <<Num(0), Num(1)>>, <<Num(1), Num(0)>> >>) >>,
  OutputCall("route", Arg("n")), OutputCall("ones", None),
  RangeCall("i", Num(0), Arg("n")),
  SetCallAt("route", Loop("i"), SampleCase(Loop("i"))),
  RangeCall("j", Num(0), Arg("n")),
  AppendCall("ones", BinOp("MUL", SampleValue(GridExpr(Loop("i"), Loop("j"), Arg("n"))),
                           BinOp("ADD", Loop("j"), OutputGet("route", Num(0))))),
  EndCall, EndCall>>

\* Two chained reductions, and a growing constraint before or after them.
Early(c) == << c, SkipCall >>
OverPair(ix, co, kind, exprs) == [OnPair(kind, exprs) EXCEPT !.vecs = <<ix, co>>]
Reduced == <<
  Flat("binary", Num(3)),
  VecCall("ix"), VecCall("co"), PushCall("ix", Num(0)), PushCall("co", Num(1)),
  PushCall("ix", Num(2)), PushCall("co", Num(2)),
  VecCall("iy"), VecCall("cy"), PushCall("iy", Num(1)), PushCall("cy", Num(1)),
  PushCall("iy", Num(2)), PushCall("cy", Num(1)),
  Early(OverPair("ix", "co", "inequality", <<Num(6), Num(1)>>)),
  << ReduceCallOf("v", Num(0), Num(1)) >>, << ReduceCallOf("w", Nm("v"), Num(2)) >>,
  Add(<< <<Nm("w")>> >>, Num(-5)), Add(<< <<Num(2)>> >>, Num(1)), Add(<< <<Num(0)>>, <<Num(0)>> >>, Num(2)),
  << OverPair("iy", "cy", "inequality", <<Num(7), Num(1)>>), OverPair("iy", "cy", "atleastw", <<Num(1)>>),
     OverPair("iy", "cy", "equality", <<Num(1)>>) >>,
  Early(ReduceCallOf("u", Num(1), Num(2))),
  OutputCall("xs", None), AppendCall("xs", SampleValue(Num(0)))>>

\* Arms with constraints, vectors and loops of their own, chosen by an input.
Chosen_ == <<
  In("mode", "Int"), Flat("binary", Num(3)), BranchCall,
  ArmCall(CompareOp("EQ", Arg("mode"), Num(1))),
  RangeCall("i", Num(0), Num(2)),
  Do(RecordCall("exclude", <<>>, <<>>, << <<Loop("i")>>, <<BinOp("ADD", Loop("i"), Num(1))>> >>)),
  EndCall, EndCall,
  ArmCall(CompareOp("EQ", Arg("mode"), Num(2))),
  VecCall("ix"), VecCall("co"), PushCall("ix", Num(1)), PushCall("co", Num(2)),
  PushCall("ix", Num(2)), PushCall("co", Num(1)),
  << OnPair("inequality", <<Num(3), Num(2)>>), OnPair("slack", <<Num(3), Num(2)>>) >>,
  << OnPair("equality", <<Num(2)>>), SkipCall >>, EndCall,
  ArmCall(None), Do(RecordCall("implies", <<>>, <<>>, << <<Num(0)>>, <<Num(2)>> >>)), EndCall,
  EndCall,
  << OnPair("equality", <<Num(2)>>), SkipCall >>,
  OutputCall("pick", Num(2)), BranchCall,
  ArmCall(BinOp("AND", SampleValue(Num(0)), UnaryOp("NOT", SampleValue(Num(1))))),
  SetCallAt("pick", Num(0), Num(7)), EndCall,
  ArmCall(None), RangeCall("k", Num(0), Num(2)), SetCallAt("pick", Loop("k"), SampleValue(Loop("k"))),
  EndCall, EndCall, EndCall>>

\* Spins: coefficient writes only, in a triangle of pairs; the last has no term.
Spins == <<
  In("n", "Int"), Flat("spin", BinOp("ADD", Arg("n"), Num(1))),
  RangeCall("i", Num(0), Arg("n")), RangeCall("j", BinOp("ADD", Loop("i"), Num(1)), Arg("n")),
  Add(<< <<Loop("i")>>, <<Loop("j")>> >>, BinOp("SUB", TriuExpr(Loop("i"), Loop("j")), Num(1))),
  EndCall,
  << WriteCall("set", << <<Loop("i")>> >>, Loop("i")), WriteCall("add", << <<Loop("i")>> >>, SqrExpr(Loop("i"))),
     WriteCall("add", << <<Loop("i")>>, <<Loop("i")>> >>, Num(3)),
     RecordCall("exclude", <<>>, <<>>, << <<Num(0)>>, <<Num(1)>> >>) >>,
  EndCall,
  OutputCall("s", None), RangeCall("k", Num(1), Arg("n")), AppendCall("s", SampleValue(Loop("k"))), EndCall>>

\* Integers from lo to hi: literal bounds, bounds that are inputs, or a width.
Integers_ == <<
  In("lo", "Int"), In("hi", "Int"),
  << Ranged(Num(2), Num(-1), Num(1)), Ranged(Num(2), Arg("lo"), Arg("hi")),
     [ModelOf("integer", Num(2)) EXCEPT !.k = Num(2)], Ranged(Num(2), Num(1), Num(1)) >>,
  Add(<< <<Num(0)>>, <<Num(1)>> >>, Num(2)),
  << WriteCall("add", << <<Num(0)>>, <<Num(0)>> >>, Num(-1)), WriteCall("set", << <<Num(1)>> >>, Num(-1)),
     WriteCall("add", << <<Num(1)>> >>, Num(3)) >>,
  OutputCall("v", None), AppendCall("v", SampleValue(Num(0))), AppendCall("v", SampleValue(Num(1)))>>

\* A categorical model, read back as the case of each variable.
Cases == <<
  In("n", "Int"), Do([ModelOf("categorical", Arg("n")) EXCEPT !.k = Num(2), !.penalty = 4]),
  Add(<< <<Num(0), Num(1)>>, <<Num(1), Num(1)>> >>, Num(-2)),
  OutputCall("cases", Arg("n")), RangeCall("i", Num(0), Arg("n")),
  SetCallAt("cases", Loop("i"), SampleCase(Loop("i"))), EndCall>>

\* A loop over a vector that builds a pair of vectors and extends it with
\* slack, in the scope of the equality or outside it.
Iterated == <<
  In("w", "Vec"), Flat("binary", Num(3)),
  IterCall("w", "p", "weight", Num(1), VecLenExpr("w")),
  VecCall("ix"), VecCall("co"),
  PushCall("ix", BinOp("SUB", Loop("p"), Num(1))), PushCall("co", Loop("weight")),
  PushCall("ix", Loop("p")), PushCall("co", Num(1)),
  << OnPair("slack", <<BinOp("ADD", Num(1), BinOp("MUL", Num(2), Loop("p"))), Num(2)>>), SkipCall >>,
  Early(OnPair("equality", <<Num(2)>>)),
  EndCall,
  Early(OnPair("equality", <<Num(2)>>)),
  IterCall("w", "q", "gain", Num(0), Num(3)), Add(<< <<Loop("q")>> >>, Loop("gain")), EndCall>>

\* Calls that some rule refuses, each after a sound start.
Irregular == <<
  In("n", "Int"), In("m", "Int"), In("w", "Vec"),
  << ModelOf("binary", Arg("n")), ModelOf("categorical", Arg("n")),
     [ModelOf("binary", Arg("n")) EXCEPT !.k = Num(3)], [ModelOf("binary", Arg("n")) EXCEPT !.rows = Num(1)],
     [ModelOf("integer", Arg("n")) EXCEPT !.k = Num(1)], ModelOf("integer", Arg("n")) >>,
  << [do |-> "input", as |-> "late", type |-> "Int"], SkipCall >>,
  << RecordCall("onehot_row", <<>>, <<Num(0)>>, <<>>), WriteCall("add", << <<Num(0), Num(1)>> >>, Num(1)),
     WriteCall("add", << <<Num(0)>> >>, CoefficientRef(0, <<Num(1)>>)),
     WriteCall("add", << <<Num(0)>> >>, VecGetExpr("n", Num(0))),
     WriteCall("add", << <<Num(0)>> >>, BinOp("ADD", Num(1), Arg("m"))) >>,
  << [do |-> "output", as |-> "o", length |-> Num(0)], [do |-> "output", as |-> "o", length |-> Arg("n")] >>,
  << [do |-> "output", as |-> "q", length |-> OutputGet("o", Num(0))],
     [do |-> "output", as |-> "q", length |-> Num(2)] >>,
  << [do |-> "append", out |-> "o", value |-> Num(1)], SetCallOf("o", Num(0), VecLenExpr("w")),
     SetCallOf("q", Num(2), Num(1)), SetCallOf("q", Num(1), Arg("m")), SetCallOf("q", Num(1), Arg("n")),
     [do |-> "stow", as |-> "t", expr |-> Num(1)],
     [do |-> "reduce", as |-> "t", a |-> Num(0), b |-> Num(1), p |-> Num(1)],
     SetCallOf("o", Num(0), CoefficientRef(0, <<Num(1)>>)) >> >>

\* More registers than the verifier leaves room for, and more than the file.
Crowded(n) ==
  <<In("n", "Int"), Flat("binary", Arg("n"))>> \o [i \in 1..n |-> Do([do |-> "vec", as |-> "v"])]

Inside == <<In("n", "Int"), Flat("binary", Arg("n")), RangeCall("i", Num(0), Num(1)),
            OutputCall("o", None), EndCall>>

MCScripts ==
  <<Knapsack, Tour, Reduced, Chosen_, Spins, Integers_, Cases, Iterated, Irregular, Crowded(9), Crowded(16), Crowded(30), Inside>>

One_(n) == << <<Number(n)>> >>
MCCalldatas == <<
  << <<Number(3), VecOf(<<1, 2, 3>>), Number(3)>>, <<Number(2), VecOf(<<2, 1>>), Number(2)>> >>,
  One_(2), << <<>> >>, << <<Number(1)>>, <<Number(2)>>, <<Number(3)>> >>,
  << <<Number(2)>>, <<Number(3)>> >>, << <<Number(-1), Number(0)>>, <<Number(1), Number(3)>> >>,
  One_(2), << <<VecOf(<<5, 1, 2>>)>> >>, << <<Number(2), Number(3), VecOf(<<4>>)>> >>,
  One_(1), One_(1), One_(1), One_(1)>>

\* A binary without limits, with the exact one of each kind, and with limits some
\* models exceed; and calls of solve() that are refused for other reasons.
Binary_ == [exit |-> 0, protocolVersion |-> 2, algorithm |-> "sa", supportedKinds |-> {"ISING_SAMPLE"},
            features |-> {}, maxNodes |-> 0, maxEdges |-> 0, maxDegree |-> 0, maxLocalFieldMilli |-> 0,
            exactResolutionMilli |-> 0]
Small == [Binary_ EXCEPT !.features = {"exact-coefficients", "linear-schedule"}, !.maxNodes = 4, !.maxEdges = 4,
                         !.maxDegree = 2, !.maxLocalFieldMilli = 9000, !.exactResolutionMilli = 500]
Calling(engine, caps, kwargs) == [engine |-> engine, caps |-> caps, kwargs |-> kwargs]
MCRequests ==
  {Calling("binary", Binary_, <<>>), Calling("inprocess", Binary_, [num_reads |-> 2]),
   Calling("binary", Small, [beta_schedule_type |-> "linear"]),
   Calling("binary", Binary_, [beta_schedule_type |-> "linear"]),
   Calling("binary", [Binary_ EXCEPT !.protocolVersion = 1], <<>>),
   Calling("inprocess", Binary_, [beta_schedule_type |-> "linear"]),
   Calling("inprocess", Binary_, [num_sweeps |-> 10, num_sweeps_per_beta |-> 3])}

\* What the solver may answer for each variable.
MCSolverValues == [d \in {"binary", "spin", "integer"} |->
  CASE d = "binary" -> {0, 1} [] d = "spin" -> {-1, 0, 1} [] OTHER -> {-1, 0, 1, 2, 3}]
=============================================================================
