----------------------------- MODULE Expansion ------------------------------
(***************************************************************************)
(* XQMX models and the high-level expansions of the interpreter            *)
(* (xqvm/src/model.rs and the constraint opcodes of xqvm/src/vm.rs).       *)
(*                                                                         *)
(* A model is a polynomial kept as two sparse maps: `lin` on variables and *)
(* `quad` on pairs.  A faulting operation returns Fault.  Coefficients of  *)
(* the instances are small, so the i64 overflow faults never arise, and a  *)
(* model is never charged for.                                             *)
(*                                                                         *)
(* `dropped` is a ghost: XQMX carries no offset, so every expansion drops  *)
(* the constant term of the penalty it stands for.  The ghost adds these   *)
(* constants up, and energy + dropped is the sum of the penalties exactly. *)
(***************************************************************************)
LOCAL INSTANCE Integers
LOCAL INSTANCE Sequences
LOCAL INSTANCE FiniteSetsExt
LOCAL INSTANCE TLC

Fault == [t |-> "fault"]

NewModel(domain, size) ==
  [t |-> "model", domain |-> domain, size |-> size, lin |-> <<>>, quad |-> <<>>,
   rows |-> 0, cols |-> 0, dropped |-> 0]

Sample(values, rows, cols) ==
  [t |-> "sample", values |-> values, size |-> Len(values), rows |-> rows, cols |-> cols]

At(f, k) == IF k \in DOMAIN f THEN f[k] ELSE 0
Pair(i, j) == IF i <= j THEN <<i, j>> ELSE <<j, i>>

\* A zero coefficient is removed from the map.
Put(f, k, v) ==
  IF v = 0 THEN [x \in DOMAIN f \ {k} |-> f[x]] ELSE (k :> v) @@ f

Merge(f, g) ==
  LET sum(k) == At(f, k) + At(g, k)
  IN [k \in {x \in DOMAIN f \cup DOMAIN g : sum(x) # 0} |-> sum(k)]

\* Adding a polynomial whose constant term is c.
Plus(m, lin, quad, c) ==
  [m EXCEPT !.lin = Merge(@, lin), !.quad = Merge(@, quad), !.dropped = @ + c]

InModel(m, i) == i \in 0..(m.size - 1)

\* The number of bits of a positive number.
BitLength(n) == CHOOSE b \in 0..n : n < 2 ^ b /\ (b = 0 \/ 2 ^ (b - 1) <= n)

\* SLACK: the indices and the powers of two it appends for a capacity.
SlackBits(capacity) == IF capacity <= 0 THEN 0 ELSE BitLength(capacity)
SlackIndices(start, capacity) == [i \in 1..SlackBits(capacity) |-> start + i - 1]
SlackCoeffs(capacity) == [i \in 1..SlackBits(capacity) |-> 2 ^ (i - 1)]

\* Mutant: the linear term forgets that the target enters it twice.
MutSingleTarget(m, idx, co, b, P) ==
  LET Sites == DOMAIN idx
      Both == {s \in Sites \X Sites : s[1] < s[2]}
      On(s) == Pair(idx[s[1]], idx[s[2]])
  IN Plus(m,
          [i \in {idx[k] : k \in Sites} |->
             MapThenSumSet(LAMBDA k : P * co[k] * (co[k] - b), {k \in Sites : idx[k] = i})],
          [q \in {On(s) : s \in Both} |->
             MapThenSumSet(LAMBDA s : 2 * P * co[s[1]] * co[s[2]], {s \in Both : On(s) = q})],
          P * b * b)

\* P * (sum co[k] * x[idx[k]] - b)^2 over binary variables, where x * x = x.
ExpandEquality(m, idx, co, b, P) ==
  LET Sites == DOMAIN idx
      Both == {s \in Sites \X Sites : s[1] < s[2]}
      On(s) == Pair(idx[s[1]], idx[s[2]])
  IN Plus(m,
          [i \in {idx[k] : k \in Sites} |->
             MapThenSumSet(LAMBDA k : P * co[k] * (co[k] - 2 * b), {k \in Sites : idx[k] = i})],
          [q \in {On(s) : s \in Both} |->
             MapThenSumSet(LAMBDA s : 2 * P * co[s[1]] * co[s[2]], {s \in Both : On(s) = q})],
          P * b * b)

\* EQUALITY grows the model to cover the largest index it is handed.
Equality(m, idx, co, target, P) ==
  IF Len(idx) # Len(co) THEN Fault
  ELSE LET top == IF idx = <<>> THEN 0 ELSE Max({idx[k] : k \in DOMAIN idx}) + 1
           grown == [m EXCEPT !.size = IF top > @ THEN top ELSE @]
       IN IF \E k \in DOMAIN idx : ~InModel(grown, idx[k]) THEN Fault
          ELSE ExpandEquality(grown, idx, co, target, P)

\* ATLEAST and ATLEASTW: fresh slack variables carry the excess over k.
AtLeast(m, idx, co, k, P, excess) ==
  LET slacks == SlackBits(excess)
      grown == [m EXCEPT !.size = @ + slacks]
  IN IF \E n \in DOMAIN idx : ~InModel(m, idx[n]) THEN Fault
     ELSE ExpandEquality(grown, idx \o [i \in 1..slacks |-> m.size + i - 1],
                         co \o [i \in 1..slacks |-> -(2 ^ (i - 1))], k, P)

AtLeastCount(m, idx, k, P) ==
  IF k <= 0 \/ k > Len(idx) THEN Fault
  ELSE AtLeast(m, idx, [n \in DOMAIN idx |-> 1], k, P, Len(idx) - k)

AtLeastWeight(m, idx, co, k, P) ==
  IF Len(idx) # Len(co) \/ k <= 0 THEN Fault
  ELSE AtLeast(m, idx, co, k, P, MapThenSumSet(LAMBDA n : co[n], DOMAIN co) - k)

\* P * x[i] * x[j], and P * x[i] * (1 - x[j]).
Exclude(m, i, j, P) ==
  IF ~InModel(m, i) \/ ~InModel(m, j) THEN Fault
  ELSE Plus(m, <<>>, Pair(i, j) :> P, 0)

Implies(m, i, j, P) ==
  IF ~InModel(m, i) \/ ~InModel(m, j) THEN Fault
  ELSE Plus(m, i :> P, Pair(i, j) :> -P, 0)

\* Rosenberg reduction: a fresh w with the penalty P * (ab - 2aw - 2bw + 3w).
Reduce(m, a, b, P) ==
  LET w == m.size
  IN IF ~InModel(m, a) \/ ~InModel(m, b) THEN Fault
     ELSE Plus(Plus([m EXCEPT !.size = w + 1], w :> 3 * P, Pair(a, b) :> P, 0),
               <<>>, (Pair(a, w) :> -2 * P) @@ (Pair(b, w) :> IF a = b THEN -4 * P ELSE -2 * P), 0)

\* A grid is a reinterpretation of declared variables: it must fit them.
GridFits(g) == g.rows > 0 /\ g.cols > 0 /\ g.rows * g.cols <= g.size

RowCells(g, row) ==
  IF GridFits(g) /\ row \in 0..(g.rows - 1) THEN [c \in 1..g.cols |-> row * g.cols + c - 1] ELSE <<>>
ColCells(g, col) ==
  IF GridFits(g) /\ col \in 0..(g.cols - 1) THEN [r \in 1..g.rows |-> (r - 1) * g.cols + col] ELSE <<>>

Resize(g, rows, cols) ==
  LET resized == [g EXCEPT !.rows = rows, !.cols = cols]
  IN IF GridFits(resized) THEN resized ELSE Fault

\* ONEHOTR and ONEHOTC over the cells of a line: P * (sum x - 1)^2.
OneHot(m, cells, P) ==
  IF cells = <<>> THEN Fault
  ELSE ExpandEquality(m, cells, [n \in DOMAIN cells |-> 1], 1, P)

\* ADDLINE, SETLINE, ADDQUAD and SETQUAD.
AddLine(m, i, d) ==
  IF ~InModel(m, i) THEN Fault ELSE [m EXCEPT !.lin = Put(@, i, At(@, i) + d)]
SetLine(m, i, v) ==
  IF ~InModel(m, i) THEN Fault ELSE [m EXCEPT !.lin = Put(@, i, v)]
AddQuad(m, i, j, d) ==
  IF ~InModel(m, i) \/ ~InModel(m, j) THEN Fault
  ELSE [m EXCEPT !.quad = Put(@, Pair(i, j), At(@, Pair(i, j)) + d)]
SetQuad(m, i, j, v) ==
  IF ~InModel(m, i) \/ ~InModel(m, j) THEN Fault ELSE [m EXCEPT !.quad = Put(@, Pair(i, j), v)]

\* The Hamiltonian of the model at x, variable i at x[i + 1].
EnergyOf(m, x) ==
    MapThenSumSet(LAMBDA i : m.lin[i] * x[i + 1], DOMAIN m.lin)
  + MapThenSumSet(LAMBDA p : m.quad[p] * x[p[1] + 1] * x[p[2] + 1], DOMAIN m.quad)

=============================================================================
