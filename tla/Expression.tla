----------------------------- MODULE Expression -----------------------------
(***************************************************************************)
(* The symbolic expressions of the constraint DSL (xqcp/expression.py) and *)
(* the stack code each of them emits.                                      *)
(*                                                                         *)
(* A node is a record: its class, an operator or type name, the register   *)
(* it names, a literal operand, and its sub-expressions in the order the   *)
(* class emits them.  An instruction is a tuple: the opcode and its        *)
(* immediate operands.  Formatting (hex penalties, indentation) is left    *)
(* out; the text of a line is the tuple.                                   *)
(***************************************************************************)
LOCAL INSTANCE Integers
LOCAL INSTANCE Sequences
LOCAL INSTANCE SequencesExt

Node(kind, op, reg, val, kids) ==
  [kind |-> kind, op |-> op, reg |-> reg, val |-> val, kids |-> kids]

Literal(v)         == Node("Literal", "", 0, v, <<>>)
RegLoad(r)         == Node("RegLoad", "", r, 0, <<>>)
InputRef(r, type)  == Node("InputRef", type, r, 0, <<>>)
LoopVar(r)         == Node("LoopVar", "", r, 0, <<>>)
BinOp(op, a, b)    == Node("BinOp", op, 0, 0, <<a, b>>)
CompareOp(op, a, b) == Node("CompareOp", op, 0, 0, <<a, b>>)
UnaryOp(op, a)     == Node("UnaryOp", op, 0, 0, <<a>>)
SqrExpr(a)         == Node("SqrExpr", "SQR", 0, 0, <<a>>)
BitLenExpr(a)      == Node("BitLenExpr", "BITLEN", 0, 0, <<a>>)
GridExpr(r, c, w)  == Node("GridExpr", "IDXGRID", 0, 0, <<r, c, w>>)
TriuExpr(i, j)     == Node("TriuExpr", "IDXTRIU", 0, 0, <<i, j>>)
VecGetExpr(v, i)   == Node("VecGetExpr", "VECGET", v, 0, <<i>>)
VecLenExpr(v)      == Node("VecLenExpr", "VECLEN", v, 0, <<>>)
GetLineExpr(s, i)  == Node("GetLineExpr", "GETLINE", s, 0, <<i>>)
GetQuadExpr(m, i, j) == Node("GetQuadExpr", "GETQUAD", m, 0, <<i, j>>)
RowSumExpr(s, i)   == Node("RowSumExpr", "ROWSUM", s, 0, <<i>>)
ColSumExpr(s, i)   == Node("ColSumExpr", "COLSUM", s, 0, <<i>>)
RowFindExpr(s, i, v) == Node("RowFindExpr", "ROWFIND", s, v, <<i>>)
ColFindExpr(s, i, v) == Node("ColFindExpr", "COLFIND", s, v, <<i>>)
\* model.linear[i] and model.quadratic[i, j] read as expressions
CoefficientRef(m, kids) ==
  Node("CoefficientRef", IF Len(kids) = 1 THEN "GETLINE" ELSE "GETQUAD", m, 0, kids)

SampleReads == {"GetLineExpr", "RowSumExpr", "ColSumExpr", "RowFindExpr", "ColFindExpr"}

\* A rewrite that met a node it must refuse: the RuntimeError of the compiler.
\* Its code marks the program, so that one refusal refuses the program.
Refusal == Node("Refusal", "REFUSED", 0, 0, <<>>)

One == Literal(1)

\* The operand that stays and the opcode of x + 1, 1 + x and x - 1; 0 keeps both.
Shortened(e) ==
  IF e.op = "ADD" /\ e.kids[2] = One THEN <<1, "INC">>
  ELSE IF e.op = "ADD" /\ e.kids[1] = One THEN <<2, "INC">>
  ELSE IF e.op = "SUB" /\ e.kids[2] = One THEN <<1, "DEC">> ELSE <<0, e.op>>

RECURSIVE Emit(_)
Emit(e) ==
  LET args == FlattenSeq([i \in DOMAIN e.kids |-> Emit(e.kids[i])])
  IN CASE e.kind = "Literal" -> <<<<"PUSH", e.val>>>>
       [] e.kind \in {"RegLoad", "InputRef", "LoopVar"} -> <<<<"LOAD", e.reg>>>>
       [] e.kind = "BinOp" /\ Shortened(e)[1] # 0 ->
            Append(Emit(e.kids[Shortened(e)[1]]), <<Shortened(e)[2]>>)
       [] e.kind \in {"RowFindExpr", "ColFindExpr"} ->
            args \o <<<<"PUSH", e.val>>, <<e.op, e.reg>>>>
       [] e.kind \in {"GetLineExpr", "RowSumExpr", "ColSumExpr", "VecGetExpr", "VecLenExpr", "GetQuadExpr", "CoefficientRef"} ->
            Append(args, <<e.op, e.reg>>)
       [] OTHER -> Append(args, <<e.op>>)

\* resolve_coord and emit_flat_index: a coordinate is one expression on a flat
\* model and a (row, col) pair on a grid, whose width is read from a register.
EmitIndex(coord, isGrid, colsReg) ==
  CASE isGrid /\ Len(coord) = 2 ->
         Emit(coord[1]) \o Emit(coord[2]) \o <<<<"LOAD", colsReg>>, <<"IDXGRID">>>>
    [] ~isGrid /\ Len(coord) = 1 -> Emit(coord[1])
    [] OTHER -> Emit(Refusal)

\* _map_expr rebuilds a node around its rewritten sub-expressions; a refused one
\* refuses the whole expression.
Rebuilt(e, kids) ==
  IF \E i \in DOMAIN kids : kids[i].kind = "Refusal" THEN Refusal ELSE [e EXCEPT !.kids = kids]

=============================================================================
