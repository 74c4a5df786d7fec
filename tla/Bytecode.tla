------------------------------ MODULE Bytecode ------------------------------
(***************************************************************************)
(* XQVM bytecode as data: the instruction table, what an instruction does  *)
(* to the stack and to the registers, the labels, the textual pairing of   *)
(* loop openers with their NEXT, and the linear scan that is the first     *)
(* phase of the verifier.                                                  *)
(*                                                                         *)
(* A program is a sequence of instructions and a position is the number of *)
(* instructions before it, so an instruction is one position wide.  The    *)
(* byte widths of PUSH1..PUSH8, JUMP1/JUMP2 and JUMPI1/JUMPI2 only change  *)
(* how far apart the positions are.                                        *)
(***************************************************************************)
EXTENDS Integers, Sequences, FiniteSets

\* An instruction: its opcode, the registers it names and its immediate (the
\* value of PUSH, the label of a jump, 0 elsewhere).
Instr(op, regs, arg) == [op |-> op, regs |-> regs, arg |-> arg]

At(code, pos) == code[pos + 1]
OpAt(code, pos) == code[pos + 1].op
Positions(code) == 0 .. Len(code) - 1

Jumps == {"JUMP", "JUMPI"}
LoopOpeners == {"RANGE", "ITER"}
LoopReads == {"LIDX", "LVAL"}
Binary == {"ADD", "SUB", "MUL", "DIV", "MOD", "MIN", "MAX", "EQ", "LT", "GT",
           "LTE", "GTE", "AND", "OR", "XOR", "BAND", "BOR", "BXOR", "SHL",
           "SHR"}
Unary == {"SQR", "ABS", "NEG", "INC", "DEC", "BITLEN", "NOT", "BNOT"}

(***************************************************************************)
(* Stack effects: the values an instruction pops, then the values it       *)
(* pushes.  SCLR, which empties the stack, has no fixed effect.            *)
(***************************************************************************)
Pops(op) ==
  CASE op \in {"IDXGRID", "SETQUAD", "ADDQUAD", "EXCLUDE", "IMPLIES",
               "REDUCE"} -> 3
    [] op \in Binary \cup LoopOpeners
               \cup {"SWAP", "XQMX", "XSMX", "VECSET", "SLACK", "IDXTRIU",
                     "SETLINE", "ADDLINE", "GETQUAD", "RESIZE", "ROWFIND",
                     "COLFIND", "ONEHOTR", "ONEHOTC", "EQUALITY", "ATLEAST",
                     "ATLEASTW"} -> 2
    [] op \in Unary
               \cup {"JUMPI", "STOW", "INPUT", "OUTPUT", "POP", "COPY",
                     "BQMX", "SQMX", "BSMX", "SSMX", "VECPUSH", "VECGET",
                     "GETLINE", "ROWSUM", "COLSUM"} -> 1
    [] OTHER -> 0

Pushes(op) ==
  CASE op \in {"SWAP", "COPY"} -> 2
    [] op \in Binary \cup Unary
               \cup {"LOAD", "PUSH", "VECGET", "VECLEN", "IDXGRID", "IDXTRIU",
                     "GETLINE", "GETQUAD", "ROWFIND", "COLFIND", "ROWSUM",
                     "COLSUM", "REDUCE", "ENERGY"} -> 1
    [] OTHER -> 0

(***************************************************************************)
(* Register effects, as the verifier's type rules state them: the kind an  *)
(* instruction requires of each register it reads, and the kind it leaves  *)
(* in the register it writes.                                              *)
(***************************************************************************)
Requires(i) ==
  CASE i.op = "LOAD" -> {<<i.regs[1], "Int">>}
    [] i.op = "OUTPUT" -> {<<i.regs[1], "NonUnset">>}
    [] i.op \in {"ITER", "VECLEN"} -> {<<i.regs[1], "AnyVec">>}
    [] i.op \in {"VECGET", "VECSET", "VECPUSH"} -> {<<i.regs[1], "VecInt">>}
    [] i.op = "SLACK" -> {<<i.regs[1], "VecInt">>, <<i.regs[2], "VecInt">>}
    [] i.op \in {"GETQUAD", "SETQUAD", "ADDQUAD", "ONEHOTR", "ONEHOTC",
                 "EXCLUDE", "IMPLIES", "REDUCE"} -> {<<i.regs[1], "Model">>}
    [] i.op \in {"GETLINE", "SETLINE", "ADDLINE", "RESIZE", "ROWFIND",
                 "COLFIND", "ROWSUM", "COLSUM"} -> {<<i.regs[1], "Grid">>}
    [] i.op \in {"EQUALITY", "ATLEASTW"} ->
         {<<i.regs[1], "Model">>, <<i.regs[2], "VecInt">>,
          <<i.regs[3], "VecInt">>}
    [] i.op = "ATLEAST" -> {<<i.regs[1], "Model">>, <<i.regs[2], "VecInt">>}
    [] i.op = "ENERGY" -> {<<i.regs[1], "Model">>, <<i.regs[2], "Sample">>}
    [] OTHER -> {}

WrittenKind(op) ==
  CASE op \in {"STOW", "LIDX"} -> "Int"
    [] op = "DROP" -> "Unset"
    [] op \in {"INPUT", "LVAL"} -> "Any"
    [] op \in {"BQMX", "SQMX", "XQMX"} -> "Model"
    [] op \in {"BSMX", "SSMX", "XSMX"} -> "Sample"
    [] op \in {"VEC", "VECI"} -> "VecInt"
    [] op = "VECX" -> "VecXqmx"
    [] OTHER -> "None"

Writes(i) == WrittenKind(i.op) # "None"

(***************************************************************************)
(* Labels: the k-th TARGET of the stream is label k.                       *)
(***************************************************************************)
Targets(code) == {p \in Positions(code) : OpAt(code, p) = "TARGET"}

Labelled(code, label) ==
  {p \in Targets(code) : Cardinality({q \in Targets(code) : q < p}) = label}

TargetOf(code, label) == CHOOSE p \in Labelled(code, label) : TRUE

(***************************************************************************)
(* Loop nesting is textual: OpenLoops(code)[p] is the stack of openers     *)
(* still open just before position p.                                      *)
(***************************************************************************)
OpenBehind(code, before, p) ==
  IF OpAt(code, p) \in LoopOpeners THEN Append(before, p)
  ELSE IF OpAt(code, p) = "NEXT" /\ before # <<>> THEN SubSeq(before, 1, Len(before) - 1)
  ELSE before

OpenLoops(code) ==
  LET open[p \in 0 .. Len(code)] ==
        IF p = 0 THEN <<>> ELSE OpenBehind(code, open[p - 1], p - 1)
  IN  open

\* The NEXT that closes each opener, as pairs <<opener, next>>.
LoopPairs(code) ==
  LET open == OpenLoops(code)
  IN  {<<open[p][Len(open[p])], p>> :
         p \in {q \in Positions(code) : /\ OpAt(code, q) = "NEXT"
                                        /\ open[q] # <<>>}}

\* Mutant: only NEXT has to stand inside a loop.
ScanAcceptsReadsAnywhere(code) ==
  LET open == OpenLoops(code)
  IN  /\ \A p \in Positions(code) : OpAt(code, p) = "NEXT" => open[p] # <<>>
      /\ open[Len(code)] = <<>>
      /\ \A p \in Positions(code) :
           OpAt(code, p) \in Jumps => Labelled(code, At(code, p).arg) # {}

(***************************************************************************)
(* Phase 1 of the verifier accepts: every NEXT, LIDX and LVAL stands inside*)
(* a loop, every loop is closed, every jump names an existing label.       *)
(***************************************************************************)
ScanAccepts(code) ==
  LET open == OpenLoops(code)
  IN  /\ \A p \in Positions(code) :
           OpAt(code, p) \in LoopReads \cup {"NEXT"} => open[p] # <<>>
      /\ open[Len(code)] = <<>>
      /\ \A p \in Positions(code) :
           OpAt(code, p) \in Jumps => Labelled(code, At(code, p).arg) # {}
=============================================================================
