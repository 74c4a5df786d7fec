---------------------------- MODULE ControlFlow -----------------------------
(***************************************************************************)
(* The control-flow graph of basic blocks the verifier analyses, as        *)
(* `build_cfg` of dataflow/bytecode.rs builds it for a program its first   *)
(* phase accepted, and the stack effect of each block.  A block is named   *)
(* by the position of its first instruction.                               *)
(***************************************************************************)
EXTENDS Bytecode, SequencesExt, FiniteSetsExt

Terminators == Jumps \cup LoopOpeners \cup {"NEXT"}

\* Where a block begins: at the start, at a TARGET, after a jump, a loop
\* opener or a NEXT.  HALT ends no block.
Leaders(code) ==
  {0} \cup Targets(code)
      \cup {p + 1 : p \in {q \in Positions(code) : OpAt(code, q) \in Terminators}}

BlockEnd(code, b) == Min({l \in Leaders(code) : l > b} \cup {Len(code)})

\* The last control-flow instruction of the block decides its edges: -1 when
\* it has none and falls through.
TerminatorOf(code, b) ==
  Max({-1} \cup {p \in b .. BlockEnd(code, b) - 1 :
                   OpAt(code, p) \in Terminators \cup {"HALT"}})

\* The blocks a block leads to, in the order its edges are recorded.
BlockTargets(code, b) ==
  LET t == TerminatorOf(code, b)
      fallthrough == IF BlockEnd(code, b) < Len(code)
                       THEN <<BlockEnd(code, b)>> ELSE <<>>
      closing == CHOOSE pair \in LoopPairs(code) : t \in {pair[1], pair[2]}
  IN  CASE t = -1 -> fallthrough
        [] OTHER ->
             LET op == OpAt(code, t)
             IN  CASE op = "JUMP" -> <<TargetOf(code, At(code, t).arg)>>
                   [] op = "JUMPI" ->
                        <<TargetOf(code, At(code, t).arg)>> \o fallthrough
                   [] op \in LoopOpeners -> <<t + 1, closing[2] + 1>>
                   [] op = "NEXT" -> <<closing[1] + 1>> \o fallthrough
                   [] op = "HALT" -> <<>>

\* The block the exit node is put on: the one holding the last HALT, tracked
\* during the scan, where a TARGET does not yet count as a block start when
\* it is met; the last block if the program has no HALT.
ExitBlock(code) ==
  LET halts == {p \in Positions(code) : OpAt(code, p) = "HALT"}
      started == {l \in Leaders(code) :
                    \/ l = 0
                    \/ OpAt(code, l - 1) \in Terminators}
  IN  IF halts = {} THEN Max(Leaders(code))
      ELSE Max({l \in started : l <= Max(halts)})

-----------------------------------------------------------------------------
SortedLeaders(code) ==
  [i \in 1 .. Cardinality(Leaders(code)) |->
     CHOOSE l \in Leaders(code) :
       Cardinality({m \in Leaders(code) : m < l}) = i - 1]

\* Without repetitions, keeping first occurrences.
FirstOccurrences(s) ==
  LET kept[i \in 0 .. Len(s)] ==
        IF i = 0 THEN <<>>
        ELSE LET before == kept[i - 1]
             IN  IF \E k \in 1 .. Len(before) : before[k] = s[i]
                   THEN before ELSE Append(before, s[i])
  IN  kept[Len(s)]

\* The edges <<from, to>> block by block.
EdgesFrom(code, b) ==
  LET targets == BlockTargets(code, b)
  IN  [k \in DOMAIN targets |-> <<b, targets[k]>>]

EdgeList(code) ==
  LET leaders == SortedLeaders(code)
  IN  FirstOccurrences(FlattenSeq([i \in DOMAIN leaders |-> EdgesFrom(code, leaders[i])]))

\* The ends across the edges that meet n at `here`, edge by edge.
Neighbours(edges, n, here, across) ==
  FlattenSeq([i \in DOMAIN edges |->
                IF edges[i][here] = n THEN <<edges[i][across]>> ELSE <<>>])

\* The graph as the builder leaves it: a node is registered when it is the
\* entry, the exit or an end of an edge, and a block that is none of these
\* is not in the graph.
Graph(code) ==
  LET edges == EdgeList(code)
      nodes == FirstOccurrences(<<0, ExitBlock(code)>> \o FlattenSeq(edges))
      blocks == ToSet(nodes)
  IN  [nodes |-> nodes,
       entry |-> 0,
       succs |-> [n \in blocks |-> Neighbours(edges, n, 1, 2)],
       preds |-> [n \in blocks |-> Neighbours(edges, n, 2, 1)]]

\* The span of code the register analyses give to a node: up to the next
\* node of the graph, not to the next block.
SpanEnd(code, graph, n) ==
  Min({m \in DOMAIN graph.succs : m > n} \cup {Len(code)})

-----------------------------------------------------------------------------
(***************************************************************************)
(* The stack effect of a block: the depth it needs on entry, and its depth *)
(* on exit, relative to the entry unless it contains an SCLR.  An          *)
(* instruction's pops are checked before its pushes are applied.           *)
(***************************************************************************)
StackStep(op, s) ==
  LET low == s.depth - Pops(op)
  IN  IF op = "SCLR"
        THEN [s EXCEPT !.fixed = TRUE, !.depth = 0]
        ELSE [depth |-> low + Pushes(op),
              fixed |-> s.fixed,
              needs |-> IF ~s.fixed /\ -low > s.needs THEN -low ELSE s.needs,
              underflow |-> s.underflow \/ (s.fixed /\ low < 0)]

BlockEffect(code, b) ==
  LET run[p \in b .. BlockEnd(code, b)] ==
        IF p = b
          THEN [depth |-> 0, fixed |-> FALSE, needs |-> 0, underflow |-> FALSE]
          ELSE StackStep(OpAt(code, p - 1), run[p - 1])
  IN  run[BlockEnd(code, b)]
=============================================================================
