---------------------------- MODULE MCFlowAnalyses ---------------------------
(***************************************************************************)
(* Solver calls for model checking: every graph of three blocks in which a *)
(* block has at most two successors, with a short body in each block.      *)
(***************************************************************************)
EXTENDS FlowAnalyses, TLC

MCRegisters == {0, 1}

On(op, r) == Instr(op, <<r>>, 0)

Blocks == 0 .. 2

\* The elements of a set of blocks in ascending order.
Ascending(S) == SelectSeq(<<0, 1, 2>>, LAMBDA b : b \in S)

\* Up to swapping blocks 1 and 2, and leaving out an entry that leads nowhere.
Graphs ==
  {g \in [Blocks -> SUBSET Blocks] :
     /\ g[0] \in {{1}, {0, 1}, {1, 2}}
     /\ Cardinality(g[1]) <= 2 /\ Cardinality(g[2]) <= 2}

JobOn(kind, graph, body) ==
  [kind |-> kind, nodes |-> <<0, 1, 2>>, entry |-> 0,
   succs |-> [b \in Blocks |-> Ascending(graph[b])],
   preds |-> [b \in Blocks |-> Ascending({p \in Blocks : b \in graph[p]})],
   body |-> body]

InitBodies == {<<>>, <<On("STOW", 0)>>, <<On("DROP", 0)>>}

TypeBodies ==
  {<<On("STOW", 0)>>, <<On("VECI", 0)>>, <<On("VECX", 0)>>, <<On("DROP", 0)>>}

\* Stack effects of a block: push, pop, swap, and clear before a push.
Effects ==
  {[depth |-> d, needs |-> n, fixed |-> f, underflow |-> FALSE] :
     <<d, n, f>> \in {<<1, 0, FALSE>>, <<-1, 1, FALSE>>, <<0, 2, FALSE>>, <<1, 0, TRUE>>,
                      <<0, 0, FALSE>>}}

\* Register 1 is written by no block of these jobs.
InitJobs == {JobOn("init", g, b) : g \in Graphs, b \in [Blocks -> InitBodies]}

MCJobs ==
  InitJobs
    \cup {JobOn("types", g, b) :
            g \in Graphs,
            b \in {f \in [Blocks -> TypeBodies \cup {<<>>}] : f[0] \in {<<>>, <<On("STOW", 0)>>}}}
    \cup {JobOn("depth", g, b) :
            g \in Graphs, b \in {f \in [Blocks -> Effects] : f[0].needs = 0 /\ ~f[0].fixed}}

\* A loop whose body writes every register there is.
LoopJobs ==
  {JobOn("types", [b \in Blocks |-> CASE b = 0 -> {1} [] b = 1 -> {1, 2} [] b = 2 -> {}],
         [b \in Blocks |-> IF b = 1 THEN <<On("VECI", 0), On(op, 1)>> ELSE <<>>]) :
     op \in {"VECI", "STOW", "NOP"}}
=============================================================================
