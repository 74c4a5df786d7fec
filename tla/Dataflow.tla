------------------------------ MODULE Dataflow ------------------------------
(***************************************************************************)
(* The worklist solver shared by the three flow analyses of the verifier   *)
(* (`solve` of dataflow/solver.rs), generic in the analysis as the code is.*)
(*                                                                         *)
(* A job is one call of the solver: a control-flow graph and the analysis  *)
(* to run over it.  The state it computes maps every node to the value     *)
(* after the node; the value before a node is the meet of what its         *)
(* predecessors left.  The analysis may be any four operators: nothing     *)
(* here assumes that Meet is associative or that Transfer is monotone.     *)
(***************************************************************************)
EXTENDS Integers, Sequences

CONSTANTS
  Jobs,              \* the solver calls considered
  Top(_),            \* the job's lattice top
  Boundary(_),       \* the value on entry to the graph
  Meet(_, _, _),     \* job, value, value: the confluence of two values
  Transfer(_, _, _)  \* job, node, value before: the value after the node

VARIABLES
  job,               \* the call being served
  worklist,          \* the FIFO queue of nodes to (re)compute
  inWorklist,        \* the membership set beside the queue
  state,             \* node -> value after the node
  pending            \* successors of a changed node still to be enqueued

vars == <<job, worklist, inWorklist, state, pending>>

Elements(s) == {s[i] : i \in DOMAIN s}

Nodes(j) == Elements(j.nodes)

NoRepeats(s) == \A i, k \in DOMAIN s : s[i] = s[k] => i = k

\* A job's graph as Cfg stores it: nodes in insertion order, each once, and
\* for every node the lists of its predecessors and of its successors, in
\* agreement.
WellFormed(j) ==
  /\ j.nodes \in Seq(Nodes(j)) /\ NoRepeats(j.nodes)
  /\ j.entry \in Nodes(j)
  /\ j.preds \in [Nodes(j) -> Seq(Nodes(j))]
  /\ j.succs \in [Nodes(j) -> Seq(Nodes(j))]
  /\ \A m, n \in Nodes(j) :
       m \in Elements(j.preds[n]) => n \in Elements(j.succs[m])

ASSUME JobsAssumption == \A j \in Jobs : WellFormed(j)

-----------------------------------------------------------------------------
\* Folding the values that arrive over the predecessors, in the order the
\* graph recorded its edges, from the top.
MeetAll(j, arriving) ==
  LET fold[i \in 0 .. Len(arriving)] ==
        IF i = 0 THEN Top(j) ELSE Meet(j, fold[i - 1], arriving[i])
  IN  fold[Len(arriving)]

Arriving(j, st, n) == [i \in DOMAIN j.preds[n] |-> st[j.preds[n][i]]]

\* The value before a node.  The entry is pinned to the boundary, whatever
\* edges lead back to it.
Before(j, st, n) ==
  IF n = j.entry THEN Boundary(j) ELSE MeetAll(j, Arriving(j, st, n))

InitialState(j) ==
  [n \in Nodes(j) |-> IF n = j.entry THEN Boundary(j) ELSE Top(j)]

Init ==
  /\ job \in Jobs
  /\ worklist = job.nodes
  /\ inWorklist = Nodes(job)
  /\ state = InitialState(job)
  /\ pending = <<>>

\* Mutant: a node is not its own successor.
RecomputeOthers ==
  /\ pending = <<>>
  /\ worklist # <<>>
  /\ LET n == Head(worklist)
         after == Transfer(job, n, Before(job, state, n))
     IN  /\ state' = [state EXCEPT ![n] = after]
         /\ pending' = IF after = state[n] THEN <<>>
                       ELSE SelectSeq(job.succs[n], LAMBDA m : m # n)
         /\ inWorklist' = inWorklist \ {n}
  /\ worklist' = Tail(worklist)
  /\ UNCHANGED job

\* Mutant: the successors are queued whether or not the node changed.
RecomputeAlways ==
  /\ pending = <<>>
  /\ worklist # <<>>
  /\ LET n == Head(worklist)
     IN  /\ state' = [state EXCEPT ![n] = Transfer(job, n, Before(job, state, n))]
         /\ pending' = job.succs[n]
         /\ inWorklist' = inWorklist \ {n}
  /\ worklist' = Tail(worklist)
  /\ UNCHANGED job

\* Take the node at the front, recompute its value and, if it changed,
\* remember its successors.
Recompute ==
  /\ pending = <<>>
  /\ worklist # <<>>
  /\ LET n == Head(worklist)
         after == Transfer(job, n, Before(job, state, n))
     IN  /\ state' = [state EXCEPT ![n] = after]
         /\ pending' = IF after # state[n] THEN job.succs[n] ELSE <<>>
         /\ inWorklist' = inWorklist \ {n}
  /\ worklist' = Tail(worklist)
  /\ UNCHANGED job

\* Mutant: the membership set is not told of what is queued.
EnqueueUnmarked ==
  /\ pending # <<>>
  /\ worklist' = IF Head(pending) \in inWorklist THEN worklist
                 ELSE Append(worklist, Head(pending))
  /\ pending' = Tail(pending)
  /\ UNCHANGED <<job, state, inWorklist>>

\* Put the next successor of the changed node on the queue, unless it is
\* already there.
Enqueue ==
  /\ pending # <<>>
  /\ LET next == Head(pending)
     IN  IF next \in inWorklist
           THEN UNCHANGED <<worklist, inWorklist>>
           ELSE /\ worklist' = Append(worklist, next)
                /\ inWorklist' = inWorklist \cup {next}
  /\ pending' = Tail(pending)
  /\ UNCHANGED <<job, state>>

Next == Recompute \/ Enqueue

Spec == Init /\ [][Next]_vars

\* The loop is ordinary sequential code: it keeps running while it can.
FairSpec == Spec /\ WF_vars(Next)

Converged == worklist = <<>> /\ pending = <<>>

-----------------------------------------------------------------------------
\* The membership set mirrors the queue, which holds no node twice: that is
\* what the duplicate suppression of `solve` relies on.
QueueOK ==
  /\ WellFormed(job)
  /\ worklist \in Seq(Nodes(job))
  /\ inWorklist = Elements(worklist)
  /\ NoRepeats(worklist)
  /\ pending \in Seq(Nodes(job))
  /\ DOMAIN state = Nodes(job)

\* When the solver stops, its answer is a fixed point: every node's value is
\* the transfer of the meet of its predecessors' values.  The FIFO with its
\* duplicate suppression may not lose the re-evaluation of a node whose
\* input changed, including a node that is its own predecessor.
FixedPoint ==
  Converged =>
    \A n \in Nodes(job) :
      state[n] = Transfer(job, n, Before(job, state, n))

\* The solver's loop ends: `solve` iterates "until no node's state changes",
\* so every call must reach a state where nothing changes any more.
Converges == <>Converged
=============================================================================
