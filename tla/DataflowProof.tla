--------------------------- MODULE DataflowProof ---------------------------
(***************************************************************************)
(* The solver's loop, for every graph and every analysis: its queue and    *)
(* membership set stay in step, and whenever it stops its answer is a      *)
(* fixed point.  Nothing is assumed of Top, Boundary, Meet and Transfer.   *)
(***************************************************************************)
EXTENDS Dataflow, TLAPS

\* The value after a node is what the values of its predecessors make it.
Settled(n) == state[n] = Transfer(job, n, Before(job, state, n))

\* A node out of step with its predecessors is going to be looked at again:
\* it is on the queue, or among the successors about to be put on it.
Owed == inWorklist \cup Elements(pending)

NothingForgotten == \A n \in Nodes(job) : n \in Owed \/ Settled(n)

Inv == QueueOK /\ NothingForgotten

-----------------------------------------------------------------------------
\* What the elements of a queue are after a node is taken off its front.
LEMMA HeadTail ==
  ASSUME NEW S, NEW s \in Seq(S), s # <<>>
  PROVE  /\ Head(s) \in S
         /\ Tail(s) \in Seq(S)
         /\ Elements(s) = {Head(s)} \cup Elements(Tail(s))
         /\ NoRepeats(s) =>
              NoRepeats(Tail(s)) /\ Elements(Tail(s)) = Elements(s) \ {Head(s)}
<1>1. Len(s) \in Nat /\ Len(s) >= 1 /\ DOMAIN s = 1 .. Len(s)
  OBVIOUS
<1>2. /\ Head(s) = s[1]
      /\ DOMAIN Tail(s) = 1 .. Len(s) - 1
      /\ \A i \in 1 .. Len(s) - 1 : Tail(s)[i] = s[i + 1]
  OBVIOUS
<1>3. Head(s) \in S /\ Tail(s) \in Seq(S)
  OBVIOUS
<1>4. \A i \in 1 .. Len(s) : i = 1 \/ s[i] = Tail(s)[i - 1]
  BY <1>1, <1>2
<1>5. Elements(s) = {Head(s)} \cup Elements(Tail(s))
  <2>1. Elements(s) \subseteq {Head(s)} \cup Elements(Tail(s))
    <3>1. SUFFICES ASSUME NEW x \in Elements(s)
                   PROVE  x \in {Head(s)} \cup Elements(Tail(s))
      OBVIOUS
    <3>2. PICK i \in 1 .. Len(s) : x = s[i]
      BY <1>1 DEF Elements
    <3>3. CASE i = 1
      BY <3>2, <3>3, <1>2
    <3>4. CASE i # 1
      <4>1. i - 1 \in DOMAIN Tail(s) /\ x = Tail(s)[i - 1]
        BY <3>2, <3>4, <1>1, <1>2, <1>4
      <4> QED  BY <4>1 DEF Elements
    <3> QED  BY <3>3, <3>4
  <2>2. {Head(s)} \cup Elements(Tail(s)) \subseteq Elements(s)
    <3>1. 1 \in DOMAIN s /\ \A i \in DOMAIN Tail(s) : i + 1 \in DOMAIN s
      BY <1>1, <1>2
    <3> QED  BY <3>1, <1>2 DEF Elements
  <2> QED  BY <2>1, <2>2
<1>6. ASSUME NoRepeats(s)
      PROVE  NoRepeats(Tail(s)) /\ Head(s) \notin Elements(Tail(s))
  <2>1. \A i, k \in 1 .. Len(s) : s[i] = s[k] => i = k
    BY <1>6, <1>1 DEF NoRepeats
  <2>2. \A i, k \in 1 .. Len(s) - 1 : s[i + 1] = s[k + 1] => i = k
    BY <2>1, <1>1
  <2>3. \A i \in 1 .. Len(s) - 1 : s[i + 1] # s[1]
    BY <2>1, <1>1
  <2> QED  BY <2>2, <2>3, <1>2 DEF NoRepeats, Elements
<1> QED  BY <1>3, <1>5, <1>6

\* What they are after a node is put on its back.
LEMMA AppendNew ==
  ASSUME NEW S, NEW s \in Seq(S), NEW x \in S
  PROVE  /\ Append(s, x) \in Seq(S)
         /\ Elements(Append(s, x)) = Elements(s) \cup {x}
         /\ NoRepeats(s) /\ x \notin Elements(s) => NoRepeats(Append(s, x))
<1>1. Len(s) \in Nat /\ DOMAIN s = 1 .. Len(s)
  OBVIOUS
<1>2. /\ Append(s, x) \in Seq(S)
      /\ DOMAIN Append(s, x) = 1 .. Len(s) + 1
      /\ \A i \in 1 .. Len(s) : Append(s, x)[i] = s[i]
      /\ Append(s, x)[Len(s) + 1] = x
  OBVIOUS
<1>3. 1 .. Len(s) + 1 = (1 .. Len(s)) \cup {Len(s) + 1}
  BY <1>1
<1>4. Elements(Append(s, x)) = Elements(s) \cup {x}
  BY <1>1, <1>2, <1>3 DEF Elements
<1>5. ASSUME NoRepeats(s), x \notin Elements(s)
      PROVE  NoRepeats(Append(s, x))
  <2>1. \A i, k \in 1 .. Len(s) : s[i] = s[k] => i = k
    BY <1>5, <1>1 DEF NoRepeats
  <2>2. \A i \in 1 .. Len(s) : s[i] # x
    BY <1>5, <1>1 DEF Elements
  <2> QED  BY <2>1, <2>2, <1>2, <1>3 DEF NoRepeats
<1> QED  BY <1>2, <1>4, <1>5

\* The elements of a sequence over S are in S.
LEMMA ElementsIn ==
  ASSUME NEW S, NEW s \in Seq(S)
  PROVE  Elements(s) \subseteq S
BY DEF Elements

\* The value before a node depends on its predecessors only.
LEMMA BeforeLocal ==
  ASSUME NEW j, WellFormed(j), NEW st, NEW st2, NEW n \in Nodes(j),
         \A m \in Elements(j.preds[n]) : st2[m] = st[m]
  PROVE  Before(j, st2, n) = Before(j, st, n)
<1>1. Arriving(j, st2, n) = Arriving(j, st, n)
  BY DEF Arriving, Elements
<1> QED  BY <1>1 DEF Before

-----------------------------------------------------------------------------
\* The first call of the loop finds every node on the queue.
LEMMA InvInit == Init => Inv
<1> SUFFICES ASSUME Init PROVE Inv
  OBVIOUS
<1>1. WellFormed(job)
  BY JobsAssumption DEF Init
<1>2. worklist \in Seq(Nodes(job)) /\ NoRepeats(worklist)
  BY <1>1 DEF Init, WellFormed
<1>3. inWorklist = Elements(worklist) /\ DOMAIN state = Nodes(job)
  BY DEF Init, Nodes, InitialState
<1>4. pending \in Seq(Nodes(job))
  BY DEF Init
<1>5. NothingForgotten
  BY DEF Init, NothingForgotten, Owed
<1> QED  BY <1>1, <1>2, <1>3, <1>4, <1>5 DEF Inv, QueueOK

\* Recomputing a node settles it, or puts every node that reads it in debt.
LEMMA InvRecompute == Inv /\ Recompute => Inv'
<1> SUFFICES ASSUME Inv, Recompute PROVE Inv'
  OBVIOUS
<1> DEFINE n == Head(worklist)
           after == Transfer(job, n, Before(job, state, n))
<1>1. /\ WellFormed(job) /\ worklist \in Seq(Nodes(job)) /\ NoRepeats(worklist)
      /\ inWorklist = Elements(worklist) /\ DOMAIN state = Nodes(job)
  BY DEF Inv, QueueOK
<1>2. /\ pending = <<>> /\ worklist # <<>> /\ job' = job
      /\ worklist' = Tail(worklist) /\ inWorklist' = inWorklist \ {n}
      /\ state' = [state EXCEPT ![n] = after]
      /\ pending' = IF after # state[n] THEN job.succs[n] ELSE <<>>
  BY DEF Recompute
<1>3. /\ n \in Nodes(job) /\ worklist' \in Seq(Nodes(job)) /\ NoRepeats(worklist')
      /\ inWorklist' = Elements(worklist')
  BY <1>1, <1>2, HeadTail
<1>4. pending' \in Seq(Nodes(job))
  BY <1>1, <1>2, <1>3 DEF WellFormed
<1>5. /\ DOMAIN state' = Nodes(job) /\ state'[n] = after
      /\ \A m \in Nodes(job) : m # n => state'[m] = state[m]
  BY <1>1, <1>2, <1>3
<1>6. ASSUME NEW m \in Nodes(job), ~(m \in inWorklist' \cup Elements(pending'))
      PROVE  state'[m] = Transfer(job, m, Before(job, state', m))
  <2>1. \A p \in Elements(job.preds[m]) : p \in Nodes(job)
    BY <1>1, ElementsIn DEF WellFormed
  <2>2. Before(job, state', m) = Before(job, state, m)
    <3>1. CASE after = state[n]
      <4>1. \A p \in Elements(job.preds[m]) : state'[p] = state[p]
        BY <3>1, <2>1, <1>5
      <4> QED  BY <4>1, <1>1, BeforeLocal
    <3>2. CASE after # state[n]
      <4>1. n \notin Elements(job.preds[m])
        BY <3>2, <1>1, <1>2, <1>3, <1>6 DEF WellFormed
      <4>2. \A p \in Elements(job.preds[m]) : state'[p] = state[p]
        BY <4>1, <2>1, <1>5
      <4> QED  BY <4>2, <1>1, BeforeLocal
    <3> QED  BY <3>1, <3>2
  <2>3. CASE m = n
    BY <2>2, <2>3, <1>5
  <2>4. CASE m # n
    <3>1. m \notin Owed
      BY <1>2, <1>6, <2>4 DEF Owed, Elements
    <3>2. state[m] = Transfer(job, m, Before(job, state, m))
      BY <3>1 DEF Inv, NothingForgotten, Settled
    <3> QED  BY <3>2, <2>2, <2>4, <1>5
  <2> QED  BY <2>3, <2>4
<1>7. NothingForgotten'
  BY <1>2, <1>6 DEF NothingForgotten, Owed, Settled
<1>8. QueueOK'
  BY <1>1, <1>2, <1>3, <1>4, <1>5 DEF QueueOK
<1> QED  BY <1>7, <1>8 DEF Inv

\* Queueing a successor pays one debt by the other.
LEMMA InvEnqueue == Inv /\ Enqueue => Inv'
<1> SUFFICES ASSUME Inv, Enqueue PROVE Inv'
  OBVIOUS
<1> DEFINE next == Head(pending)
<1>1. /\ WellFormed(job) /\ worklist \in Seq(Nodes(job)) /\ NoRepeats(worklist)
      /\ inWorklist = Elements(worklist) /\ DOMAIN state = Nodes(job)
      /\ pending \in Seq(Nodes(job))
  BY DEF Inv, QueueOK
<1>2. /\ pending # <<>> /\ pending' = Tail(pending)
      /\ job' = job /\ state' = state
      /\ IF next \in inWorklist THEN UNCHANGED <<worklist, inWorklist>>
         ELSE /\ worklist' = Append(worklist, next)
              /\ inWorklist' = inWorklist \cup {next}
  BY DEF Enqueue
<1>3. /\ next \in Nodes(job) /\ pending' \in Seq(Nodes(job))
      /\ Elements(pending) = {next} \cup Elements(pending')
  BY <1>1, <1>2, HeadTail
<1>4. /\ worklist' \in Seq(Nodes(job)) /\ NoRepeats(worklist')
      /\ inWorklist' = Elements(worklist')
      /\ inWorklist' = inWorklist \cup {next}
  <2>1. CASE next \in inWorklist
    <3>1. worklist' = worklist /\ inWorklist' = inWorklist
      BY <2>1, <1>2
    <3> QED  BY <2>1, <3>1, <1>1, <1>2
  <2>2. CASE next \notin inWorklist
    <3>1. worklist' = Append(worklist, next) /\ inWorklist' = inWorklist \cup {next}
      BY <2>2, <1>2
    <3>2. /\ Append(worklist, next) \in Seq(Nodes(job))
          /\ Elements(Append(worklist, next)) = Elements(worklist) \cup {next}
          /\ NoRepeats(Append(worklist, next))
      BY <2>2, <1>1, <1>3, AppendNew
    <3> QED  BY <3>1, <3>2, <1>1, <1>2
  <2> QED  BY <2>1, <2>2
<1>5. inWorklist \cup Elements(pending) = inWorklist' \cup Elements(pending')
  BY <1>3, <1>4
<1>6. NothingForgotten'
  BY <1>2, <1>5 DEF Inv, NothingForgotten, Owed, Settled
<1>7. QueueOK'
  BY <1>1, <1>2, <1>3, <1>4 DEF QueueOK
<1> QED  BY <1>6, <1>7 DEF Inv

\* No step of the solver forgets a node that is out of step.
LEMMA InvNext == Inv /\ [Next]_vars => Inv'
<1>1. Inv /\ UNCHANGED vars => Inv'
  BY DEF Inv, vars, QueueOK, NothingForgotten, Owed, Settled
<1> QED  BY <1>1, InvRecompute, InvEnqueue DEF Next

\* On every graph the queue holds nodes of the graph, none of them twice, and
\* the membership set mirrors it: the duplicate suppression of `solve` is
\* exact.
THEOREM QueueMirrored == Spec => []QueueOK
<1>1. Inv => QueueOK
  BY DEF Inv
<1> QED  BY <1>1, InvInit, InvNext, PTL DEF Spec

\* For every graph and every analysis, whatever its meet and transfer are:
\* when the solver of dataflow/solver.rs stops, every node's value is the
\* transfer of the meet of its predecessors' values.
THEOREM StopsAtFixedPoint == Spec => []FixedPoint
<1>1. Inv => FixedPoint
  <2> SUFFICES ASSUME Inv, Converged PROVE \A n \in Nodes(job) : Settled(n)
    BY DEF FixedPoint, Settled
  <2>1. Owed = {}
    BY DEF Inv, QueueOK, Converged, Owed, Elements
  <2> QED  BY <2>1 DEF Inv, NothingForgotten
<1> QED  BY <1>1, InvInit, InvNext, PTL DEF Spec
=============================================================================
