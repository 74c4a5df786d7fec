---------------------------- MODULE FlowAnalyses -----------------------------
(***************************************************************************)
(* The worklist solver running the register analyses of the verifier, and  *)
(* what its answer means: it is compared with the register contents that   *)
(* really reach a block, collected path by path.                           *)
(***************************************************************************)
EXTENDS Analyses, Dataflow

\* The register contents, as kinds, after running a block from `held`.
RunBlock(body, held) == TypesAlong(body, held)[Len(body)]

\* Every <<node, contents on entry>> some path from the start reaches.
Collected(j) ==
  LET extend(reached) ==
        reached \cup
          UNION {{<<j.succs[p[1]][i], RunBlock(j.body[p[1]], p[2])>> :
                    i \in DOMAIN j.succs[p[1]]} : p \in reached}
      close[reached \in SUBSET (Nodes(j) \X [Registers -> RegTypes])] ==
        IF extend(reached) = reached THEN reached ELSE close[extend(reached)]
  IN  close[{<<j.entry, AllRegisters("Unset")>>}]

ContentsAt(collected, n) == {p[2] : p \in {q \in collected : q[1] = n}}

Reachable(collected) == {p[1] : p \in collected}

\* The registers every path to a block leaves written.
WrittenOnAllPaths(collected, n) ==
  {r \in Registers : \A held \in ContentsAt(collected, n) : held[r] # "Unset"}

\* The must-init answer misses no uninitialised read: a register counts as
\* written before a block only when every path to the block leaves it
\* written.  Without dead blocks it is exact, so that no program is rejected
\* for a read that is always initialised.
MustInitIsSound ==
  Converged /\ job.kind = "init" =>
    LET collected == Collected(job)
    IN  \A n \in Reachable(collected) :
          LET claimed == Before(job, state, n)
              written == WrittenOnAllPaths(collected, n)
          IN  /\ claimed \subseteq written
              /\ Reachable(collected) = Nodes(job) => claimed = written

\* What a register type says of the kind of value a path really left there.
Covers(type, kind) ==
  \/ type \in {"Any", "Conflict", kind}
  \/ type = "Grid" /\ kind \in Grids
  \/ type = "AnyVec" /\ kind \in Vecs

\* The type before a block is right for every path that reaches the block,
\* whatever order the edges are met in, if no path leaves the register
\* unset: that row of the meet is not associative, and the must-init phase
\* is what answers for it.
TypesAreSound ==
  Converged /\ job.kind = "types" =>
    LET collected == Collected(job)
    IN  \A n \in Reachable(collected), r \in Registers :
          LET kinds == {held[r] : held \in ContentsAt(collected, n)}
          IN  "Unset" \notin kinds =>
                \A kind \in kinds : Covers(Before(job, state, n)[r], kind)

\* Every <<node, depth on entry>> some path reaches, up to a stack of `bound`
\* values; an underflow ends the path.
CollectedDepths(j, bound) ==
  LET onward(p) == DepthTransfer(j.body[p[1]], Known(p[2]))
      extend(reached) ==
        reached \cup
          UNION {{<<j.succs[p[1]][i], onward(p).n>> : i \in DOMAIN j.succs[p[1]]} :
                   p \in {q \in reached : /\ onward(q).at = "Known"
                                        /\ onward(q).n <= bound}}
      close[reached \in SUBSET (Nodes(j) \X Nat)] ==
        IF extend(reached) = reached THEN reached ELSE close[extend(reached)]
  IN  close[{<<j.entry, 0>>}]

DepthsAccepted ==
  \A n \in Nodes(job) :
    LET before == Before(job, state, n)
    IN  JoinAgrees(job, state, before, n) /\ DepthSafe(before, state[n])

\* A program the depth phase accepts has one stack depth at each block, the
\* one the analysis computed, on every path; and no path pops an empty stack.
DepthsAreExact ==
  Converged /\ job.kind = "depth" /\ DepthsAccepted =>
    \A p \in CollectedDepths(job, 2 * StackLimit) :
      /\ Before(job, state, p[1]) = Known(p[2])
      /\ DepthTransfer(job.body[p[1]], Known(p[2])).at = "Known"
=============================================================================
