----------------------------- MODULE VerifiedRun -----------------------------
(***************************************************************************)
(* The verifier and the interpreter together: a program is verified, and a *)
(* machine runs it if it was accepted.  This is what the verifier is for:  *)
(* which faults an admitted program can no longer raise.                   *)
(***************************************************************************)
EXTENDS Verifier, Xqvm

vars == <<machineVars, phase, solverVars>>

VerifiedInit == VerifierInit /\ MachineInit

Verify ==
  /\ VerifierNext
  /\ UNCHANGED <<pc, stack, file, loops, outputs, steps, memory, status>>

\* The machine runs the program the verifier accepted.
Run == phase = "accepted" /\ Next /\ UNCHANGED <<phase, solverVars>>

VerifiedNext == Verify \/ Run

VerifiedSpec == VerifiedInit /\ [][VerifiedNext]_vars

-----------------------------------------------------------------------------
(***************************************************************************)
(* The programs whose control flow the block graph describes.              *)
(***************************************************************************)

\* No jump leaves or enters the body of a loop.
JumpsStayInLoop(code) ==
  \A p \in Positions(code) :
    OpAt(code, p) \in Jumps /\ Labelled(code, At(code, p).arg) # {} =>
      OpenLoops(code)[p] = OpenLoops(code)[TargetOf(code, At(code, p).arg)]

\* Every block is a node of the graph: the entry, the exit or an end of an edge.
BlocksInGraph(code) ==
  ScanAccepts(code) /\ code # <<>> =>
    \A b \in Leaders(code) \ {0, ExitBlock(code)} :
      \E e \in Range(EdgeList(code)) : b \in {e[1], e[2]}

\* Some register is written by no instruction.  The register phases take the
\* state in which every register is written for that of a dead block.
SpareRegister(code) ==
  \E r \in Registers :
    \A p \in Positions(code) : Writes(At(code, p)) => At(code, p).regs[1] # r

WellStructured(code) ==
  JumpsStayInLoop(code) /\ BlocksInGraph(code) /\ SpareRegister(code)

-----------------------------------------------------------------------------
\* What the accepted phases exclude at run time.
ControlFaults == {"InvalidLabel", "NoActiveLoop", "UnmatchedLoop"}

\* No register is written with a value whose kind the verifier does not know.
KindsKnown(code) == \A p \in Positions(code) : WrittenKind(OpAt(code, p)) # "Any"

\* The host may supply any value, and INPUT counts as a write whatever it loads.
CalldataSet == \A i \in DOMAIN Calldata : Calldata[i] # Unset

\* An admitted program never jumps to a label that is not there, never reads
\* a loop that is not open and never runs off the end of a skipped one.
NoControlFault == status \in ControlFaults => ~WellStructured(program)

\* An admitted program never reads a register it has not written on the way
\* there, unless the host supplied an unset value, and, values of unknown kind
\* apart, never one that holds another kind of value than the instruction needs.
NoRegisterFault ==
  \/ status = "UnsetRegister" /\ CalldataSet
  \/ status = "TypeMismatch" /\ KindsKnown(program)
  => ~WellStructured(program)

\* An admitted program never pops an empty stack, whatever path led to the
\* instruction: the depths the solver settled on hold on every path.
NoUnderflow == status = "StackUnderflow" => ~WellStructured(program)

-----------------------------------------------------------------------------
(***************************************************************************)
(* The same promises for every program, as the documentation makes them.   *)
(***************************************************************************)

\* No accepted program reads an unset register (VERIFIER.md, phase 2).
NoUnsetRead == status # "UnsetRegister"
=============================================================================
