-------------------------------- MODULE Xqvm --------------------------------
(***************************************************************************)
(* The XQVM interpreter: one run of a program on a fresh machine           *)
(* (`Vm::run_trace` and the `exec_*` handlers of vm.rs), with its value    *)
(* stack, register file, loop stack, output slots and the two budgets.     *)
(*                                                                         *)
(* Modelled here: control flow, loops, stack and register I/O, checked     *)
(* arithmetic, comparisons, vectors, the binary allocators and the linear  *)
(* coefficients, each with its charges and in the order the handler makes  *)
(* its checks.  An instruction is one action; a fault ends the run and     *)
(* leaves what the handler had already done.                               *)
(***************************************************************************)
EXTENDS Submission, FiniteSetsExt

CONSTANTS
  Calldata,      \* the values the host supplies, a sequence
  OutputSlots,   \* the number of output slots the host grants
  LoopLimit,     \* the deepest loop stack
  StepLimit,     \* the step budget
  MemoryLimit,   \* the allocation budget, in bytes
  MaxInt         \* the largest integer; the smallest is -MaxInt - 1

VARIABLES
  pc,
  stack,         \* integers, the top last
  regs,          \* register -> value
  loops,         \* loop frames, the innermost last
  outputs,       \* slot -> value, slots numbered from 1
  steps, memory, \* what the run has been charged
  status,        \* "running", "done", or the fault that ended the run
  lent           \* of the past: registers holding a model that LVAL copied

file == <<regs, lent>>
machineVars == <<program, pc, stack, file, loops, outputs, steps, memory, status>>

\* The charge schedule: bytes per variable, vec element and linear entry, and
\* steps per coefficient; one step per element copied.
VariableBytes == 8
VecElementBytes == 16
LinearEntryBytes == 32
CoeffWriteSteps == 13

-----------------------------------------------------------------------------
(***************************************************************************)
(* Values.                                                                 *)
(***************************************************************************)
Unset == [t |-> "Unset"]
IntVal(n) == [t |-> "Int", n |-> n]
VecIntVal(items) == [t |-> "VecInt", items |-> items]
VecXqmxVal(items) == [t |-> "VecXqmx", items |-> items]

\* A binary model or sample of `size` variables.  A model stores only its
\* non-zero biases; an absent one reads as 0.
ModelVal(size) == [t |-> "Model", size |-> size,
                   linear |-> [i \in 0 .. size - 1 |-> 0]]
SampleVal(size) == [ModelVal(size) EXCEPT !.t = "Sample"]

InRange(n) == -MaxInt - 1 <= n /\ n <= MaxInt

LinearLen(m) == Cardinality({i \in DOMAIN m.linear : m.linear[i] # 0})

ModelBytes(m) == m.size * VariableBytes + LinearLen(m) * LinearEntryBytes

SumOver(f) == MapThenSumSet(LAMBDA i : f[i], DOMAIN f)

\* What copying a whole value costs, in bytes and in steps.
ValueBytes(v) ==
  CASE v.t = "Unset" -> 0
    [] v.t = "Int" -> VariableBytes
    [] v.t = "VecInt" -> Len(v.items) * VecElementBytes
    [] v.t = "VecXqmx" ->
         SumOver([i \in DOMAIN v.items |-> ModelBytes(v.items[i])])
    [] v.t = "Model" -> ModelBytes(v)
    [] v.t = "Sample" -> v.size * VariableBytes

ValueCopySteps(v) ==
  CASE v.t \in {"Unset", "Int"} -> 0
    [] v.t = "VecInt" -> Len(v.items)
    [] v.t = "VecXqmx" ->
         SumOver([i \in DOMAIN v.items |->
                    LinearLen(v.items[i]) * CoeffWriteSteps])
    [] v.t = "Model" -> LinearLen(v) * CoeffWriteSteps
    [] v.t = "Sample" -> v.size

-----------------------------------------------------------------------------
(***************************************************************************)
(* What the host supplies: values of the six kinds, and programs that name *)
(* the machine's own registers.                                            *)
(***************************************************************************)
IsSeq(s) == s \in Seq({s[i] : i \in DOMAIN s})

IsGridVal(v, kind) ==
  /\ v = [t |-> kind, size |-> v.size, linear |-> v.linear]
  /\ v.size \in Nat
  /\ v.linear \in [0 .. v.size - 1 -> Int]

IsValue(v) ==
  \/ v = Unset
  \/ v.t = "Int" /\ v = IntVal(v.n) /\ v.n \in Int
  \/ v.t = "VecInt" /\ v = VecIntVal(v.items) /\ v.items \in Seq(Int)
  \/ /\ v.t = "VecXqmx" /\ v = VecXqmxVal(v.items) /\ IsSeq(v.items)
     /\ \A i \in DOMAIN v.items : IsGridVal(v.items[i], "Model")
  \/ v.t = "Model" /\ IsGridVal(v, "Model")
  \/ v.t = "Sample" /\ IsGridVal(v, "Sample")

\* The instructions that name a register.
RegisterOps ==
  {"ITER", "LIDX", "LVAL", "LOAD", "STOW", "DROP", "INPUT", "OUTPUT",
   "VEC", "VECI", "VECX", "VECPUSH", "VECGET", "VECSET", "VECLEN",
   "BQMX", "BSMX", "GETLINE", "SETLINE", "ADDLINE"}

IsProgram(code) ==
  /\ IsSeq(code)
  /\ \A p \in DOMAIN code :
       /\ code[p].op \in RegisterOps => code[p].regs[1] \in Registers
       /\ code[p].op = "PUSH" => code[p].arg \in Int

ASSUME XqvmAssumption ==
  /\ IsFiniteSet(Registers)
  /\ IsSeq(Calldata) /\ \A i \in DOMAIN Calldata : IsValue(Calldata[i])
  /\ {OutputSlots, StackLimit, LoopLimit, StepLimit, MemoryLimit, MaxInt} \subseteq Nat
  /\ \A code \in Programs : IsProgram(code)

-----------------------------------------------------------------------------
MachineInit ==
  /\ pc = 0
  /\ stack = <<>>
  /\ regs = [r \in Registers |-> Unset]
  /\ lent = {}
  /\ loops = <<>>
  /\ outputs = [s \in 1 .. OutputSlots |-> Unset]
  /\ steps = 0
  /\ memory = 0
  /\ status = "running"

Init == program \in Programs /\ MachineInit

-----------------------------------------------------------------------------
(***************************************************************************)
(* Dispatch.  Every instruction pays one step before it is looked at, and  *)
(* its operands are popped before anything else, so running out of steps   *)
(* or of operands is the same for all of them.                             *)
(***************************************************************************)
AtInstruction == status = "running" /\ pc < Len(program)
Current == At(program, pc)
Operand(k) == stack[Len(stack) - k + 1]
Popped == SubSeq(stack, 1, Len(stack) - Pops(Current.op))
Reg == regs[Current.regs[1]]

Ready(ops) ==
  /\ AtInstruction
  /\ steps < StepLimit
  /\ Current.op \in ops
  /\ Len(stack) >= Pops(Current.op)

\* The run ends in a fault, the operands gone.
Raise(fault) ==
  /\ status' = fault
  /\ stack' = Popped
  /\ UNCHANGED <<pc, file, loops, outputs>>

\* Mutant: only the extra units are charged, not the base step.
ChargedExtraOnly(bytes, units, work) ==
  /\ UNCHANGED program
  /\ IF memory + bytes > MemoryLimit
       THEN Raise("MemoryLimitExceeded") /\ UNCHANGED <<steps, memory>>
     ELSE IF steps + units > StepLimit
       THEN Raise("StepLimitExceeded") /\ UNCHANGED steps /\ memory' = memory + bytes
     ELSE work /\ steps' = steps + units /\ memory' = memory + bytes

\* Charge `bytes`, then `units` steps beyond the base step, then do `work`.
Charged(bytes, units, work) ==
  /\ UNCHANGED program
  /\ IF memory + bytes > MemoryLimit
       THEN /\ Raise("MemoryLimitExceeded")
            /\ steps' = steps + 1
            /\ memory' = memory
     ELSE IF steps + 1 + units > StepLimit
       THEN /\ Raise("StepLimitExceeded")
            /\ steps' = steps + 1
            /\ memory' = memory + bytes
     ELSE /\ work
          /\ steps' = steps + 1 + units
          /\ memory' = memory + bytes

Free(work) == Charged(0, 0, work)

\* Go on with the next instruction, with `values` pushed and the register
\* `r` (if the instruction has one) holding `value`.
Advance ==
  /\ pc' = pc + 1
  /\ UNCHANGED <<outputs, status>>

Push(value) ==
  IF Len(Popped) >= StackLimit THEN Raise("StackOverflow")
  ELSE stack' = Append(Popped, value) /\ UNCHANGED <<file, loops>> /\ Advance

Set(value) ==
  /\ regs' = [regs EXCEPT ![Current.regs[1]] = value]
  /\ stack' = Popped
  /\ UNCHANGED loops
  /\ Advance

Write(value) == Set(value) /\ lent' = lent \ {Current.regs[1]}

Done == stack' = Popped /\ UNCHANGED <<file, loops>> /\ Advance

\* The fault of a register that does not hold what is required of it.  The
\* handlers of the vec and coefficient opcodes report an unset register as a
\* type fault; LOAD, OUTPUT and ITER tell the two apart.
WrongKind == IF Reg.t = "Unset" THEN "UnsetRegister" ELSE "TypeMismatch"

OutOfSteps ==
  /\ AtInstruction
  /\ steps >= StepLimit
  /\ status' = "StepLimitExceeded"
  /\ UNCHANGED <<program, pc, stack, file, loops, outputs, steps, memory>>

\* SWAP and COPY look before they take; the others pop until there is
\* nothing left.
OutOfOperands ==
  /\ AtInstruction
  /\ steps < StepLimit
  /\ Len(stack) < Pops(Current.op)
  /\ status' = "StackUnderflow"
  /\ stack' = IF Current.op \in {"SWAP", "COPY"} THEN stack ELSE <<>>
  /\ steps' = steps + 1
  /\ UNCHANGED <<program, pc, file, loops, outputs, memory>>

EndOfStream ==
  /\ status = "running"
  /\ pc >= Len(program)
  /\ status' = "done"
  /\ UNCHANGED <<program, pc, stack, file, loops, outputs, steps, memory>>

-----------------------------------------------------------------------------
(***************************************************************************)
(* Control flow.                                                           *)
(***************************************************************************)
Nop == Ready({"NOP", "TARGET"}) /\ Free(Done)

Halt ==
  /\ Ready({"HALT"})
  /\ Free(status' = "done" /\ UNCHANGED <<pc, stack, file, loops, outputs>>)

GoTo(label) ==
  IF Labelled(program, label) = {} THEN Raise("InvalidLabel")
  ELSE /\ pc' = TargetOf(program, label)
       /\ stack' = Popped
       /\ UNCHANGED <<file, loops, outputs, status>>

Jump == Ready({"JUMP"}) /\ Free(GoTo(Current.arg))

JumpIf ==
  /\ Ready({"JUMPI"})
  /\ Free(IF Operand(1) # 0 THEN GoTo(Current.arg) ELSE Done)

-----------------------------------------------------------------------------
(***************************************************************************)
(* Loops.                                                                  *)
(***************************************************************************)
RangeFrame(current, end) ==
  [kind |-> "range", body |-> pc + 1, current |-> current, end |-> end]

\* The frame owns a copy of the slice, as the values LVAL will hand out.
IterFrame(slice, offset) ==
  [kind |-> "iter", body |-> pc + 1, offset |-> offset, index |-> 0,
   items |-> [i \in DOMAIN slice.items |->
                IF slice.t = "VecInt" THEN IntVal(slice.items[i])
                ELSE slice.items[i]]]

Top == loops[Len(loops)]

Enter(frame) ==
  IF Len(loops) >= LoopLimit THEN Raise("LoopStackOverflow")
  ELSE /\ loops' = Append(loops, frame)
       /\ stack' = Popped
       /\ UNCHANGED file
       /\ Advance

\* The positions, after an opener, where a forward scan that counts openers
\* and NEXTs has come back to zero.
Count(ops, first, last) ==
  Cardinality({p \in first .. last : OpAt(program, p) \in ops})

Closings ==
  {p \in pc + 1 .. Len(program) - 1 :
     /\ OpAt(program, p) = "NEXT"
     /\ Count({"NEXT"}, pc + 1, p) = Count(LoopOpeners, pc + 1, p) + 1}

\* Mutant: the scan is paid for when it is over.
SkipThenPay ==
  LET scanned == IF Closings = {} THEN Len(program) - 1 - pc
                 ELSE Min(Closings) - pc
  IN  /\ UNCHANGED <<program, memory>>
      /\ steps' = steps + 1 + scanned
      /\ IF Closings = {} THEN Raise("UnmatchedLoop")
         ELSE /\ pc' = Min(Closings) + 1
              /\ stack' = Popped
              /\ UNCHANGED <<file, loops, outputs, status>>

\* An empty loop is skipped by decoding forward to its NEXT, one step for
\* every instruction passed over; the scan stops where the steps run out.
SkipLoop ==
  LET scanned == IF Closings = {} THEN Len(program) - 1 - pc
                 ELSE Min(Closings) - pc
  IN  /\ UNCHANGED <<program, memory>>
      /\ IF steps + 1 + scanned > StepLimit
           THEN Raise("StepLimitExceeded") /\ steps' = StepLimit
         ELSE /\ steps' = steps + 1 + scanned
              /\ IF Closings = {} THEN Raise("UnmatchedLoop")
                 ELSE /\ pc' = Min(Closings) + 1
                      /\ stack' = Popped
                      /\ UNCHANGED <<file, loops, outputs, status>>

\* Mutant: a loop of no iterations is entered.
OpenRangeEmpty ==
  /\ Ready({"RANGE"})
  /\ LET count == Operand(1)
         start == Operand(2)
     IN  IF count < 0 THEN SkipLoop
         ELSE Free(IF ~InRange(start + count) THEN Raise("ArithmeticOverflow")
                   ELSE Enter(RangeFrame(start, start + count)))

OpenRange ==
  /\ Ready({"RANGE"})
  /\ LET count == Operand(1)
         start == Operand(2)
     IN  IF count <= 0 THEN SkipLoop
         ELSE Free(IF ~InRange(start + count) THEN Raise("ArithmeticOverflow")
                   ELSE Enter(RangeFrame(start, start + count)))

\* The register is resolved before the slice is tested for emptiness; the
\* slice is copied into the frame, and paid for.
OpenIter ==
  /\ Ready({"ITER"})
  /\ LET end == Operand(1)
         start == Operand(2)
     IN  IF Reg.t \notin {"VecInt", "VecXqmx"} THEN Free(Raise(WrongKind))
         ELSE IF start >= end THEN SkipLoop
         ELSE IF start < 0 \/ end > Len(Reg.items)
           THEN Free(Raise("IndexOutOfBounds"))
         ELSE LET slice == [Reg EXCEPT !.items = SubSeq(@, start + 1, end)]
                  bytes == IF Reg.t = "VecInt"
                             THEN (end - start) * VariableBytes
                             ELSE ValueBytes(slice)
              IN  Charged(bytes, ValueCopySteps(slice),
                          Enter(IterFrame(slice, start)))

Advanced(frame) ==
  IF frame.kind = "range" THEN [frame EXCEPT !.current = @ + 1]
  ELSE [frame EXCEPT !.index = @ + 1]

More(frame) ==
  IF frame.kind = "range" THEN frame.current < frame.end
  ELSE frame.index < Len(frame.items)

EndOfBody ==
  /\ Ready({"NEXT"})
  /\ Free(IF loops = <<>> THEN Raise("NoActiveLoop")
          ELSE LET frame == Advanced(Top)
                   outer == SubSeq(loops, 1, Len(loops) - 1)
               IN  IF frame.kind = "range" /\ ~InRange(frame.current)
                     THEN Raise("ArithmeticOverflow")
                   ELSE /\ UNCHANGED <<stack, file, outputs, status>>
                        /\ IF More(frame)
                             THEN loops' = Append(outer, frame) /\ pc' = frame.body
                             ELSE loops' = outer /\ pc' = pc + 1)

LoopIndex ==
  /\ Ready({"LIDX"})
  /\ Free(IF loops = <<>> THEN Raise("NoActiveLoop")
          ELSE Write(IntVal(IF Top.kind = "range" THEN Top.current
                            ELSE Top.offset + Top.index)))

\* A model element is copied out of the frame: the copy pays its steps, and no
\* bytes.
LoopValue ==
  /\ Ready({"LVAL"})
  /\ IF loops = <<>> THEN Free(Raise("NoActiveLoop"))
     ELSE IF Top.kind = "range" THEN Free(Write(IntVal(Top.current)))
     ELSE IF Top.index >= Len(Top.items) THEN Free(Raise("IndexOutOfBounds"))
     ELSE LET item == Top.items[Top.index + 1]
          IN  Charged(0, ValueCopySteps(item),
                      IF item.t = "Int" THEN Write(item)
                      ELSE Set(item) /\ lent' = lent \cup {Current.regs[1]})

-----------------------------------------------------------------------------
(***************************************************************************)
(* Stack and register I/O.                                                 *)
(***************************************************************************)
PushImmediate == Ready({"PUSH"}) /\ Free(Push(Current.arg))

Pop == Ready({"POP"}) /\ Free(Done)

ClearStack ==
  /\ Ready({"SCLR"})
  /\ Free(stack' = <<>> /\ UNCHANGED <<file, loops>> /\ Advance)

Swap ==
  /\ Ready({"SWAP"})
  /\ Free(/\ stack' = Popped \o <<Operand(1), Operand(2)>>
          /\ UNCHANGED <<file, loops>> /\ Advance)

\* COPY leaves its operand in place, even when there is no room for the copy.
Copy ==
  /\ Ready({"COPY"})
  /\ Free(IF Len(stack) >= StackLimit
            THEN /\ status' = "StackOverflow"
                 /\ UNCHANGED <<pc, stack, file, loops, outputs>>
            ELSE /\ stack' = Append(stack, Operand(1))
                 /\ UNCHANGED <<file, loops>> /\ Advance)

\* Arithmetic is checked: a result outside the integer range is a fault.
Truth(b) == IF b THEN 1 ELSE 0

BinaryResult(op, a, b) ==
  CASE op = "ADD" -> a + b
    [] op = "SUB" -> a - b
    [] op = "MUL" -> a * b
    [] op = "MIN" -> Min({a, b})
    [] op = "MAX" -> Max({a, b})
    [] op = "EQ" -> Truth(a = b)
    [] op = "LT" -> Truth(a < b)
    [] op = "GT" -> Truth(a > b)
    [] op = "LTE" -> Truth(a <= b)
    [] op = "GTE" -> Truth(a >= b)
    [] op = "AND" -> Truth(a # 0 /\ b # 0)
    [] op = "OR" -> Truth(a # 0 \/ b # 0)
    [] op = "XOR" -> Truth((a # 0) # (b # 0))

UnaryResult(op, a) ==
  CASE op = "SQR" -> a * a
    [] op = "ABS" -> IF a < 0 THEN -a ELSE a
    [] op = "NEG" -> -a
    [] op = "INC" -> a + 1
    [] op = "DEC" -> a - 1
    [] op = "NOT" -> Truth(a = 0)

PushChecked(result) ==
  Free(IF InRange(result) THEN Push(result) ELSE Raise("ArithmeticOverflow"))

Arithmetic ==
  \/ /\ Ready({"ADD", "SUB", "MUL", "MIN", "MAX", "EQ", "LT", "GT", "LTE",
              "GTE", "AND", "OR", "XOR"})
     /\ PushChecked(BinaryResult(Current.op, Operand(2), Operand(1)))
  \/ /\ Ready({"SQR", "ABS", "NEG", "INC", "DEC", "NOT"})
     /\ PushChecked(UnaryResult(Current.op, Operand(1)))

Load ==
  /\ Ready({"LOAD"})
  /\ Free(IF Reg.t # "Int" THEN Raise(WrongKind) ELSE Push(Reg.n))

Stow == Ready({"STOW"}) /\ Free(Write(IntVal(Operand(1))))

DropRegister == Ready({"DROP"}) /\ Free(Write(Unset))

Input ==
  /\ Ready({"INPUT"})
  /\ LET i == Operand(1)
     IN  IF ~(0 <= i /\ i < Len(Calldata)) THEN Free(Raise("CalldataIndex"))
         ELSE Charged(ValueBytes(Calldata[i + 1]), ValueCopySteps(Calldata[i + 1]),
                      Write(Calldata[i + 1]))

\* Mutant: the copy into the slot is not charged.
OutputUncharged ==
  /\ Ready({"OUTPUT"})
  /\ Free(IF Reg.t = "Unset" THEN Raise("UnsetRegister")
          ELSE IF ~(0 <= Operand(1) /\ Operand(1) < OutputSlots)
            THEN Raise("OutputIndex")
          ELSE /\ outputs' = [outputs EXCEPT ![Operand(1) + 1] = Reg]
               /\ stack' = Popped
               /\ pc' = pc + 1
               /\ UNCHANGED <<file, loops, status>>)

\* The copy is charged before the register and the slot are validated.
Output ==
  /\ Ready({"OUTPUT"})
  /\ Charged(ValueBytes(Reg), ValueCopySteps(Reg),
             IF Reg.t = "Unset" THEN Raise("UnsetRegister")
             ELSE IF ~(0 <= Operand(1) /\ Operand(1) < OutputSlots)
               THEN Raise("OutputIndex")
             ELSE /\ outputs' = [outputs EXCEPT ![Operand(1) + 1] = Reg]
                  /\ stack' = Popped
                  /\ pc' = pc + 1
                  /\ UNCHANGED <<file, loops, status>>)

-----------------------------------------------------------------------------
(***************************************************************************)
(* Vectors, allocators and linear coefficients.                            *)
(***************************************************************************)
NewVec ==
  \/ Ready({"VEC", "VECI"}) /\ Free(Write(VecIntVal(<<>>)))
  \/ Ready({"VECX"}) /\ Free(Write(VecXqmxVal(<<>>)))

VecPush ==
  /\ Ready({"VECPUSH"})
  /\ Charged(VecElementBytes, 0,
             IF Reg.t # "VecInt" THEN Raise("TypeMismatch")
             ELSE Write(VecIntVal(Append(Reg.items, Operand(1)))))

VecGet ==
  /\ Ready({"VECGET"})
  /\ Free(IF Reg.t # "VecInt" THEN Raise("TypeMismatch")
          ELSE IF ~(0 <= Operand(1) /\ Operand(1) < Len(Reg.items))
            THEN Raise("IndexOutOfBounds")
          ELSE Push(Reg.items[Operand(1) + 1]))

VecSet ==
  /\ Ready({"VECSET"})
  /\ Free(IF Reg.t # "VecInt" THEN Raise("TypeMismatch")
          ELSE IF ~(0 <= Operand(2) /\ Operand(2) < Len(Reg.items))
            THEN Raise("IndexOutOfBounds")
          ELSE Write(VecIntVal([Reg.items EXCEPT ![Operand(2) + 1] = Operand(1)])))

VecLen ==
  /\ Ready({"VECLEN"})
  /\ Free(IF Reg.t \notin {"VecInt", "VecXqmx"} THEN Raise("TypeMismatch")
          ELSE Push(Len(Reg.items)))

\* A size is paid for before it is used; a sample also pays a step per cell
\* it fills.  (The cap on sizes, 2^32 - 1, is beyond the memory budget.)
Allocate ==
  /\ Ready({"BQMX", "BSMX"})
  /\ LET size == Operand(1)
     IN  IF size < 0 THEN Free(Raise("InvalidAllocation"))
         ELSE IF Current.op = "BQMX"
           THEN Charged(size * VariableBytes, 0, Write(ModelVal(size)))
         ELSE Charged(size * VariableBytes, size, Write(SampleVal(size)))

IsGrid(v) == v.t \in {"Model", "Sample"}

GetLine ==
  /\ Ready({"GETLINE"})
  /\ Free(IF ~IsGrid(Reg) THEN Raise("TypeMismatch")
          ELSE IF Operand(1) \notin DOMAIN Reg.linear
            THEN Raise("IndexOutOfBounds")
          ELSE Push(Reg.linear[Operand(1)]))

\* SETLINE and ADDLINE.  Only a write into a model is charged, whatever it
\* finds there; a sample's cells were paid for when it was allocated, and
\* take only values of its domain.
WriteLine ==
  /\ Ready({"SETLINE", "ADDLINE"})
  /\ LET value == IF Current.op = "SETLINE" THEN Operand(1)
                  ELSE Reg.linear[Operand(2)] + Operand(1)
         isModel == Reg.t = "Model"
     IN  Charged(IF isModel THEN LinearEntryBytes ELSE 0,
                 IF isModel THEN CoeffWriteSteps ELSE 0,
                 IF ~IsGrid(Reg) THEN Raise("TypeMismatch")
                 ELSE IF Operand(2) \notin DOMAIN Reg.linear
                   THEN Raise("IndexOutOfBounds")
                 ELSE IF ~InRange(value) THEN Raise("ArithmeticOverflow")
                 ELSE IF ~isModel /\ value \notin {0, 1}
                   THEN Raise("ValueOutOfDomain")
                 ELSE /\ Set([Reg EXCEPT !.linear[Operand(2)] = value])
                      /\ UNCHANGED lent)

-----------------------------------------------------------------------------
Next ==
  \/ OutOfSteps \/ OutOfOperands \/ EndOfStream
  \/ Nop \/ Halt \/ Jump \/ JumpIf
  \/ OpenRange \/ OpenIter \/ EndOfBody \/ LoopIndex \/ LoopValue
  \/ PushImmediate \/ Pop \/ ClearStack \/ Swap \/ Copy \/ Arithmetic
  \/ Load \/ Stow \/ DropRegister \/ Input \/ Output
  \/ NewVec \/ VecPush \/ VecGet \/ VecSet \/ VecLen \/ Allocate
  \/ GetLine \/ WriteLine

Spec == Init /\ [][Next]_machineVars

\* `run` is sequential code: it executes instructions until it returns.
FairSpec == Spec /\ WF_machineVars(Next)
-----------------------------------------------------------------------------

\* No run exceeds a limit it was given, through any of the charge sites: the
\* base step, the copies, the coefficient writes and the forward scan of an
\* empty loop all stop at the budget, and the value stack and the loop stack
\* at their caps.
WithinBudgets ==
  /\ steps <= StepLimit
  /\ memory <= MemoryLimit
  /\ Len(stack) <= StackLimit
  /\ Len(loops) <= LoopLimit

\* A frame on the loop stack always stands on an iteration still to be run,
\* however jumps entered or left the loop.  That is what `exec_next` relies
\* on when it says its overflow check cannot fire, and what keeps LVAL's
\* index inside the frame's slice.
FramesStandOnAnIteration ==
  \A k \in DOMAIN loops :
    /\ loops[k].kind = "range" =>
         loops[k].current < loops[k].end /\ InRange(loops[k].end)
    /\ loops[k].kind = "iter" => loops[k].index < Len(loops[k].items)

\* What the program's own values occupy at the rates of the schedule, an
\* integer in a register being part of the machine itself.
LiveBytes(v) == IF v.t = "Int" THEN 0 ELSE ValueBytes(v)

FrameBytes(frame) ==
  IF frame.kind = "range" THEN 0
  ELSE SumOver([i \in DOMAIN frame.items |-> ValueBytes(frame.items[i])])

\* A model that LVAL copied out of a frame is left out.
ChargedTotal ==
  SumOver([r \in Registers |-> IF r \in lent THEN 0 ELSE LiveBytes(regs[r])])
    + SumOver([s \in DOMAIN outputs |-> LiveBytes(outputs[s])])
    + SumOver([k \in DOMAIN loops |-> FrameBytes(loops[k])])

\* The accounted total bounds what the run really holds: everything live in
\* registers, output slots and loop frames was charged for by somebody,
\* copies included, and no charge is handed back while the value lives on.
\* The one copy without a charge is LVAL's, and no more than one for each
\* register is alive, none larger than what was charged in all
\* (admissibility.md, "LVAL copies without charging the allocation budget").
LiveBytesAccounted ==
  /\ ChargedTotal <= memory
  /\ \A r \in Registers : LiveBytes(regs[r]) <= memory

\* Every run ends, a program's own endless loops included.
Halts == <>(status # "running")
=============================================================================
