------------------------------ MODULE XqvmProof ------------------------------
(***************************************************************************)
(* Theorems about the interpreter for every set of well-formed programs,   *)
(* every calldata, and any limits: no run exceeds a budget, a loop frame   *)
(* always stands on an iteration, and what is live was charged for.        *)
(***************************************************************************)
EXTENDS Xqvm, FiniteFacts, SequenceTheorems

-----------------------------------------------------------------------------
(* Types. *)

GridVals(kind) ==
    {v \in [t : {kind}, size : Nat, linear : UNION {[0 .. n - 1 -> Int] : n \in Nat}] :
        v.linear \in [0 .. v.size - 1 -> Int]}

Models == GridVals("Model")
Samples == GridVals("Sample")
Ints == [t : {"Int"}, n : Int]
IntVecs == [t : {"VecInt"}, items : Seq(Int)]
ModelVecs == [t : {"VecXqmx"}, items : Seq(Models)]

Values == {Unset} \cup Ints \cup IntVecs \cup ModelVecs \cup Models \cup Samples

\* A loop over integers, or over a copy of a slice of integers or models.
RangeFrames == [kind : {"range"}, body : Nat, current : Int, end : Int]
IterFrames ==
    [kind : {"iter"}, body : Nat, offset : Int, index : Nat, items : Seq(Ints \cup Models)]

MachineOK ==
    /\ program \in Programs
    /\ pc \in Nat /\ steps \in Nat /\ memory \in Nat
    /\ stack \in Seq(Int)
    /\ regs \in [Registers -> Values]
    /\ outputs \in [1 .. OutputSlots -> Values]
    /\ loops \in Seq(RangeFrames \cup IterFrames)
    /\ \A r \in lent : r \in Registers => regs[r] \in Models

\* A model or sample that the host supplies is one of the grids.
LEMMA GridType ==
    ASSUME NEW v, NEW kind, IsGridVal(v, kind)
    PROVE  v \in GridVals(kind)
<1>1. v \in [t : {kind}, size : Nat, linear : UNION {[0 .. n - 1 -> Int] : n \in Nat}]
    BY DEF IsGridVal
<1>2. QED BY <1>1 DEF IsGridVal, GridVals

\* The fields of a grid; its coefficients are finitely many.
LEMMA GridFields ==
    ASSUME NEW kind, NEW v \in GridVals(kind)
    PROVE  /\ v.t = kind /\ v.size \in Nat /\ v.linear \in [0 .. v.size - 1 -> Int]
           /\ IsFiniteSet(DOMAIN v.linear)
BY FS_Interval DEF GridVals

\* What the host supplies is a value.
LEMMA IsValueType ==
    ASSUME NEW v, IsValue(v)
    PROVE  v \in Values
<1>1. CASE v = Unset
    BY <1>1 DEF Values
<1>2. CASE v.t = "Int" /\ v = IntVal(v.n) /\ v.n \in Int
    BY <1>2 DEF Values, Ints, IntVal
<1>3. CASE v.t = "VecInt" /\ v = VecIntVal(v.items) /\ v.items \in Seq(Int)
    BY <1>3 DEF Values, IntVecs, VecIntVal
<1>4. CASE /\ v.t = "VecXqmx" /\ v = VecXqmxVal(v.items) /\ IsSeq(v.items)
           /\ \A i \in DOMAIN v.items : IsGridVal(v.items[i], "Model")
    <2>1. \A i \in DOMAIN v.items : v.items[i] \in Models
        BY <1>4, GridType DEF Models
    <2>2. v.items \in Seq(Models)
        BY <1>4, <2>1 DEF IsSeq
    <2>3. v \in ModelVecs
        BY <1>4, <2>2 DEF ModelVecs, VecXqmxVal
    <2>4. QED BY <2>3 DEF Values
<1>5. CASE IsGridVal(v, "Model") \/ IsGridVal(v, "Sample")
    BY <1>5, GridType DEF Values, Models, Samples
<1>6. QED BY <1>1, <1>2, <1>3, <1>4, <1>5 DEF IsValue

\* The kind of a value says which it is.
LEMMA Kinds ==
    ASSUME NEW v \in Values
    PROVE  /\ v.t = "Unset" => v = Unset
           /\ v.t = "Int" => v \in Ints
           /\ v.t = "VecInt" => v \in IntVecs
           /\ v.t = "VecXqmx" => v \in ModelVecs
           /\ v.t = "Model" => v \in Models
           /\ v.t = "Sample" => v \in Samples
           /\ v.t \in {"Unset", "Int", "VecInt", "VecXqmx", "Model", "Sample"}
<1>1. (v \in Models => v.t = "Model") /\ (v \in Samples => v.t = "Sample")
    BY GridFields DEF Models, Samples
<1>2. (v \in Ints => v.t = "Int") /\ (v \in IntVecs => v.t = "VecInt") /\ (v \in ModelVecs => v.t = "VecXqmx")
    BY DEF Ints, IntVecs, ModelVecs
<1>3. v = Unset => v.t = "Unset"
    BY DEF Unset
<1>4. QED BY <1>1, <1>2, <1>3 DEF Values

-----------------------------------------------------------------------------
(* The schedule: what a copy costs is a number, of bytes and of steps. *)

\* The sum of the model is the sum the theorems of FiniteFacts are about.
LEMMA SumOverIs ==
    ASSUME NEW f
    PROVE  SumOver(f) = SumOf(f)
BY DEF SumOver, SumOf

\* A model costs a natural number of bytes.
LEMMA ModelCost ==
    ASSUME NEW kind, NEW m \in GridVals(kind)
    PROVE  LinearLen(m) \in Nat /\ ModelBytes(m) \in Nat
<1>1. LinearLen(m) \in Nat
    BY GridFields, FS_Subset, FS_CardinalityType DEF LinearLen
<1>2. QED
    BY <1>1, GridFields DEF ModelBytes, VariableBytes, LinearEntryBytes

\* The domain of a sequence is finite.
LEMMA SeqDomain ==
    ASSUME NEW S, NEW s \in Seq(S)
    PROVE  /\ IsFiniteSet(DOMAIN s) /\ DOMAIN s = 1 .. Len(s) /\ Len(s) \in Nat
           /\ Cardinality(DOMAIN s) = Len(s)
<1>1. DOMAIN s = 1 .. Len(s) /\ Len(s) \in Nat
    OBVIOUS
<1>2. IsFiniteSet(1 .. Len(s)) /\ Cardinality(1 .. Len(s)) = IF 1 > Len(s) THEN 0 ELSE Len(s) - 1 + 1
    BY <1>1, FS_Interval
<1>3. QED BY <1>1, <1>2

\* So does every value, and a copy of it a natural number of steps.
LEMMA CostType ==
    ASSUME NEW v \in Values
    PROVE  ValueBytes(v) \in Nat /\ ValueCopySteps(v) \in Nat /\ LiveBytes(v) \in Nat
<1>1. ASSUME v.t = "VecXqmx"
      PROVE  /\ SumOver([i \in DOMAIN v.items |-> ModelBytes(v.items[i])]) \in Nat
             /\ SumOver([i \in DOMAIN v.items |-> LinearLen(v.items[i]) * CoeffWriteSteps]) \in Nat
    <2>1. v.items \in Seq(Models)
        BY <1>1, Kinds DEF ModelVecs
    <2>2. IsFiniteSet(DOMAIN v.items) /\ \A i \in DOMAIN v.items : v.items[i] \in Models
        BY <2>1, SeqDomain
    <2> DEFINE f == [i \in DOMAIN v.items |-> ModelBytes(v.items[i])]
               g == [i \in DOMAIN v.items |-> LinearLen(v.items[i]) * CoeffWriteSteps]
    <2>3. \A i \in DOMAIN v.items : f[i] \in Nat /\ g[i] \in Nat
        BY <2>2, ModelCost DEF Models, CoeffWriteSteps
    <2>4. SumOf(f) \in Nat
        BY <2>2, <2>3, SumNat
    <2>5. SumOf(g) \in Nat
        BY <2>2, <2>3, SumNat
    <2>6. QED BY <2>4, <2>5, SumOverIs
<1>2. ValueBytes(v) \in Nat
    <2>1. CASE v.t = "Unset" BY <2>1 DEF ValueBytes
    <2>2. CASE v.t = "Int" BY <2>2 DEF ValueBytes, VariableBytes
    <2>3. CASE v.t = "VecInt"
        BY <2>3, Kinds DEF ValueBytes, VecElementBytes, IntVecs
    <2>4. CASE v.t = "VecXqmx" BY <2>4, <1>1 DEF ValueBytes
    <2>5. CASE v.t = "Model" BY <2>5, Kinds, ModelCost DEF ValueBytes, Models
    <2>6. CASE v.t = "Sample" BY <2>6, Kinds, GridFields DEF ValueBytes, Samples, VariableBytes
    <2>7. QED BY <2>1, <2>2, <2>3, <2>4, <2>5, <2>6, Kinds
<1>3. ValueCopySteps(v) \in Nat
    <2>1. CASE v.t = "Unset" BY <2>1 DEF ValueCopySteps
    <2>2. CASE v.t = "Int" BY <2>2 DEF ValueCopySteps
    <2>3. CASE v.t = "VecInt"
        BY <2>3, Kinds DEF ValueCopySteps, IntVecs
    <2>4. CASE v.t = "VecXqmx" BY <2>4, <1>1 DEF ValueCopySteps
    <2>5. CASE v.t = "Model" BY <2>5, Kinds, ModelCost DEF ValueCopySteps, Models, CoeffWriteSteps
    <2>6. CASE v.t = "Sample" BY <2>6, Kinds, GridFields DEF ValueCopySteps, Samples
    <2>7. QED BY <2>1, <2>2, <2>3, <2>4, <2>5, <2>6, Kinds
<1>4. QED BY <1>2, <1>3 DEF LiveBytes

-----------------------------------------------------------------------------
(* What a step may do. *)

Inv ==
    /\ MachineOK
    /\ WithinBudgets
    /\ FramesStandOnAnIteration
    /\ LiveBytesAccounted

\* The run is charged `bytes` and some steps, within its limits.
Paying(bytes) ==
    /\ program' = program
    /\ steps' \in Nat /\ steps' <= StepLimit
    /\ memory' = memory + bytes /\ memory' <= MemoryLimit

\* A fault keeps what the handler has charged, and takes the operands.
Faulted ==
    /\ program' = program
    /\ steps' \in Nat /\ steps' <= StepLimit
    /\ memory' \in Nat /\ memory <= memory' /\ memory' <= MemoryLimit
    /\ stack' \in Seq(Int) /\ Len(stack') <= StackLimit
    /\ pc' = pc /\ regs' = regs /\ lent' = lent /\ loops' = loops /\ outputs' = outputs

\* The counters and limits are numbers, within the budgets.
LEMMA Numbers ==
    ASSUME Inv
    PROVE  /\ StackLimit \in Nat /\ LoopLimit \in Nat /\ StepLimit \in Nat /\ MemoryLimit \in Nat
           /\ OutputSlots \in Nat /\ MaxInt \in Nat
           /\ pc \in Nat /\ steps \in Nat /\ memory \in Nat
           /\ pc + 1 \in Nat
           /\ steps <= StepLimit /\ memory <= MemoryLimit
           /\ stack \in Seq(Int) /\ Len(stack) \in Nat /\ Len(stack) <= StackLimit
           /\ Len(loops) \in Nat /\ Len(loops) <= LoopLimit
BY XqvmAssumption DEF Inv, MachineOK, WithinBudgets

\* An instruction that is ready has its operands, and a step left to pay.
LEMMA Operands ==
    ASSUME Inv, NEW ops, Ready(ops)
    PROVE  /\ Popped \in Seq(Int) /\ Len(Popped) = Len(stack) - Pops(Current.op)
           /\ Len(Popped) \in Nat /\ Len(Popped) <= StackLimit
           /\ Pops(Current.op) \in Nat
           /\ \A k \in 1 .. Pops(Current.op) : Operand(k) \in Int
           /\ steps < StepLimit
<1>1. Pops(Current.op) \in 0 .. 3
    BY DEF Pops
<1>2. Len(stack) - Pops(Current.op) \in 0 .. Len(stack)
    <2>1. Len(stack) \in Nat
        BY Numbers
    <2>2. Len(stack) >= Pops(Current.op)
        BY DEF Ready
    <2>3. QED BY <1>1, <2>1, <2>2
<1>3. Popped \in Seq(Int) /\ Len(Popped) = Len(stack) - Pops(Current.op)
    BY <1>2, Numbers DEF Popped
<1>4. ASSUME NEW k \in 1 .. Pops(Current.op)
      PROVE  Operand(k) \in Int
    <2>1. stack \in Seq(Int) /\ Len(stack) - k + 1 \in 1 .. Len(stack)
        BY SMTT(60), <1>1, <1>2, Numbers
    <2>2. QED BY <2>1 DEF Operand
<1>5. Len(stack) \in Nat /\ StackLimit \in Nat /\ Len(stack) <= StackLimit
    BY Numbers
<1>6. QED
    BY <1>1, <1>2, <1>3, <1>4, <1>5 DEF Ready

\* How many operands the opcodes of the model take.
LEMMA Arity ==
    /\ \A op \in {"ADD", "SUB", "MUL", "MIN", "MAX", "EQ", "LT", "GT", "LTE", "GTE", "AND", "OR", "XOR",
                   "SWAP", "RANGE", "ITER", "VECSET", "SETLINE", "ADDLINE"} : Pops(op) = 2
    /\ \A op \in {"SQR", "ABS", "NEG", "INC", "DEC", "NOT", "JUMPI", "STOW", "INPUT", "OUTPUT",
                   "COPY", "BQMX", "BSMX", "VECPUSH", "VECGET", "GETLINE"} : Pops(op) = 1
BY DEF Pops, Binary, Unary, LoopOpeners

\* A charge is paid in full or ends the run.
LEMMA Charging ==
    ASSUME Inv, NEW ops, Ready(ops), NEW bytes \in Nat, NEW units \in Nat,
           NEW ACTION work, Charged(bytes, units, work)
    PROVE  Faulted \/ (Paying(bytes) /\ work)
<1>1. memory \in Nat /\ steps \in Nat /\ MemoryLimit \in Nat /\ StepLimit \in Nat
    BY Numbers
<1>2. memory <= MemoryLimit /\ steps < StepLimit
    BY Numbers, Operands
<1>3. Popped \in Seq(Int) /\ Len(Popped) <= StackLimit
    BY Operands
<1>4. CASE memory + bytes > MemoryLimit
    BY <1>1, <1>2, <1>3, <1>4 DEF Charged, Faulted, Raise, file
<1>5. CASE ~(memory + bytes > MemoryLimit) /\ steps + 1 + units > StepLimit
    BY <1>1, <1>2, <1>3, <1>5 DEF Charged, Faulted, Raise, file
<1>6. CASE ~(memory + bytes > MemoryLimit) /\ ~(steps + 1 + units > StepLimit)
    <2>1. work /\ program' = program /\ steps' = steps + 1 + units /\ memory' = memory + bytes
        BY <1>6 DEF Charged
    <2>2. QED BY <1>1, <1>2, <1>6, <2>1 DEF Paying
<1>7. QED BY <1>4, <1>5, <1>6

\* An instruction without an extra charge pays its own step.
LEMMA FreeOfCharge ==
    ASSUME Inv, NEW ops, Ready(ops), NEW ACTION work, Free(work)
    PROVE  Faulted \/ (Paying(0) /\ work)
BY Charging DEF Free

-----------------------------------------------------------------------------
(* The effects of the instructions that complete, `bytes` being the charge. *)

GoesOn ==
    /\ pc' \in Nat
    /\ stack' \in Seq(Int) /\ Len(stack') <= StackLimit

\* Only the stack and the position change.
Moved == GoesOn /\ regs' = regs /\ lent' = lent /\ loops' = loops /\ outputs' = outputs

\* A register's share of what was charged.
Share(r) == IF r \in lent THEN 0 ELSE LiveBytes(regs[r])

Wrote(bytes) ==
    \E r \in Registers, v \in Values :
        /\ GoesOn /\ loops' = loops /\ outputs' = outputs
        /\ regs' = [regs EXCEPT ![r] = v]
        /\ lent' \in {lent, lent \ {r}, lent \cup {r}}
        /\ r \in lent' => v \in Models
        /\ r \notin lent' => LiveBytes(v) <= Share(r) + bytes
        /\ LiveBytes(v) <= memory + bytes

Sent(bytes) ==
    \E s \in 1 .. OutputSlots, v \in Values :
        /\ GoesOn /\ regs' = regs /\ lent' = lent /\ loops' = loops
        /\ outputs' = [outputs EXCEPT ![s] = v]
        /\ LiveBytes(v) <= bytes

Stands(frame) ==
    /\ frame.kind = "range" => frame.current < frame.end /\ InRange(frame.end)
    /\ frame.kind = "iter" => frame.index < Len(frame.items)

Entered(bytes) ==
    \E frame \in RangeFrames \cup IterFrames :
        /\ GoesOn /\ regs' = regs /\ lent' = lent /\ outputs' = outputs
        /\ Len(loops) < LoopLimit /\ loops' = Append(loops, frame)
        /\ Stands(frame) /\ FrameBytes(frame) <= bytes

\* The innermost frame is left, or moved on to an iteration still to be run.
Turned ==
    /\ GoesOn /\ regs' = regs /\ lent' = lent /\ outputs' = outputs
    /\ loops # <<>>
    /\ \/ loops' = SubSeq(loops, 1, Len(loops) - 1)
       \/ \E frame \in RangeFrames \cup IterFrames :
            /\ loops' = Append(SubSeq(loops, 1, Len(loops) - 1), frame)
            /\ Stands(frame) /\ FrameBytes(frame) = FrameBytes(Top)

Stopped == Faulted \/ (Paying(0) /\ Moved)

-----------------------------------------------------------------------------
(* Instructions that touch only the stack and the position. *)

\* A label that is there is at a position.
LEMMA LabelIsPosition ==
    ASSUME NEW code, Len(code) \in Nat, NEW label, Labelled(code, label) # {}
    PROVE  TargetOf(code, label) \in Nat
<1>1. TargetOf(code, label) \in Labelled(code, label)
    BY DEF TargetOf
<1>2. QED BY <1>1 DEF Labelled, Targets, Positions

\* A program is a sequence.
LEMMA ProgramShape ==
    ASSUME Inv
    PROVE  /\ program \in Seq({program[i] : i \in DOMAIN program}) /\ Len(program) \in Nat
           /\ DOMAIN program = 1 .. Len(program)
BY XqvmAssumption DEF Inv, MachineOK, IsProgram, IsSeq

\* An instruction that only pops moves on.
LEMMA DoneMoves ==
    ASSUME Inv, NEW ops, Ready(ops), Done
    PROVE  Moved
BY Numbers, Operands DEF Done, Moved, GoesOn, Advance, file

\* A push moves on, or finds the stack full.
LEMMA PushMoves ==
    ASSUME Inv, NEW ops, Ready(ops), NEW value \in Int, Paying(0), Push(value)
    PROVE  Stopped
<1>1. Popped \in Seq(Int) /\ Len(Popped) <= StackLimit /\ pc + 1 \in Nat /\ memory \in Nat /\ StackLimit \in Nat
    BY Operands, Numbers
<1>2. CASE Len(Popped) >= StackLimit
    BY <1>1, <1>2 DEF Push, Raise, Stopped, Faulted, Paying, file
<1>3. CASE ~(Len(Popped) >= StackLimit)
    <2>1. Append(Popped, value) \in Seq(Int) /\ Len(Append(Popped, value)) = Len(Popped) + 1 /\ Len(Popped) \in Nat
        BY <1>1
    <2>2. QED
        BY <1>1, <1>3, <2>1 DEF Push, Advance, Stopped, Moved, GoesOn, file
<1>4. QED BY <1>2, <1>3

\* A fault keeps what was paid and changes nothing else.
LEMMA RaiseStops ==
    ASSUME Inv, NEW ops, Ready(ops), NEW fault, NEW bytes \in Nat, Paying(bytes), Raise(fault)
    PROVE  Faulted
<1>1. memory \in Nat /\ Popped \in Seq(Int) /\ Len(Popped) <= StackLimit
    BY Numbers, Operands
<1>2. QED BY <1>1 DEF Raise, Faulted, Paying, file

\* A jump moves to its label, or finds none.
LEMMA GoToMoves ==
    ASSUME Inv, NEW ops, Ready(ops), NEW label, Paying(0), GoTo(label)
    PROVE  Stopped
<1>1. CASE Labelled(program, label) = {}
    BY <1>1, RaiseStops DEF GoTo, Stopped
<1>2. CASE Labelled(program, label) # {}
    <2>1. pc' \in Nat /\ stack' = Popped /\ UNCHANGED <<file, loops, outputs>>
        BY <1>2, LabelIsPosition, ProgramShape DEF GoTo
    <2>2. Moved
        BY <2>1, Operands DEF Moved, GoesOn, file
    <2>3. QED BY <2>2 DEF Stopped
<1>3. QED BY <1>1, <1>2

\* The instructions of the stack, one by one.
LEMMA NopStep == ASSUME Inv, Nop PROVE Stopped
BY FreeOfCharge, DoneMoves DEF Nop, Stopped

\* HALT moves nothing.
LEMMA HaltStep == ASSUME Inv, Halt PROVE Stopped
<1>1. Faulted \/ (Paying(0) /\ status' = "done" /\ UNCHANGED <<pc, stack, file, loops, outputs>>)
    BY FreeOfCharge DEF Halt
<1>2. QED BY <1>1, Numbers DEF Stopped, Moved, GoesOn, file

\* JUMP.
LEMMA JumpStep == ASSUME Inv, Jump PROVE Stopped
BY FreeOfCharge, GoToMoves DEF Jump, Stopped

\* JUMPI.
LEMMA JumpIfStep == ASSUME Inv, JumpIf PROVE Stopped
<1>1. Faulted \/ (Paying(0) /\ IF Operand(1) # 0 THEN GoTo(Current.arg) ELSE Done)
    BY FreeOfCharge DEF JumpIf
<1>2. QED BY <1>1, GoToMoves, DoneMoves DEF JumpIf, Stopped

\* POP.
LEMMA PopStep == ASSUME Inv, Pop PROVE Stopped
BY FreeOfCharge, DoneMoves DEF Pop, Stopped

\* SCLR.
LEMMA ClearStackStep == ASSUME Inv, ClearStack PROVE Stopped
<1>1. Faulted \/ (Paying(0) /\ stack' = <<>> /\ UNCHANGED <<file, loops>> /\ Advance)
    BY FreeOfCharge DEF ClearStack
<1>2. <<>> \in Seq(Int) /\ Len(<<>>) = 0
    OBVIOUS
<1>3. StackLimit \in Nat /\ pc + 1 \in Nat
    BY Numbers
<1>4. stack' = <<>> => stack' \in Seq(Int) /\ Len(stack') <= StackLimit
    BY <1>2, <1>3
<1>5. QED BY <1>1, <1>3, <1>4 DEF Stopped, Moved, GoesOn, Advance, file

\* SWAP exchanges two integers.
LEMMA SwapStep == ASSUME Inv, Swap PROVE Stopped
<1>1. Faulted \/ (Paying(0) /\ stack' = Popped \o <<Operand(1), Operand(2)>> /\ UNCHANGED <<file, loops>> /\ Advance)
    BY FreeOfCharge DEF Swap
<1>2. Pops(Current.op) = 2
    BY Arity DEF Swap, Ready
<1>3. Operand(1) \in Int /\ Operand(2) \in Int
    BY <1>2, Operands DEF Swap
<1>4. <<Operand(1), Operand(2)>> \in Seq(Int) /\ Len(<<Operand(1), Operand(2)>>) = 2
    BY <1>3
<1>5. Popped \in Seq(Int) /\ Len(Popped) = Len(stack) - 2
    BY <1>2, Operands DEF Swap
<1> DEFINE taken == <<Operand(1), Operand(2)>>
<1>6. Popped \o taken \in Seq(Int) /\ Len(Popped \o taken) = Len(stack)
    <2> HIDE DEF taken
    <2>1. taken \in Seq(Int) /\ Len(taken) = 2
        BY <1>4 DEF taken
    <2>2. Popped \o taken \in Seq(Int) /\ Len(Popped \o taken) = Len(Popped) + Len(taken)
        BY <2>1, <1>5, ConcatProperties
    <2>3. QED BY <2>1, <2>2, <1>5, Numbers
<1>7. QED BY <1>1, <1>6, Numbers DEF Stopped, Moved, GoesOn, Advance, file

\* COPY pushes an integer twice.
LEMMA CopyStep == ASSUME Inv, Copy PROVE Stopped
<1>1. Pops(Current.op) = 1
    BY Arity DEF Copy, Ready
<1>2. Operand(1) \in Int
    BY <1>1, Operands DEF Copy
<1>3. Append(stack, Operand(1)) \in Seq(Int) /\ Len(Append(stack, Operand(1))) = Len(stack) + 1
    BY <1>2, Numbers
<1>4. Faulted \/ (Paying(0) /\ IF Len(stack) >= StackLimit
                    THEN /\ status' = "StackOverflow"
                         /\ UNCHANGED <<pc, stack, file, loops, outputs>>
                    ELSE /\ stack' = Append(stack, Operand(1))
                         /\ UNCHANGED <<file, loops>> /\ Advance)
    BY FreeOfCharge DEF Copy
<1>5. /\ stack \in Seq(Int) /\ Len(stack) \in Nat /\ StackLimit \in Nat /\ Len(stack) <= StackLimit
      /\ pc \in Nat /\ pc + 1 \in Nat
    BY Numbers
<1>6. CASE Len(stack) >= StackLimit
    BY <1>4, <1>5, <1>6 DEF Stopped, Moved, GoesOn, file
<1>7. CASE ~(Len(stack) >= StackLimit)
    <2>1. Len(stack) + 1 <= StackLimit
        BY <1>5, <1>7
    <2>2. stack' = Append(stack, Operand(1)) => stack' \in Seq(Int) /\ Len(stack') <= StackLimit
        BY <1>3, <2>1
    <2>3. QED BY <1>4, <1>5, <1>7, <2>2 DEF Stopped, Moved, GoesOn, Advance, file
<1>8. QED BY <1>6, <1>7

\* The smaller and the larger of two integers.
LEMMA MinMax ==
    ASSUME NEW a \in Int, NEW b \in Int
    PROVE  Min({a, b}) \in Int /\ Max({a, b}) \in Int
<1>1. \E x \in {a, b} : \A y \in {a, b} : x <= y
    BY a <= b \/ b <= a
<1>2. \E x \in {a, b} : \A y \in {a, b} : x >= y
    BY a <= b \/ b <= a
<1>3. Min({a, b}) \in {a, b} /\ Max({a, b}) \in {a, b}
    BY <1>1, <1>2 DEF Min, Max
<1>4. QED BY <1>3

\* Arithmetic pushes an integer in range, or faults.
LEMMA ArithmeticStep == ASSUME Inv, Arithmetic PROVE Stopped
<1> DEFINE two == {"ADD", "SUB", "MUL", "MIN", "MAX", "EQ", "LT", "GT", "LTE", "GTE", "AND", "OR", "XOR"}
           one == {"SQR", "ABS", "NEG", "INC", "DEC", "NOT"}
<1>1. ASSUME NEW ops, Ready(ops), NEW result \in Int, PushChecked(result)
      PROVE  Stopped
    <2>1. Faulted \/ (Paying(0) /\ IF InRange(result) THEN Push(result) ELSE Raise("ArithmeticOverflow"))
        BY <1>1, FreeOfCharge DEF PushChecked
    <2>2. QED BY <1>1, <2>1, PushMoves, RaiseStops DEF Stopped
<1>2. CASE Ready(two) /\ PushChecked(BinaryResult(Current.op, Operand(2), Operand(1)))
    <2>1. Pops(Current.op) = 2 /\ Current.op \in two
        BY <1>2, Arity DEF Ready
    <2>2. Operand(1) \in Int /\ Operand(2) \in Int
        BY <1>2, <2>1, Operands
    <2>3. ASSUME NEW op \in two, NEW a \in Int, NEW b \in Int
          PROVE  BinaryResult(op, a, b) \in Int
        <3>2. Min({a, b}) \in Int /\ Max({a, b}) \in Int
            BY MinMax
        <3>3. CASE op \in {"ADD", "SUB", "MUL"}
            BY <3>3 DEF BinaryResult
        <3>4. CASE op \in {"MIN", "MAX"}
            BY <3>2, <3>4 DEF BinaryResult
        <3>5. CASE op \in {"EQ", "LT", "GT", "LTE", "GTE"}
            BY <3>5 DEF BinaryResult, Truth
        <3>6. CASE op \in {"AND", "OR", "XOR"}
            BY <3>6 DEF BinaryResult, Truth
        <3>7. QED BY <3>3, <3>4, <3>5, <3>6
    <2>4. BinaryResult(Current.op, Operand(2), Operand(1)) \in Int
        BY <2>1, <2>2, <2>3
    <2>5. QED BY <1>1, <1>2, <2>4
<1>3. CASE Ready(one) /\ PushChecked(UnaryResult(Current.op, Operand(1)))
    <2>1. Pops(Current.op) = 1 /\ Current.op \in one
        BY <1>3, Arity DEF Ready
    <2>2. Operand(1) \in Int
        BY <1>3, <2>1, Operands
    <2>3. ASSUME NEW op \in one, NEW a \in Int
          PROVE  UnaryResult(op, a) \in Int
        BY DEF UnaryResult, Truth
    <2>4. UnaryResult(Current.op, Operand(1)) \in Int
        BY <2>1, <2>2, <2>3
    <2>5. QED BY <1>1, <1>3, <2>4
<1>4. QED BY <1>2, <1>3 DEF Arithmetic

\* The instruction read is one of the program's, so the register it names is
\* one of the machine's.
LEMMA Registered ==
    ASSUME Inv, NEW ops, Ready(ops)
    PROVE  /\ Current.op \in RegisterOps => Current.regs[1] \in Registers /\ Reg \in Values
           /\ Current.op = "PUSH" => Current.arg \in Int
<1>1. pc + 1 \in DOMAIN program
    BY SMTT(60), Numbers, ProgramShape DEF Ready, AtInstruction
<1>2. IsProgram(program)
    BY XqvmAssumption DEF Inv, MachineOK
<1>3. Current = program[pc + 1]
    BY DEF Current, At
<1>4. QED BY <1>1, <1>2, <1>3 DEF IsProgram, Reg, Inv, MachineOK

\* PUSH.
LEMMA PushImmediateStep == ASSUME Inv, PushImmediate PROVE Stopped
<1>1. Current.arg \in Int
    BY Registered DEF PushImmediate, Ready
<1>2. QED BY <1>1, FreeOfCharge, PushMoves DEF PushImmediate, Stopped

\* LOAD pushes an integer, or faults.
LEMMA LoadStep == ASSUME Inv, Load PROVE Stopped
<1>1. Reg \in Values
    BY Registered DEF Load, Ready, RegisterOps
<1>2. Reg.t = "Int" => Reg.n \in Int
    BY <1>1, Kinds DEF Ints
<1>3. Faulted \/ (Paying(0) /\ IF Reg.t # "Int" THEN Raise(WrongKind) ELSE Push(Reg.n))
    BY FreeOfCharge DEF Load
<1>4. QED BY <1>2, <1>3, PushMoves, RaiseStops DEF Load, Stopped

\* VECGET.
LEMMA VecGetStep == ASSUME Inv, VecGet PROVE Stopped
<1>1. Reg \in Values /\ Pops(Current.op) = 1
    BY Registered, Arity DEF VecGet, Ready, RegisterOps
<1>2. Operand(1) \in Int
    BY <1>1, Operands DEF VecGet
<1>3. Reg.t = "VecInt" /\ 0 <= Operand(1) /\ Operand(1) < Len(Reg.items) => Reg.items[Operand(1) + 1] \in Int
    BY <1>1, <1>2, Kinds DEF IntVecs
<1>4. Faulted \/ (Paying(0) /\ IF Reg.t # "VecInt" THEN Raise("TypeMismatch")
                    ELSE IF ~(0 <= Operand(1) /\ Operand(1) < Len(Reg.items))
                      THEN Raise("IndexOutOfBounds")
                    ELSE Push(Reg.items[Operand(1) + 1]))
    BY FreeOfCharge DEF VecGet
<1>5. QED BY <1>3, <1>4, PushMoves, RaiseStops DEF VecGet, Stopped

\* VECLEN.
LEMMA VecLenStep == ASSUME Inv, VecLen PROVE Stopped
<1>1. Reg \in Values
    BY Registered DEF VecLen, Ready, RegisterOps
<1>2. Reg.t \in {"VecInt", "VecXqmx"} => Len(Reg.items) \in Int
    BY <1>1, Kinds DEF IntVecs, ModelVecs
<1>3. Faulted \/ (Paying(0) /\ IF Reg.t \notin {"VecInt", "VecXqmx"} THEN Raise("TypeMismatch")
                              ELSE Push(Len(Reg.items)))
    BY FreeOfCharge DEF VecLen
<1>4. QED BY <1>2, <1>3, PushMoves, RaiseStops DEF VecLen, Stopped

\* GETLINE.
LEMMA GetLineStep == ASSUME Inv, GetLine PROVE Stopped
<1>1. Reg \in Values
    BY Registered DEF GetLine, Ready, RegisterOps
<1>2. IsGrid(Reg) /\ Operand(1) \in DOMAIN Reg.linear => Reg.linear[Operand(1)] \in Int
    BY <1>1, Kinds, GridFields DEF IsGrid, Models, Samples
<1>3. Faulted \/ (Paying(0) /\ IF ~IsGrid(Reg) THEN Raise("TypeMismatch")
                    ELSE IF Operand(1) \notin DOMAIN Reg.linear
                      THEN Raise("IndexOutOfBounds")
                    ELSE Push(Reg.linear[Operand(1)]))
    BY FreeOfCharge DEF GetLine
<1>4. QED BY <1>2, <1>3, PushMoves, RaiseStops DEF GetLine, Stopped

-----------------------------------------------------------------------------
(* Instructions that write a register. *)

\* The register of the current instruction gets `v`.
LEMMA WriteWrites ==
    ASSUME Inv, NEW ops, Ready(ops), Current.op \in RegisterOps, NEW bytes \in Nat,
           NEW v \in Values, Write(v), LiveBytes(v) <= Share(Current.regs[1]) + bytes,
           LiveBytes(v) <= memory + bytes
    PROVE  Wrote(bytes)
<1> DEFINE r == Current.regs[1]
<1>1. r \in Registers
    BY Registered
<1>2. GoesOn /\ loops' = loops /\ outputs' = outputs
    BY Operands, Numbers DEF Write, Set, Advance, GoesOn
<1>3. regs' = [regs EXCEPT ![r] = v] /\ lent' = lent \ {r}
    BY DEF Write, Set
<1> HIDE DEF r
<1>4. LiveBytes(v) <= Share(r) + bytes
    BY DEF r
<1>5. r \notin lent'
    BY <1>3
<1>6. QED BY <1>1, <1>2, <1>3, <1>4, <1>5 DEF Wrote

\* A value that holds nothing but itself.
LEMMA SmallValues ==
    /\ Unset \in Values /\ LiveBytes(Unset) = 0
    /\ \A n \in Int : IntVal(n) \in Values /\ LiveBytes(IntVal(n)) = 0
    /\ VecIntVal(<<>>) \in Values /\ LiveBytes(VecIntVal(<<>>)) = 0
    /\ VecXqmxVal(<<>>) \in Values /\ LiveBytes(VecXqmxVal(<<>>)) = 0
<1>1. Unset \in Values /\ LiveBytes(Unset) = 0
    BY DEF Unset, Values, LiveBytes, ValueBytes
<1>2. \A n \in Int : IntVal(n) \in Values /\ LiveBytes(IntVal(n)) = 0
    BY DEF IntVal, Values, Ints, LiveBytes
<1>3. VecIntVal(<<>>) \in Values /\ LiveBytes(VecIntVal(<<>>)) = 0
    <2>1. VecIntVal(<<>>) \in IntVecs
        BY EmptySeq DEF VecIntVal, IntVecs
    <2>2. VecIntVal(<<>>).t = "VecInt" /\ VecIntVal(<<>>).items = <<>>
        BY DEF VecIntVal
    <2>3. Len(<<>>) * VecElementBytes = 0
        BY DEF VecElementBytes
    <2>4. QED BY <2>1, <2>2, <2>3 DEF Values, LiveBytes, ValueBytes
<1>4. VecXqmxVal(<<>>) \in Values /\ LiveBytes(VecXqmxVal(<<>>)) = 0
    <2> DEFINE none == <<>>
               f == [i \in DOMAIN none |-> ModelBytes(none[i])]
    <2>1. VecXqmxVal(none) \in ModelVecs
        BY EmptySeq DEF VecXqmxVal, ModelVecs
    <2>2. VecXqmxVal(none).t = "VecXqmx" /\ VecXqmxVal(none).items = none
        BY DEF VecXqmxVal
    <2>3. DOMAIN f = {} /\ IsFiniteSet(DOMAIN f)
        BY FS_EmptySet
    <2>4. SumOf(f) = 0
        <3> HIDE DEF f
        <3>1. \A i \in DOMAIN f : f[i] \in Nat
            BY <2>3
        <3>2. QED BY <2>3, <3>1, SumNat
    <2>5. ValueBytes(VecXqmxVal(none)) = SumOver(f)
        BY <2>2 DEF ValueBytes
    <2>6. QED BY <2>1, <2>2, <2>4, <2>5, SumOverIs DEF Values, LiveBytes
<1>5. QED BY <1>1, <1>2, <1>3, <1>4

\* What an instruction finds when it runs.
LEMMA Finds ==
    ASSUME Inv, NEW ops, Ready(ops)
    PROVE  /\ Current.op \in ops
           /\ Current.op \in {"STOW", "INPUT", "OUTPUT", "BQMX", "BSMX", "VECPUSH"} => Operand(1) \in Int
           /\ Current.op \in {"RANGE", "ITER", "VECSET", "SETLINE", "ADDLINE"} =>
                Operand(1) \in Int /\ Operand(2) \in Int
<1>1. Current.op \in ops
    BY DEF Ready
<1>2. \A k \in 1 .. Pops(Current.op) : Operand(k) \in Int
    BY Operands
<1>3. CASE Current.op \in {"STOW", "INPUT", "OUTPUT", "BQMX", "BSMX", "VECPUSH"}
    BY <1>1, <1>2, <1>3, Arity
<1>4. CASE Current.op \in {"RANGE", "ITER", "VECSET", "SETLINE", "ADDLINE"}
    BY <1>1, <1>2, <1>4, Arity
<1>5. QED BY <1>1, <1>3, <1>4

\* What a register may be charged for never counts against the machine.
LEMMA ShareType ==
    ASSUME Inv, NEW r \in Registers
    PROVE  Share(r) \in Nat
BY CostType DEF Inv, MachineOK, Share

\* Writing a value that costs nothing.
LEMMA FreeWrite ==
    ASSUME Inv, NEW ops, Ready(ops), Current.op \in RegisterOps,
           NEW v \in Values, LiveBytes(v) = 0, Write(v)
    PROVE  Wrote(0)
<1>1. Share(Current.regs[1]) \in Nat
    BY Registered, ShareType
<1>2. memory \in Nat
    BY Numbers
<1>3. LiveBytes(v) <= Share(Current.regs[1]) + 0 /\ LiveBytes(v) <= memory + 0
    BY <1>1, <1>2
<1>4. QED BY <1>3, WriteWrites

\* STOW writes an integer, which is no live byte.
LEMMA StowStep == ASSUME Inv, Stow PROVE Faulted \/ (Paying(0) /\ Wrote(0))
<1>1. Operand(1) \in Int /\ Current.op \in RegisterOps
    BY Finds DEF Stow, RegisterOps
<1>2. Faulted \/ (Paying(0) /\ Write(IntVal(Operand(1))))
    BY FreeOfCharge DEF Stow
<1>3. QED BY <1>1, <1>2, FreeWrite, SmallValues DEF Stow

\* DROP.
LEMMA DropRegisterStep == ASSUME Inv, DropRegister PROVE Faulted \/ (Paying(0) /\ Wrote(0))
<1>1. Current.op \in RegisterOps
    BY DEF DropRegister, Ready, RegisterOps
<1>2. Faulted \/ (Paying(0) /\ Write(Unset))
    BY FreeOfCharge DEF DropRegister
<1>3. QED BY <1>1, <1>2, FreeWrite, SmallValues DEF DropRegister

\* VEC, VECI and VECX write an empty vector.
LEMMA NewVecStep == ASSUME Inv, NewVec PROVE Faulted \/ (Paying(0) /\ Wrote(0))
<1>1. CASE Ready({"VEC", "VECI"}) /\ Free(Write(VecIntVal(<<>>)))
    <2>1. Current.op \in RegisterOps
        BY <1>1 DEF Ready, RegisterOps
    <2>2. Faulted \/ (Paying(0) /\ Write(VecIntVal(<<>>)))
        BY <1>1, FreeOfCharge
    <2>3. QED BY <1>1, <2>1, <2>2, FreeWrite, SmallValues
<1>2. CASE Ready({"VECX"}) /\ Free(Write(VecXqmxVal(<<>>)))
    <2>1. Current.op \in RegisterOps
        BY <1>2 DEF Ready, RegisterOps
    <2>2. Faulted \/ (Paying(0) /\ Write(VecXqmxVal(<<>>)))
        BY <1>2, FreeOfCharge
    <2>3. QED BY <1>2, <2>1, <2>2, FreeWrite, SmallValues
<1>3. QED BY <1>1, <1>2 DEF NewVec

\* INPUT pays for the copy it writes.
LEMMA InputStep ==
    ASSUME Inv, Input
    PROVE  Faulted \/ \E bytes \in Nat : Paying(bytes) /\ Wrote(bytes)
<1> DEFINE i == Operand(1)
           v == Calldata[i + 1]
<1>1. i \in Int /\ Current.op \in RegisterOps
    BY Finds DEF Input, RegisterOps
<1>2. CASE ~(0 <= i /\ i < Len(Calldata))
    <2>1. Faulted \/ (Paying(0) /\ Raise("CalldataIndex"))
        BY <1>2, FreeOfCharge DEF Input
    <2>2. QED BY <2>1, RaiseStops DEF Input
<1>3. CASE 0 <= i /\ i < Len(Calldata)
    <2>1. v \in Values
        <3>1. i + 1 \in DOMAIN Calldata
            BY <1>1, <1>3, XqvmAssumption DEF IsSeq
        <3>2. QED BY <3>1, XqvmAssumption, IsValueType
    <2>2. ValueBytes(v) \in Nat /\ ValueCopySteps(v) \in Nat /\ LiveBytes(v) <= ValueBytes(v)
        BY <2>1, CostType DEF LiveBytes
    <2>3. Charged(ValueBytes(v), ValueCopySteps(v), Write(v))
        BY <1>3 DEF Input
    <2>4. Faulted \/ (Paying(ValueBytes(v)) /\ Write(v))
        BY <2>2, <2>3, Charging DEF Input
    <2>5. Share(Current.regs[1]) \in Nat /\ memory \in Nat /\ LiveBytes(v) \in Nat
        BY <1>1, <2>1, Registered, ShareType, Numbers, CostType DEF Input
    <2> HIDE DEF i, v
    <2>6. LiveBytes(v) <= Share(Current.regs[1]) + ValueBytes(v) /\ LiveBytes(v) <= memory + ValueBytes(v)
        BY <2>2, <2>5
    <2>7. Write(v) => Wrote(ValueBytes(v))
        BY <1>1, <2>1, <2>2, <2>6, WriteWrites DEF Input
    <2>8. QED BY <2>2, <2>4, <2>7
<1>4. QED BY <1>2, <1>3

\* VECPUSH pays for one element.
LEMMA VecPushStep ==
    ASSUME Inv, VecPush
    PROVE  Faulted \/ \E bytes \in Nat : Paying(bytes) /\ Wrote(bytes)
<1> DEFINE v == VecIntVal(Append(Reg.items, Operand(1)))
           r == Current.regs[1]
<1>1. Operand(1) \in Int /\ Current.op \in RegisterOps /\ r \in Registers /\ Reg \in Values
    BY Finds, Registered DEF VecPush, RegisterOps
<1>2. VecElementBytes \in Nat
    BY DEF VecElementBytes
<1>3. Faulted \/ (Paying(VecElementBytes) /\ IF Reg.t # "VecInt" THEN Raise("TypeMismatch") ELSE Write(v))
    BY <1>2, Charging DEF VecPush
<1>4. CASE Reg.t # "VecInt"
    BY <1>2, <1>3, <1>4, RaiseStops DEF VecPush
<1>5. CASE Reg.t = "VecInt"
    <2>1. Reg.items \in Seq(Int)
        BY <1>1, <1>5, Kinds DEF IntVecs
    <2>2. Append(Reg.items, Operand(1)) \in Seq(Int) /\ Len(Append(Reg.items, Operand(1))) = Len(Reg.items) + 1
        BY <1>1, <2>1
    <2>3. v \in Values /\ v.t = "VecInt" /\ v.items = Append(Reg.items, Operand(1))
        BY <2>2 DEF VecIntVal, Values, IntVecs
    <2>4. LiveBytes(v) = (Len(Reg.items) + 1) * VecElementBytes
        BY <2>2, <2>3 DEF LiveBytes, ValueBytes
    <2>5. LiveBytes(Reg) = Len(Reg.items) * VecElementBytes /\ Len(Reg.items) \in Nat
        BY <1>5, <2>1 DEF LiveBytes, ValueBytes
    <2>6. LiveBytes(v) = LiveBytes(Reg) + VecElementBytes
        BY <2>4, <2>5 DEF VecElementBytes
    <2>7. Share(r) = LiveBytes(Reg)
        <3>1. r \notin lent
            BY <1>1, <1>5, GridFields DEF Inv, MachineOK, Reg, Models
        <3>2. QED BY <3>1 DEF Share, Reg
    <2>8. LiveBytes(Reg) <= memory /\ LiveBytes(Reg) \in Nat /\ memory \in Nat
        BY <1>1, CostType, Numbers DEF Inv, LiveBytesAccounted, Reg
    <2>9. LiveBytes(v) <= Share(r) + VecElementBytes /\ LiveBytes(v) <= memory + VecElementBytes
        BY <2>6, <2>7, <2>8, <1>2
    <2>10. Write(v) => Wrote(VecElementBytes)
        <3> HIDE DEF v
        <3>1. QED BY <1>1, <1>2, <2>3, <2>9, WriteWrites DEF VecPush
    <2>11. QED BY <1>2, <1>3, <1>5, <2>10
<1>6. QED BY <1>4, <1>5

\* VECSET replaces an element of the same size.
LEMMA VecSetStep ==
    ASSUME Inv, VecSet
    PROVE  Faulted \/ (Paying(0) /\ Wrote(0))
<1> DEFINE items == [Reg.items EXCEPT ![Operand(2) + 1] = Operand(1)]
           v == VecIntVal(items)
           r == Current.regs[1]
<1>1. Operand(1) \in Int /\ Operand(2) \in Int
    BY Finds DEF VecSet
<1>2. Current.op \in RegisterOps /\ r \in Registers /\ Reg \in Values
    BY Finds, Registered DEF VecSet, RegisterOps
<1>3. Faulted \/ (Paying(0) /\ IF Reg.t # "VecInt" THEN Raise("TypeMismatch")
                              ELSE IF ~(0 <= Operand(2) /\ Operand(2) < Len(Reg.items))
                                THEN Raise("IndexOutOfBounds")
                              ELSE Write(v))
    BY FreeOfCharge DEF VecSet
<1>4. CASE Reg.t # "VecInt" \/ ~(0 <= Operand(2) /\ Operand(2) < Len(Reg.items))
    BY <1>3, <1>4, RaiseStops DEF VecSet
<1>5. CASE Reg.t = "VecInt" /\ 0 <= Operand(2) /\ Operand(2) < Len(Reg.items)
    <2>1. Reg.items \in Seq(Int)
        BY <1>2, <1>5, Kinds DEF IntVecs
    <2>2. items \in Seq(Int) /\ Len(items) = Len(Reg.items)
        BY <1>1, <1>5, <2>1
    <2>3. v \in Values /\ v.t = "VecInt" /\ v.items = items
        BY <2>2 DEF VecIntVal, Values, IntVecs
    <2>4. LiveBytes(v) = LiveBytes(Reg)
        BY <1>5, <2>2, <2>3 DEF LiveBytes, ValueBytes
    <2>5. Share(r) = LiveBytes(Reg)
        <3>1. r \notin lent
            BY <1>2, <1>5, GridFields DEF Inv, MachineOK, Reg, Models
        <3>2. QED BY <3>1 DEF Share, Reg
    <2>6. LiveBytes(Reg) <= memory /\ LiveBytes(Reg) \in Nat /\ memory \in Nat
        BY <1>2, CostType, Numbers DEF Inv, LiveBytesAccounted, Reg
    <2>7. LiveBytes(v) <= Share(r) + 0 /\ LiveBytes(v) <= memory + 0
        BY <2>4, <2>5, <2>6
    <2>8. Write(v) => Wrote(0)
        <3> HIDE DEF v
        <3>1. QED BY <1>2, <2>3, <2>7, WriteWrites DEF VecSet
    <2>9. QED BY <1>3, <1>5, <2>8
<1>6. QED BY <1>4, <1>5

\* A new model has no coefficient, so its bytes are its variables'.
LEMMA NewGrid ==
    ASSUME NEW size \in Nat
    PROVE  /\ ModelVal(size) \in Models /\ SampleVal(size) \in Samples
           /\ ModelVal(size) \in Values /\ SampleVal(size) \in Values
           /\ LiveBytes(ModelVal(size)) = size * VariableBytes
           /\ LiveBytes(SampleVal(size)) = size * VariableBytes
<1> DEFINE linear == [i \in 0 .. size - 1 |-> 0]
<1>1. linear \in [0 .. size - 1 -> Int]
    OBVIOUS
<1>2. linear \in UNION {[0 .. n - 1 -> Int] : n \in Nat}
    BY <1>1
<1>3. \A kind : [t |-> kind, size |-> size, linear |-> linear] \in GridVals(kind)
    BY <1>1, <1>2 DEF GridVals
<1>4. /\ ModelVal(size) = [t |-> "Model", size |-> size, linear |-> linear]
      /\ SampleVal(size) = [t |-> "Sample", size |-> size, linear |-> linear]
    BY DEF ModelVal, SampleVal
<1>5. LinearLen(ModelVal(size)) = 0
    <2>1. {i \in DOMAIN ModelVal(size).linear : ModelVal(size).linear[i] # 0} = {}
        BY <1>4
    <2>2. QED BY <2>1, FS_EmptySet DEF LinearLen
<1>6. LiveBytes(ModelVal(size)) = size * VariableBytes
    <2>1. LiveBytes(ModelVal(size)) = ModelBytes(ModelVal(size))
        BY <1>4 DEF LiveBytes, ValueBytes
    <2>2. ModelBytes(ModelVal(size)) = size * VariableBytes + 0 * LinearEntryBytes
        BY <1>4, <1>5 DEF ModelBytes
    <2>3. QED BY <2>1, <2>2 DEF VariableBytes, LinearEntryBytes
<1>7. LiveBytes(SampleVal(size)) = size * VariableBytes
    BY <1>4 DEF LiveBytes, ValueBytes
<1>8. QED BY <1>3, <1>4, <1>6, <1>7 DEF Models, Samples, Values

\* The allocators pay for the variables they make.
LEMMA AllocateStep ==
    ASSUME Inv, Allocate
    PROVE  Faulted \/ \E bytes \in Nat : Paying(bytes) /\ Wrote(bytes)
<1> DEFINE size == Operand(1)
           r == Current.regs[1]
<1>1. size \in Int /\ Current.op \in RegisterOps /\ r \in Registers
    BY Finds, Registered DEF Allocate, RegisterOps
<1>2. CASE size < 0
    <2>1. Faulted \/ (Paying(0) /\ Raise("InvalidAllocation"))
        BY <1>2, FreeOfCharge DEF Allocate
    <2>2. QED BY <2>1, RaiseStops DEF Allocate
<1>3. CASE ~(size < 0)
    <2>1. size \in Nat /\ size * VariableBytes \in Nat
        BY <1>1, <1>3 DEF VariableBytes
    <2>2. Share(r) \in Nat /\ memory \in Nat
        BY <1>1, ShareType, Numbers
    <2>3. ASSUME NEW v \in Values, LiveBytes(v) = size * VariableBytes, Write(v)
          PROVE  Wrote(size * VariableBytes)
        <3>1. LiveBytes(v) <= Share(r) + size * VariableBytes /\ LiveBytes(v) <= memory + size * VariableBytes
            BY <2>1, <2>2, <2>3
        <3>2. QED BY <1>1, <2>1, <2>3, <3>1, WriteWrites DEF Allocate
    <2>4. CASE Current.op = "BQMX"
        <3>1. Charged(size * VariableBytes, 0, Write(ModelVal(size)))
            BY <1>3, <2>4 DEF Allocate
        <3>2. Faulted \/ (Paying(size * VariableBytes) /\ Write(ModelVal(size)))
            BY <2>1, <3>1, Charging DEF Allocate
        <3>3. QED BY <2>1, <2>3, <3>2, NewGrid
    <2>5. CASE Current.op # "BQMX"
        <3>1. Charged(size * VariableBytes, size, Write(SampleVal(size)))
            BY <1>3, <2>5 DEF Allocate
        <3>2. Faulted \/ (Paying(size * VariableBytes) /\ Write(SampleVal(size)))
            BY <2>1, <3>1, Charging DEF Allocate
        <3>3. QED BY <2>1, <2>3, <3>2, NewGrid
    <2>6. QED BY <2>4, <2>5
<1>4. QED BY <1>2, <1>3

\* One more coefficient costs an entry, and changing one costs nothing.
LEMMA OneCoefficient ==
    ASSUME NEW kind, NEW m \in GridVals(kind), NEW i \in DOMAIN m.linear, NEW value \in Int
    PROVE  /\ [m EXCEPT !.linear[i] = value] \in GridVals(kind)
           /\ [m EXCEPT !.linear[i] = value].t = kind
           /\ [m EXCEPT !.linear[i] = value].size = m.size
           /\ ModelBytes([m EXCEPT !.linear[i] = value]) <= ModelBytes(m) + LinearEntryBytes
<1> DEFINE w == [m EXCEPT !.linear[i] = value]
           linear == [m.linear EXCEPT ![i] = value]
           before == {k \in DOMAIN m.linear : m.linear[k] # 0}
           after == {k \in DOMAIN w.linear : w.linear[k] # 0}
<1>1. /\ m.t = kind /\ m.size \in Nat /\ m.linear \in [0 .. m.size - 1 -> Int]
      /\ IsFiniteSet(DOMAIN m.linear)
    BY GridFields
<1>2. linear \in [0 .. m.size - 1 -> Int]
    BY <1>1
<1>3. m = [t |-> kind, size |-> m.size, linear |-> m.linear]
    BY <1>1 DEF GridVals
<1>4. w = [t |-> kind, size |-> m.size, linear |-> linear]
    BY <1>3
<1>5. w \in GridVals(kind)
    <2>1. linear \in UNION {[0 .. n - 1 -> Int] : n \in Nat}
        BY <1>1, <1>2
    <2>2. QED BY <1>1, <1>2, <1>4, <2>1 DEF GridVals
<1>6. after \subseteq before \cup {i} /\ DOMAIN w.linear = DOMAIN m.linear
    BY <1>1, <1>4
<1>7. IsFiniteSet(before) /\ Cardinality(before) \in Nat
    BY <1>1, FS_Subset, FS_CardinalityType
<1>8. IsFiniteSet(before \cup {i}) /\ Cardinality(before \cup {i}) <= Cardinality(before) + 1
    <2>1. Cardinality(before \cup {i}) = IF i \in before THEN Cardinality(before) ELSE Cardinality(before) + 1
        BY <1>7, FS_AddElement
    <2>2. QED BY <1>7, <2>1, FS_AddElement
<1>9. Cardinality(after) <= Cardinality(before) + 1 /\ Cardinality(after) \in Nat
    <2>1. IsFiniteSet(after) /\ Cardinality(after) <= Cardinality(before \cup {i})
        BY <1>6, <1>8, FS_Subset
    <2>2. Cardinality(after) \in Nat /\ Cardinality(before \cup {i}) \in Nat
        BY <1>8, <2>1, FS_CardinalityType
    <2>3. QED BY <1>7, <1>8, <2>1, <2>2
<1>10. ModelBytes(w) <= ModelBytes(m) + LinearEntryBytes
    <2>1. LinearLen(w) <= LinearLen(m) + 1 /\ LinearLen(w) \in Nat /\ LinearLen(m) \in Nat
        BY <1>7, <1>9 DEF LinearLen
    <2>2. w.size = m.size
        BY <1>4
    <2> HIDE DEF w
    <2>3. QED BY <1>1, <2>1, <2>2 DEF ModelBytes, VariableBytes, LinearEntryBytes
<1>11. QED BY <1>4, <1>5, <1>10

\* SETLINE and ADDLINE pay for an entry that was not there.
LEMMA WriteLineStep ==
    ASSUME Inv, WriteLine
    PROVE  Faulted \/ \E bytes \in Nat : Paying(bytes) /\ Wrote(bytes)
<1> DEFINE value == IF Current.op = "SETLINE" THEN Operand(1)
                    ELSE Reg.linear[Operand(2)] + Operand(1)
           isModel == Reg.t = "Model"
           bytes == IF isModel THEN LinearEntryBytes ELSE 0
           units == IF isModel THEN CoeffWriteSteps ELSE 0
           r == Current.regs[1]
           v == [Reg EXCEPT !.linear[Operand(2)] = value]
<1>1. /\ Operand(1) \in Int /\ Operand(2) \in Int
      /\ Current.op \in RegisterOps /\ r \in Registers /\ Reg \in Values
    BY Finds, Registered DEF WriteLine, RegisterOps
<1>2. bytes \in Nat /\ units \in Nat
    BY DEF LinearEntryBytes, CoeffWriteSteps
<1> DEFINE work == IF ~IsGrid(Reg) THEN Raise("TypeMismatch")
                   ELSE IF Operand(2) \notin DOMAIN Reg.linear
                     THEN Raise("IndexOutOfBounds")
                   ELSE IF ~InRange(value) THEN Raise("ArithmeticOverflow")
                   ELSE IF ~isModel /\ value \notin {0, 1}
                     THEN Raise("ValueOutOfDomain")
                   ELSE /\ Set([Reg EXCEPT !.linear[Operand(2)] = value])
                        /\ UNCHANGED lent
<1>3. Ready({"SETLINE", "ADDLINE"}) /\ Charged(bytes, units, work)
    BY DEF WriteLine
<1>4. Faulted \/ (Paying(bytes) /\ work)
    <2> HIDE DEF value, isModel, bytes, units, work
    <2>1. QED BY <1>2, <1>3, Charging
<1>5. ASSUME IsGrid(Reg), Operand(2) \in DOMAIN Reg.linear, Set(v), lent' = lent
      PROVE  Wrote(bytes)
    <2> DEFINE kind == Reg.t
    <2>1. Reg \in GridVals(kind) /\ kind \in {"Model", "Sample"}
        BY <1>1, <1>5, Kinds DEF IsGrid, Models, Samples
    <2>2. value \in Int
        BY <1>1, <1>5, <2>1, GridFields
    <2>3. v \in GridVals(kind) /\ v.t = kind /\ v.size = Reg.size /\ ModelBytes(v) <= ModelBytes(Reg) + LinearEntryBytes
        <3> HIDE DEF value, kind
        <3>1. QED BY <1>5, <2>1, <2>2, OneCoefficient
    <2>4. v \in Values /\ (kind = "Model" => v \in Models)
        BY <2>1, <2>3 DEF Values, Models, Samples
    <2>5. LiveBytes(v) <= LiveBytes(Reg) + bytes
        <3> HIDE DEF v
        <3>1. CASE kind = "Model"
            BY <2>3, <3>1 DEF LiveBytes, ValueBytes
        <3>2. CASE kind = "Sample"
            <4>1. LiveBytes(v) = v.size * VariableBytes /\ LiveBytes(Reg) = Reg.size * VariableBytes
                BY <2>3, <3>2 DEF LiveBytes, ValueBytes
            <4>2. Reg.size \in Nat
                BY <2>1, GridFields
            <4>3. QED BY <2>3, <3>2, <4>1, <4>2 DEF VariableBytes
        <3>3. QED BY <2>1, <3>1, <3>2
    <2>6. LiveBytes(Reg) <= memory /\ LiveBytes(Reg) \in Nat /\ memory \in Nat /\ LiveBytes(v) \in Nat
        BY <1>1, <2>4, CostType, Numbers DEF Inv, LiveBytesAccounted, Reg
    <2>7. LiveBytes(v) <= memory + bytes
        <3> HIDE DEF v, bytes
        <3>1. QED BY <1>2, <2>5, <2>6
    <2>8. r \in lent => v \in Models
        <3>1. r \in lent => Reg \in Models
            BY <1>1 DEF Inv, MachineOK, Reg
        <3>2. r \in lent => kind = "Model"
            BY <3>1, GridFields DEF Models
        <3>3. QED BY <2>4, <3>2
    <2>9. r \notin lent => LiveBytes(v) <= Share(r) + bytes
        BY <2>5 DEF Share, Reg
    <2>10. GoesOn /\ loops' = loops /\ outputs' = outputs /\ regs' = [regs EXCEPT ![r] = v]
        BY <1>5, Operands, Numbers DEF Set, Advance, GoesOn, WriteLine
    <2> HIDE DEF v, r, bytes
    <2>11. QED BY <1>1, <1>5, <2>4, <2>7, <2>8, <2>9, <2>10 DEF Wrote
<1>6. ASSUME NEW fault, Paying(bytes), Raise(fault)
      PROVE  Faulted
    <2> HIDE DEF bytes
    <2>1. QED BY <1>2, <1>6, RaiseStops DEF WriteLine
<1>7. QED
    <2> HIDE DEF value, isModel, bytes
    <2>1. QED BY <1>2, <1>4, <1>5, <1>6

\* OUTPUT pays for the copy in the slot.
LEMMA OutputStep ==
    ASSUME Inv, Output
    PROVE  Faulted \/ \E bytes \in Nat : Paying(bytes) /\ Sent(bytes)
<1> DEFINE bytes == ValueBytes(Reg)
<1>1. Operand(1) \in Int /\ Reg \in Values
    BY Finds, Registered DEF Output, RegisterOps
<1>2. bytes \in Nat /\ ValueCopySteps(Reg) \in Nat /\ LiveBytes(Reg) <= bytes
    BY <1>1, CostType DEF LiveBytes
<1> DEFINE work == IF Reg.t = "Unset" THEN Raise("UnsetRegister")
                   ELSE IF ~(0 <= Operand(1) /\ Operand(1) < OutputSlots)
                     THEN Raise("OutputIndex")
                   ELSE /\ outputs' = [outputs EXCEPT ![Operand(1) + 1] = Reg]
                        /\ stack' = Popped
                        /\ pc' = pc + 1
                        /\ UNCHANGED <<file, loops, status>>
<1>3. Faulted \/ (Paying(bytes) /\ work)
    <2>1. Charged(bytes, ValueCopySteps(Reg), work)
        BY DEF Output
    <2> HIDE DEF bytes, work
    <2>2. QED BY <1>2, <2>1, Charging DEF Output
<1>4. ASSUME /\ 0 <= Operand(1) /\ Operand(1) < OutputSlots
             /\ outputs' = [outputs EXCEPT ![Operand(1) + 1] = Reg]
             /\ stack' = Popped
             /\ pc' = pc + 1
             /\ UNCHANGED <<file, loops, status>>
      PROVE  Sent(bytes)
    <2> DEFINE s == Operand(1) + 1
    <2>1. s \in 1 .. OutputSlots
        BY SMTT(60), <1>1, <1>4, Numbers
    <2>2. GoesOn /\ regs' = regs /\ lent' = lent /\ loops' = loops
        BY <1>4, Operands, Numbers DEF Output, GoesOn, file
    <2>3. outputs' = [outputs EXCEPT ![s] = Reg]
        BY <1>4
    <2> HIDE DEF s, bytes
    <2>4. QED BY <1>1, <1>2, <2>1, <2>2, <2>3 DEF Sent
<1>5. QED
    <2> HIDE DEF bytes
    <2>1. QED BY <1>2, <1>3, <1>4, RaiseStops DEF Output

-----------------------------------------------------------------------------
(* Loops. *)

\* A frame of an iteration holds each item it will hand out.
LEMMA FrameType ==
    ASSUME NEW frame \in RangeFrames \cup IterFrames
    PROVE  /\ frame.body \in Nat /\ frame.kind \in {"range", "iter"}
           /\ frame.kind = "range" => frame \in RangeFrames
           /\ frame.kind = "iter" => frame \in IterFrames
           /\ FrameBytes(frame) \in Nat
           /\ frame.kind = "iter" =>
                \A i \in DOMAIN frame.items : ValueBytes(frame.items[i]) <= FrameBytes(frame)
<1>1. /\ frame.body \in Nat /\ frame.kind \in {"range", "iter"}
      /\ frame.kind = "range" => frame \in RangeFrames
      /\ frame.kind = "iter" => frame \in IterFrames
    BY DEF RangeFrames, IterFrames
<1>2. CASE frame.kind = "range"
    BY <1>1, <1>2 DEF FrameBytes
<1>3. CASE frame.kind = "iter"
    <2>1. frame.items \in Seq(Ints \cup Models)
        BY <1>1, <1>3 DEF IterFrames
    <2>2. IsFiniteSet(DOMAIN frame.items) /\ \A i \in DOMAIN frame.items : frame.items[i] \in Values
        BY <2>1, SeqDomain DEF Values
    <2> DEFINE f == [i \in DOMAIN frame.items |-> ValueBytes(frame.items[i])]
    <2>3. DOMAIN f = DOMAIN frame.items /\ \A i \in DOMAIN f : f[i] \in Nat /\ f[i] = ValueBytes(frame.items[i])
        BY <2>2, CostType
    <2>4. FrameBytes(frame) = SumOf(f)
        BY <1>3, SumOverIs DEF FrameBytes
    <2> HIDE DEF f
    <2>5. SumOf(f) \in Nat /\ \A i \in DOMAIN f : f[i] <= SumOf(f)
        BY <2>2, <2>3, SumNat, SumAtLeast
    <2>6. QED BY <1>1, <1>3, <2>3, <2>4, <2>5
<1>4. QED BY <1>1, <1>2, <1>3

\* The frames of the loop stack.
LEMMA LoopsType ==
    ASSUME Inv
    PROVE  /\ loops \in Seq(RangeFrames \cup IterFrames) /\ DOMAIN loops = 1 .. Len(loops)
           /\ \A k \in DOMAIN loops : loops[k] \in RangeFrames \cup IterFrames
           /\ loops # <<>> => Top \in RangeFrames \cup IterFrames /\ Len(loops) \in DOMAIN loops
<1>1. loops \in Seq(RangeFrames \cup IterFrames)
    BY DEF Inv, MachineOK
<1>2. loops # <<>> => Len(loops) \in Nat \ {0}
    BY <1>1, EmptySeq
<1>3. DOMAIN loops = 1 .. Len(loops) /\ \A k \in DOMAIN loops : loops[k] \in RangeFrames \cup IterFrames
    BY <1>1
<1>4. QED BY <1>1, <1>2, <1>3 DEF Top

\* What is live is three sums: registers, output slots and frames.
LEMMA LiveParts ==
    ASSUME Inv
    PROVE  /\ SumOf([r \in Registers |-> Share(r)]) \in Nat
           /\ SumOf([s \in 1 .. OutputSlots |-> LiveBytes(outputs[s])]) \in Nat
           /\ SumOf([k \in DOMAIN loops |-> FrameBytes(loops[k])]) \in Nat
           /\ ChargedTotal = SumOf([r \in Registers |-> Share(r)])
                             + SumOf([s \in 1 .. OutputSlots |-> LiveBytes(outputs[s])])
                             + SumOf([k \in DOMAIN loops |-> FrameBytes(loops[k])])
           /\ ChargedTotal <= memory
           /\ \A k \in DOMAIN loops : FrameBytes(loops[k]) <= memory
<1> DEFINE f == [r \in Registers |-> Share(r)]
           g == [s \in 1 .. OutputSlots |-> LiveBytes(outputs[s])]
           h == [k \in DOMAIN loops |-> FrameBytes(loops[k])]
<1>1. IsFiniteSet(Registers) /\ IsFiniteSet(1 .. OutputSlots) /\ IsFiniteSet(DOMAIN loops)
    BY XqvmAssumption, FS_Interval, Numbers, LoopsType
<1>2. DOMAIN f = Registers /\ \A r \in DOMAIN f : f[r] \in Nat
    BY ShareType
<1>3. DOMAIN g = 1 .. OutputSlots /\ \A s \in DOMAIN g : g[s] \in Nat
    BY CostType DEF Inv, MachineOK
<1>4. DOMAIN h = DOMAIN loops /\ \A k \in DOMAIN h : h[k] \in Nat /\ h[k] = FrameBytes(loops[k])
    BY LoopsType, FrameType
<1>5. ChargedTotal = SumOf(f) + SumOf(g) + SumOf(h)
    <2>1. DOMAIN outputs = 1 .. OutputSlots
        BY DEF Inv, MachineOK
    <2>2. QED BY <2>1, SumOverIs DEF ChargedTotal, Share
<1> HIDE DEF f, g, h
<1>6. SumOf(f) \in Nat /\ SumOf(g) \in Nat /\ SumOf(h) \in Nat
    BY <1>1, <1>2, <1>3, <1>4, SumNat
<1>7. \A k \in DOMAIN h : h[k] <= SumOf(h)
    BY <1>1, <1>4, SumAtLeast
<1>8. ChargedTotal <= memory /\ memory \in Nat
    BY Numbers DEF Inv, LiveBytesAccounted
<1>9. \A k \in DOMAIN loops : FrameBytes(loops[k]) <= memory
    <2> TAKE k \in DOMAIN loops
    <2>1. h[k] <= SumOf(h) /\ h[k] = FrameBytes(loops[k]) /\ h[k] \in Nat
        BY <1>4, <1>7
    <2>2. QED BY <1>5, <1>6, <1>8, <2>1
<1>10. QED
    <2>1. SumOf(f) \in Nat /\ SumOf(g) \in Nat /\ SumOf(h) \in Nat /\ ChargedTotal = SumOf(f) + SumOf(g) + SumOf(h)
        BY <1>5, <1>6
    <2>2. QED BY <1>8, <1>9, <2>1 DEF f, g, h

\* A non-empty set of positions has a first.
LEMMA FirstPosition ==
    ASSUME NEW S, S \subseteq Nat, S # {}
    PROVE  Min(S) \in S
<1>1. PICK p \in S : \A q \in S : <<q, p>> \notin OpToRel(<, Nat)
    BY NatLessThanWellFounded, WFMin, Zenon
<1>2. ASSUME NEW q \in S
      PROVE  p <= q
    <2>1. p \in Nat /\ q \in Nat
        OBVIOUS
    <2>2. (q < p) => <<q, p>> \in OpToRel(<, Nat)
        BY <2>1, Zenon DEF OpToRel
    <2>3. ~(q < p)
        BY <1>1, <2>2
    <2>4. QED BY <2>1, <2>3
<1>3. QED BY <1>2 DEF Min

\* The end of a loop is a position after its opening.
LEMMA ClosingType ==
    ASSUME Inv, AtInstruction
    PROVE  /\ Closings # {} => Min(Closings) \in Nat /\ Min(Closings) > pc
           /\ Len(program) - 1 - pc \in Nat
<1>1. pc \in Nat /\ Len(program) \in Nat /\ pc < Len(program)
    BY Numbers, ProgramShape DEF AtInstruction
<1>2. ASSUME Closings # {}
      PROVE  Min(Closings) \in Closings
    <2>1. Closings \subseteq Nat
        BY <1>1 DEF Closings
    <2> HIDE DEF Closings
    <2>2. QED BY <1>1, <1>2, <2>1, FirstPosition
<1>3. Closings # {} => Min(Closings) \in Nat /\ Min(Closings) > pc
    <2>1. \A p \in Closings : p \in Nat /\ p > pc
        BY <1>1 DEF Closings
    <2>2. QED BY <1>2, <2>1
<1>4. QED BY <1>1, <1>3

\* A loop that is skipped pays for the scan before it moves.
LEMMA SkipLoopStops ==
    ASSUME Inv, NEW ops, Ready(ops), SkipLoop
    PROVE  Stopped
<1> DEFINE scanned == IF Closings = {} THEN Len(program) - 1 - pc ELSE Min(Closings) - pc
<1>1. scanned \in Nat /\ (Closings # {} => Min(Closings) + 1 \in Nat)
    <2>1. AtInstruction /\ pc \in Nat
        BY Numbers DEF Ready
    <2>2. QED BY <2>1, ClosingType
<1>2. /\ program' = program /\ memory' = memory
      /\ IF steps + 1 + scanned > StepLimit
           THEN Raise("StepLimitExceeded") /\ steps' = StepLimit
         ELSE /\ steps' = steps + 1 + scanned
              /\ IF Closings = {} THEN Raise("UnmatchedLoop")
                 ELSE /\ pc' = Min(Closings) + 1
                      /\ stack' = Popped
                      /\ UNCHANGED <<file, loops, outputs, status>>
    BY DEF SkipLoop
<1>3. /\ memory \in Nat /\ memory <= MemoryLimit /\ memory + 0 = memory
      /\ steps \in Nat /\ StepLimit \in Nat /\ Popped \in Seq(Int) /\ Len(Popped) <= StackLimit
    BY Numbers, Operands
<1> HIDE DEF scanned
<1>4. Paying(0)
    BY <1>1, <1>2, <1>3 DEF Paying
<1>5. CASE \E fault : Raise(fault)
    BY <1>4, <1>5, RaiseStops DEF Stopped
<1>6. CASE /\ pc' = Min(Closings) + 1 /\ Closings # {}
           /\ stack' = Popped
           /\ UNCHANGED <<file, loops, outputs, status>>
    BY <1>1, <1>3, <1>4, <1>6 DEF Stopped, Moved, GoesOn, file
<1>7. QED BY <1>2, <1>5, <1>6

\* A frame is entered only where there is room for it.
LEMMA EnterEnters ==
    ASSUME Inv, NEW ops, Ready(ops), NEW bytes \in Nat, NEW frame \in RangeFrames \cup IterFrames,
           Stands(frame), FrameBytes(frame) <= bytes, Paying(bytes), Enter(frame)
    PROVE  Faulted \/ Entered(bytes)
<1>1. CASE Len(loops) >= LoopLimit
    BY <1>1, RaiseStops DEF Enter
<1>2. CASE ~(Len(loops) >= LoopLimit)
    <2>1. Len(loops) < LoopLimit
        BY <1>2, Numbers
    <2>2. GoesOn /\ regs' = regs /\ lent' = lent /\ outputs' = outputs /\ loops' = Append(loops, frame)
        BY <1>2, Operands, Numbers DEF Enter, Advance, GoesOn, file
    <2>3. QED BY <2>1, <2>2 DEF Entered
<1>3. QED BY <1>1, <1>2

\* RANGE enters a loop with an iteration to run, skips it, or faults.
LEMMA OpenRangeStep ==
    ASSUME Inv, OpenRange
    PROVE  Stopped \/ (Paying(0) /\ Entered(0))
<1> DEFINE count == Operand(1)
           start == Operand(2)
           frame == RangeFrame(start, start + count)
<1>1. count \in Int /\ start \in Int /\ Ready({"RANGE"})
    BY Finds DEF OpenRange
<1>2. CASE count <= 0
    BY <1>1, <1>2, SkipLoopStops DEF OpenRange
<1>3. CASE ~(count <= 0)
    <2>1. Free(IF ~InRange(start + count) THEN Raise("ArithmeticOverflow") ELSE Enter(frame))
        BY <1>3 DEF OpenRange
    <2>2. Faulted \/ (Paying(0) /\ IF ~InRange(start + count) THEN Raise("ArithmeticOverflow") ELSE Enter(frame))
        <3> HIDE DEF count, start, frame
        <3>1. QED BY <1>1, <2>1, FreeOfCharge
    <2>3. frame \in RangeFrames /\ frame.kind = "range" /\ frame.current = start /\ frame.end = start + count
        BY <1>1, Numbers DEF RangeFrame, RangeFrames
    <2>4. InRange(start + count) => Stands(frame)
        BY <1>1, <1>3, <2>3 DEF Stands
    <2>5. FrameBytes(frame) <= 0
        BY <2>3 DEF FrameBytes
    <2> HIDE DEF count, start, frame
    <2>6. CASE InRange(start + count)
        BY <1>1, <2>2, <2>3, <2>4, <2>5, <2>6, EnterEnters DEF Stopped
    <2>7. CASE ~InRange(start + count)
        BY <1>1, <2>2, <2>7, RaiseStops DEF Stopped
    <2>8. QED BY <2>6, <2>7
<1>4. QED BY <1>2, <1>3

\* The numbers up to n are n.
LEMMA UpTo ==
    ASSUME NEW n \in Nat
    PROVE  IsFiniteSet(1 .. n) /\ Cardinality(1 .. n) = n
<1>1. IsFiniteSet(1 .. n) /\ Cardinality(1 .. n) = IF 1 > n THEN 0 ELSE n - 1 + 1
    BY FS_Interval
<1>2. QED BY <1>1

\* What is copied into a frame, and what its copy is charged.
LEMMA IterFrameType ==
    ASSUME Inv, NEW v \in IntVecs \cup ModelVecs, NEW start \in Nat, Len(v.items) > 0,
           NEW bytes, bytes = IF v.t = "VecInt" THEN Len(v.items) * VariableBytes ELSE ValueBytes(v)
    PROVE  /\ bytes \in Nat
           /\ IterFrame(v, start) \in IterFrames
           /\ Stands(IterFrame(v, start))
           /\ FrameBytes(IterFrame(v, start)) <= bytes
<1> DEFINE n == Len(v.items)
           items == [i \in DOMAIN v.items |-> IF v.t = "VecInt" THEN IntVal(v.items[i]) ELSE v.items[i]]
           frame == IterFrame(v, start)
           f == [i \in DOMAIN items |-> ValueBytes(items[i])]
<1>1. (v.t = "VecInt" /\ v.items \in Seq(Int)) \/ (v.t = "VecXqmx" /\ v.items \in Seq(Models))
    BY DEF IntVecs, ModelVecs
<1>2. v \in Values
    BY DEF Values
<1>3. n \in Nat /\ n > 0 /\ DOMAIN v.items = 1 .. n
    BY <1>1
<1>4. bytes \in Nat
    BY <1>2, <1>3, CostType DEF VariableBytes
<1>5. \A i \in 1 .. n : items[i] \in Ints \cup Models
    <2>1. CASE v.t = "VecInt"
        BY <1>1, <1>3, <2>1 DEF IntVal, Ints
    <2>2. CASE v.t = "VecXqmx"
        BY <1>1, <1>3, <2>2
    <2>3. QED BY <1>1, <2>1, <2>2
<1>6. items \in Seq(Ints \cup Models) /\ Len(items) = n /\ DOMAIN items = 1 .. n
    <2>1. items \in [1 .. n -> Ints \cup Models]
        BY <1>3, <1>5
    <2> HIDE DEF items, n
    <2>2. items \in Seq(Ints \cup Models)
        BY <1>3, <2>1, SeqDef
    <2>3. QED BY <1>3, <2>1, <2>2
<1>7. frame = [kind |-> "iter", body |-> pc + 1, offset |-> start, index |-> 0, items |-> items]
    BY DEF IterFrame
<1>8. frame \in IterFrames /\ Stands(frame)
    <2> HIDE DEF items, frame, n
    <2>1. frame \in IterFrames
        BY <1>6, <1>7, Numbers DEF IterFrames
    <2>2. Stands(frame)
        BY <1>3, <1>6, <1>7 DEF Stands
    <2>3. QED BY <2>1, <2>2
<1>9. FrameBytes(frame) = SumOf(f)
    <2>1. frame.kind = "iter" /\ frame.items = items
        BY <1>7
    <2> HIDE DEF items, frame
    <2>2. QED BY <2>1, SumOverIs DEF FrameBytes
<1>10. DOMAIN f = 1 .. n /\ IsFiniteSet(DOMAIN f) /\ Cardinality(DOMAIN f) = n
    <2>1. DOMAIN f = 1 .. n
        BY <1>6
    <2> HIDE DEF f, n
    <2>2. QED BY <1>3, <2>1, UpTo
<1>11. SumOf(f) = bytes
    <2>1. CASE v.t = "VecInt"
        <3>1. \A i \in DOMAIN f : f[i] = VariableBytes
            BY <2>1, <1>3, <1>6 DEF ValueBytes, IntVal
        <3>2. SumOf(f) = n * VariableBytes
            <4> HIDE DEF f, n
            <4>1. VariableBytes \in Nat
                BY DEF VariableBytes
            <4>2. QED BY <1>3, <1>10, <3>1, <4>1, SumConstant
        <3>3. QED BY <2>1, <3>2
    <2>2. CASE v.t = "VecXqmx"
        <3> DEFINE g == [i \in DOMAIN v.items |-> ModelBytes(v.items[i])]
        <3>1. \A i \in 1 .. n : v.items[i] \in Models
            BY <1>1, <1>3, <2>2
        <3>2. \A i \in 1 .. n : ValueBytes(v.items[i]) = ModelBytes(v.items[i])
            BY <3>1, GridFields DEF Models, ValueBytes
        <3>3. items = [i \in DOMAIN v.items |-> v.items[i]]
            BY <2>2
        <3>4. f = g
            BY <1>3, <3>2, <3>3
        <3>5. ValueBytes(v) = SumOver(g)
            BY <2>2 DEF ValueBytes
        <3>6. bytes = ValueBytes(v)
            BY <2>2
        <3> HIDE DEF f, g
        <3>7. QED BY <3>4, <3>5, <3>6, SumOverIs
    <2>3. QED BY <1>1, <2>1, <2>2
<1> HIDE DEF frame, f
<1>12. QED BY <1>4, <1>8, <1>9, <1>11 DEF frame

\* A slice of a vector.
LEMMA SliceType ==
    ASSUME NEW v \in IntVecs \cup ModelVecs, NEW start \in Nat, NEW end \in Nat,
           start < end, end <= Len(v.items)
    PROVE  LET slice == [v EXCEPT !.items = SubSeq(@, start + 1, end)]
           IN  slice \in IntVecs \cup ModelVecs /\ slice.t = v.t /\ Len(slice.items) = end - start
<1> DEFINE part == SubSeq(v.items, start + 1, end)
           slice == [v EXCEPT !.items = SubSeq(@, start + 1, end)]
<1>1. (v.t = "VecInt" /\ v.items \in Seq(Int)) \/ (v.t = "VecXqmx" /\ v.items \in Seq(Models))
    BY DEF IntVecs, ModelVecs
<1>2. slice = [t |-> v.t, items |-> part]
    <2> HIDE DEF part
    <2>1. slice = [v EXCEPT !.items = part]
        BY DEF part
    <2>2. CASE v \in IntVecs
        BY SMTT(60), <2>1, <2>2 DEF IntVecs
    <2>3. CASE v \in ModelVecs
        BY <2>1, <2>3 DEF ModelVecs
    <2>4. QED BY <2>2, <2>3
<1>3. ASSUME NEW S, v.items \in Seq(S)
      PROVE  part \in Seq(S) /\ Len(part) = end - start
    <2>1. \A i \in start + 1 .. end : v.items[i] \in S
        BY <1>3
    <2>2. part \in Seq(S) /\ Len(part) = IF start + 1 <= end THEN end - (start + 1) + 1 ELSE 0
        BY <2>1, SubSeqProperties
    <2>3. QED BY <2>2
<1>4. Len(part) = end - start /\ (v.t = "VecInt" => part \in Seq(Int)) /\ (v.t = "VecXqmx" => part \in Seq(Models))
    BY <1>1, <1>3
<1> HIDE DEF part
<1>5. [t |-> v.t, items |-> part] \in IntVecs \cup ModelVecs
    BY <1>1, <1>4 DEF IntVecs, ModelVecs
<1> HIDE DEF slice
<1>6. slice \in IntVecs \cup ModelVecs /\ slice.t = v.t /\ Len(slice.items) = end - start
    BY <1>2, <1>4, <1>5
<1>7. QED BY <1>6 DEF slice

\* ITER pays for the slice its frame keeps.
LEMMA OpenIterStep ==
    ASSUME Inv, OpenIter
    PROVE  Stopped \/ \E bytes \in Nat : Paying(bytes) /\ Entered(bytes)
<1> DEFINE end == Operand(1)
           start == Operand(2)
           slice == [Reg EXCEPT !.items = SubSeq(@, start + 1, end)]
           bytes == IF Reg.t = "VecInt" THEN (end - start) * VariableBytes ELSE ValueBytes(slice)
           frame == IterFrame(slice, start)
<1>1. end \in Int /\ start \in Int /\ Ready({"ITER"}) /\ Reg \in Values
    BY Finds, Registered DEF OpenIter, RegisterOps
<1>2. ASSUME NEW fault, Free(Raise(fault))
      PROVE  Stopped
    <2>1. Faulted \/ (Paying(0) /\ Raise(fault))
        BY <1>1, <1>2, FreeOfCharge
    <2>2. QED BY <1>1, <2>1, RaiseStops DEF Stopped
<1>3. CASE Reg.t \notin {"VecInt", "VecXqmx"}
    BY <1>2, <1>3 DEF OpenIter
<1>4. CASE Reg.t \in {"VecInt", "VecXqmx"} /\ start >= end
    BY <1>1, <1>4, SkipLoopStops DEF OpenIter
<1>5. CASE Reg.t \in {"VecInt", "VecXqmx"} /\ ~(start >= end) /\ (start < 0 \/ end > Len(Reg.items))
    BY <1>2, <1>5 DEF OpenIter
<1>6. CASE Reg.t \in {"VecInt", "VecXqmx"} /\ ~(start >= end) /\ ~(start < 0 \/ end > Len(Reg.items))
    <2>1. Charged(bytes, ValueCopySteps(slice), Enter(frame))
        BY <1>6 DEF OpenIter
    <2>2. Reg \in IntVecs \cup ModelVecs /\ Len(Reg.items) \in Nat
        BY <1>1, <1>6, Kinds DEF IntVecs, ModelVecs
    <2>3. start \in Nat /\ end \in Nat /\ start < end /\ end <= Len(Reg.items)
        BY <1>1, <1>6, <2>2
    <2>4. /\ slice \in Values /\ bytes \in Nat /\ frame \in IterFrames
          /\ Stands(frame) /\ FrameBytes(frame) <= bytes
        <3> HIDE DEF start, end, slice
        <3>1. slice \in IntVecs \cup ModelVecs /\ slice.t = Reg.t /\ Len(slice.items) = end - start
            BY <2>2, <2>3, SliceType DEF slice
        <3>2. Len(slice.items) > 0
            BY <2>3, <3>1
        <3>3. bytes = IF slice.t = "VecInt" THEN Len(slice.items) * VariableBytes ELSE ValueBytes(slice)
            BY <3>1
        <3> HIDE DEF bytes
        <3>4. QED BY <2>3, <3>1, <3>2, <3>3, IterFrameType DEF Values
    <2>5. ValueCopySteps(slice) \in Nat
        BY <2>4, CostType
    <2> HIDE DEF start, end, slice, bytes, frame
    <2>6. Faulted \/ (Paying(bytes) /\ Enter(frame))
        BY <1>1, <2>1, <2>4, <2>5, Charging
    <2>7. Faulted \/ (Paying(bytes) /\ Entered(bytes))
        BY <1>1, <2>4, <2>6, EnterEnters
    <2>8. QED BY <2>4, <2>7 DEF Stopped
<1>7. QED BY <1>3, <1>4, <1>5, <1>6

\* A frame that advances keeps its kind, body, bounds and items.
LEMMA AdvancedType ==
    ASSUME NEW frame \in RangeFrames \cup IterFrames
    PROVE  /\ Advanced(frame) \in RangeFrames \cup IterFrames
           /\ Advanced(frame).kind = frame.kind /\ Advanced(frame).body = frame.body
           /\ frame.kind = "range" => /\ Advanced(frame).current = frame.current + 1
                                      /\ Advanced(frame).end = frame.end
           /\ frame.kind = "iter" => Advanced(frame).items = frame.items
           /\ FrameBytes(Advanced(frame)) = FrameBytes(frame)
<1>1. CASE frame.kind = "range"
    <2>1. frame \in RangeFrames
        BY <1>1, FrameType
    <2>2. Advanced(frame) = [frame EXCEPT !.current = @ + 1]
        BY <1>1 DEF Advanced
    <2>3. QED BY <1>1, <2>1, <2>2 DEF RangeFrames, FrameBytes
<1>2. CASE frame.kind = "iter"
    <2>1. frame \in IterFrames
        BY <1>2, FrameType
    <2>2. Advanced(frame) = [frame EXCEPT !.index = @ + 1]
        BY <1>2 DEF Advanced
    <2>3. Advanced(frame) \in IterFrames /\ Advanced(frame).items = frame.items /\ Advanced(frame).kind = "iter"
          /\ Advanced(frame).body = frame.body
        BY <1>2, <2>1, <2>2 DEF IterFrames
    <2>4. QED BY <1>2, <2>3 DEF FrameBytes
<1>3. QED BY <1>1, <1>2, FrameType

\* NEXT goes round only where an iteration is left.
LEMMA EndOfBodyStep ==
    ASSUME Inv, EndOfBody
    PROVE  Stopped \/ (Paying(0) /\ Turned)
<1> DEFINE frame == Advanced(Top)
           outer == SubSeq(loops, 1, Len(loops) - 1)
           turn == /\ UNCHANGED <<stack, file, outputs, status>>
                   /\ IF More(frame)
                        THEN loops' = Append(outer, frame) /\ pc' = frame.body
                        ELSE loops' = outer /\ pc' = pc + 1
<1>1. Ready({"NEXT"})
    BY DEF EndOfBody
<1>2. Faulted \/ (Paying(0) /\ IF loops = <<>> THEN Raise("NoActiveLoop")
                    ELSE IF frame.kind = "range" /\ ~InRange(frame.current) THEN Raise("ArithmeticOverflow")
                    ELSE turn)
    <2>1. Free(IF loops = <<>> THEN Raise("NoActiveLoop")
               ELSE IF frame.kind = "range" /\ ~InRange(frame.current) THEN Raise("ArithmeticOverflow")
               ELSE turn)
        BY DEF EndOfBody
    <2> HIDE DEF frame, outer, turn
    <2>2. QED BY <1>1, <2>1, FreeOfCharge
<1>3. ASSUME loops # <<>>, turn
      PROVE  Turned
    <2>1. Top \in RangeFrames \cup IterFrames /\ Len(loops) \in DOMAIN loops
        BY <1>3, LoopsType
    <2>2. /\ frame \in RangeFrames \cup IterFrames /\ frame.kind = Top.kind /\ frame.body \in Nat
          /\ frame.kind = "range" => frame.end = Top.end
          /\ FrameBytes(frame) = FrameBytes(Top)
        BY <2>1, AdvancedType, FrameType
    <2>3. Top.kind = "range" => InRange(Top.end)
        BY <2>1 DEF Inv, FramesStandOnAnIteration, Top
    <2>4. More(frame) => Stands(frame)
        <3> HIDE DEF frame
        <3>1. QED BY <2>2, <2>3 DEF More, Stands
    <2>5. GoesOn /\ regs' = regs /\ lent' = lent /\ outputs' = outputs
        <3> HIDE DEF frame
        <3>1. pc' \in Nat
            BY <1>3, <2>2, Numbers
        <3>2. QED BY <1>3, <3>1, Numbers DEF GoesOn, file
    <2> HIDE DEF frame
    <2>6. QED BY <1>3, <2>2, <2>4, <2>5 DEF Turned
<1>4. QED
    <2> HIDE DEF frame, turn
    <2>1. QED BY <1>1, <1>2, <1>3, RaiseStops DEF Stopped

\* LIDX writes an integer.
LEMMA LoopIndexStep ==
    ASSUME Inv, LoopIndex
    PROVE  Stopped \/ (Paying(0) /\ Wrote(0))
<1> DEFINE n == IF Top.kind = "range" THEN Top.current ELSE Top.offset + Top.index
<1>1. Ready({"LIDX"}) /\ Current.op \in RegisterOps
    BY Finds DEF LoopIndex, RegisterOps
<1>2. Faulted \/ (Paying(0) /\ IF loops = <<>> THEN Raise("NoActiveLoop") ELSE Write(IntVal(n)))
    BY <1>1, FreeOfCharge DEF LoopIndex
<1>3. loops # <<>> => n \in Int
    <2>1. loops # <<>> => Top \in RangeFrames \cup IterFrames
        BY LoopsType
    <2>2. QED BY <2>1 DEF RangeFrames, IterFrames
<1> HIDE DEF n
<1>4. CASE loops = <<>>
    BY <1>1, <1>2, <1>4, RaiseStops DEF Stopped
<1>5. CASE loops # <<>>
    <2>1. IntVal(n) \in Values /\ LiveBytes(IntVal(n)) = 0
        BY <1>3, <1>5, SmallValues
    <2>2. QED BY <1>1, <1>2, <1>5, <2>1, FreeWrite DEF Stopped
<1>6. QED BY <1>4, <1>5

\* LVAL writes an integer, or a model that its frame paid for.
LEMMA LoopValueStep ==
    ASSUME Inv, LoopValue
    PROVE  Stopped \/ (Paying(0) /\ Wrote(0))
<1> DEFINE r == Current.regs[1]
           item == Top.items[Top.index + 1]
           work == IF item.t = "Int" THEN Write(item) ELSE Set(item) /\ lent' = lent \cup {r}
<1>1. Ready({"LVAL"}) /\ Current.op \in RegisterOps /\ r \in Registers
    BY Finds, Registered DEF LoopValue, RegisterOps
<1>2. ASSUME NEW fault, Free(Raise(fault))
      PROVE  Stopped
    <2>1. Faulted \/ (Paying(0) /\ Raise(fault))
        BY <1>1, <1>2, FreeOfCharge
    <2>2. QED BY <1>1, <2>1, RaiseStops DEF Stopped
<1>3. CASE loops = <<>>
    BY <1>2, <1>3 DEF LoopValue
<1>4. CASE loops # <<>> /\ Top.kind = "range"
    <2>1. Top.current \in Int
        BY <1>4, LoopsType, FrameType DEF RangeFrames
    <2>2. Free(Write(IntVal(Top.current)))
        BY <1>4 DEF LoopValue
    <2>3. Faulted \/ (Paying(0) /\ Write(IntVal(Top.current)))
        BY <1>1, <2>2, FreeOfCharge
    <2>4. QED BY <1>1, <2>1, <2>3, FreeWrite, SmallValues DEF Stopped
<1>5. CASE loops # <<>> /\ Top.kind # "range" /\ Top.index >= Len(Top.items)
    BY <1>2, <1>5 DEF LoopValue
<1>6. CASE loops # <<>> /\ Top.kind # "range" /\ ~(Top.index >= Len(Top.items))
    <2>1. Top \in IterFrames /\ Top.kind = "iter" /\ Len(loops) \in DOMAIN loops /\ Top = loops[Len(loops)]
        BY <1>6, LoopsType, FrameType DEF Top
    <2>2. Top.items \in Seq(Ints \cup Models) /\ Top.index \in Nat
        BY <2>1 DEF IterFrames
    <2>3. Top.index + 1 \in DOMAIN Top.items
        BY <1>6, <2>2
    <2>4. item \in Ints \cup Models /\ item \in Values
        BY <2>2, <2>3 DEF Values
    <2>5. ValueBytes(item) <= memory /\ ValueBytes(item) \in Nat /\ ValueCopySteps(item) \in Nat
        <3>1. ValueBytes(item) <= FrameBytes(Top) /\ FrameBytes(Top) \in Nat
            BY <2>1, <2>3, FrameType
        <3>2. FrameBytes(Top) <= memory
            BY <2>1, LiveParts
        <3>3. ValueBytes(item) \in Nat /\ ValueCopySteps(item) \in Nat
            BY <2>4, CostType
        <3>4. memory \in Nat
            BY Numbers
        <3> HIDE DEF item
        <3>5. QED BY <3>1, <3>2, <3>3, <3>4
    <2>6. Faulted \/ (Paying(0) /\ work)
        <3>1. Charged(0, ValueCopySteps(item), work)
            BY <1>6 DEF LoopValue
        <3> HIDE DEF item, work
        <3>2. QED BY <1>1, <2>5, <3>1, Charging
    <2>7. CASE item.t = "Int"
        <3>1. LiveBytes(item) = 0
            BY <2>7 DEF LiveBytes
        <3>2. work => Write(item)
            BY <2>7
        <3> HIDE DEF item, work
        <3>3. QED BY <1>1, <2>4, <2>6, <3>1, <3>2, FreeWrite DEF Stopped
    <2>8. CASE item.t # "Int"
        <3>1. item \in Models
            BY <2>4, <2>8 DEF Ints
        <3>2. LiveBytes(item) <= memory + 0
            <4>1. LiveBytes(item) = ValueBytes(item)
                BY <2>8 DEF LiveBytes
            <4> HIDE DEF item
            <4>2. QED BY <2>5, <4>1, Numbers
        <3>3. work => Wrote(0)
            <4>1. work => /\ GoesOn /\ loops' = loops /\ outputs' = outputs
                          /\ regs' = [regs EXCEPT ![r] = item] /\ lent' = lent \cup {r}
                BY <1>1, <2>8, Operands, Numbers DEF Set, Advance, GoesOn
            <4> HIDE DEF item, work, r
            <4>2. QED BY <1>1, <2>4, <3>1, <3>2, <4>1 DEF Wrote
        <3> HIDE DEF work
        <3>4. QED BY <2>6, <3>3 DEF Stopped
    <2>9. QED BY <2>7, <2>8
<1>7. QED BY <1>3, <1>4, <1>5, <1>6

-----------------------------------------------------------------------------
(* Every effect keeps the invariant. *)

RegisterSum == SumOf([r \in Registers |-> Share(r)])
OutputSum == SumOf([s \in 1 .. OutputSlots |-> LiveBytes(outputs[s])])
LoopSum == SumOf([k \in DOMAIN loops |-> FrameBytes(loops[k])])

\* The three sums are numbers within what was paid.
LEMMA Sums ==
    ASSUME Inv
    PROVE  /\ RegisterSum \in Nat /\ OutputSum \in Nat /\ LoopSum \in Nat
           /\ RegisterSum + OutputSum + LoopSum <= memory
BY LiveParts DEF RegisterSum, OutputSum, LoopSum

\* One of three parts of a total grows by no more than is paid.
LEMMA Grow ==
    ASSUME NEW a \in Nat, NEW b \in Nat, NEW c \in Nat, NEW total \in Nat, a + b + c <= total,
           NEW bytes \in Nat, NEW d \in Nat
    PROVE  /\ d <= a + bytes => d + b + c <= total + bytes
           /\ d <= b + bytes => a + d + c <= total + bytes
           /\ d <= c + bytes => a + b + d <= total + bytes
OBVIOUS

\* What has to be shown of a step.
LEMMA Keeps ==
    ASSUME Inv,
           program' = program, pc' \in Nat, steps' \in Nat, steps' <= StepLimit,
           memory' \in Nat, memory' <= MemoryLimit,
           stack' \in Seq(Int), Len(stack') <= StackLimit,
           regs' \in [Registers -> Values],
           \A r \in Registers : r \in lent' => regs'[r] \in Models,
           \A r \in Registers : LiveBytes(regs'[r]) <= memory',
           outputs' \in [1 .. OutputSlots -> Values],
           loops' \in Seq(RangeFrames \cup IterFrames), Len(loops') <= LoopLimit,
           \A k \in DOMAIN loops' : Stands(loops'[k]),
           RegisterSum' + OutputSum' + LoopSum' <= memory'
    PROVE  Inv'
<1>1. MachineOK'
    BY DEF Inv, MachineOK
<1>2. WithinBudgets'
    BY DEF WithinBudgets
<1>3. FramesStandOnAnIteration'
    BY DEF FramesStandOnAnIteration, Stands
<1>4. LiveBytesAccounted'
    <2>1. DOMAIN outputs' = 1 .. OutputSlots
        OBVIOUS
    <2>2. ChargedTotal' = RegisterSum' + OutputSum' + LoopSum'
        BY <2>1, SumOverIs DEF ChargedTotal, RegisterSum, OutputSum, LoopSum, Share
    <2>3. QED BY <2>2 DEF LiveBytesAccounted
<1>5. QED BY <1>1, <1>2, <1>3, <1>4 DEF Inv

\* The parts of the invariant a step finds.
LEMMA Held ==
    ASSUME Inv
    PROVE  /\ program \in Programs
           /\ regs \in [Registers -> Values]
           /\ \A r \in Registers : (r \in lent => regs[r] \in Models) /\ LiveBytes(regs[r]) <= memory
           /\ \A r \in Registers : LiveBytes(regs[r]) \in Nat
           /\ outputs \in [1 .. OutputSlots -> Values]
           /\ \A s \in 1 .. OutputSlots : LiveBytes(outputs[s]) \in Nat
           /\ loops \in Seq(RangeFrames \cup IterFrames)
           /\ \A k \in DOMAIN loops : Stands(loops[k])
BY CostType DEF Inv, MachineOK, FramesStandOnAnIteration, LiveBytesAccounted, Stands

\* What is not written does not change its sum.
LEMMA SameSums ==
    /\ (regs' = regs /\ lent' = lent) => RegisterSum' = RegisterSum
    /\ outputs' = outputs => OutputSum' = OutputSum
    /\ loops' = loops => LoopSum' = LoopSum
BY DEF RegisterSum, OutputSum, LoopSum, Share

\* A fault keeps the invariant.
LEMMA FaultedKeeps ==
    ASSUME Inv, Faulted
    PROVE  Inv'
<1>1. RegisterSum' = RegisterSum /\ OutputSum' = OutputSum /\ LoopSum' = LoopSum
    BY SameSums DEF Faulted
<1>2. memory' \in Nat /\ memory \in Nat /\ memory <= memory'
    BY Numbers DEF Faulted
<1>3. RegisterSum' + OutputSum' + LoopSum' <= memory'
    BY <1>1, <1>2, Sums
<1>4. \A r \in Registers : LiveBytes(regs'[r]) <= memory'
    BY <1>2, Held DEF Faulted
<1>5. QED BY <1>3, <1>4, Held, Numbers, Keeps DEF Faulted

\* So does a step that only moves,
LEMMA MovedKeeps ==
    ASSUME Inv, Paying(0), Moved
    PROVE  Inv'
<1>1. RegisterSum' = RegisterSum /\ OutputSum' = OutputSum /\ LoopSum' = LoopSum
    BY SameSums DEF Moved
<1>2. memory' \in Nat /\ memory \in Nat /\ memory' = memory
    BY Numbers DEF Paying
<1>3. RegisterSum' + OutputSum' + LoopSum' <= memory'
    BY <1>1, <1>2, Sums
<1>4. \A r \in Registers : LiveBytes(regs'[r]) <= memory'
    BY <1>2, Held DEF Moved
<1>5. QED BY <1>2, <1>3, <1>4, Held, Numbers, Keeps DEF Moved, GoesOn, Paying

\* one that writes a register,
LEMMA WroteKeeps ==
    ASSUME Inv, NEW bytes \in Nat, Paying(bytes), Wrote(bytes)
    PROVE  Inv'
<1>1. PICK r \in Registers, v \in Values :
        /\ GoesOn /\ loops' = loops /\ outputs' = outputs
        /\ regs' = [regs EXCEPT ![r] = v]
        /\ lent' \in {lent, lent \ {r}, lent \cup {r}}
        /\ r \in lent' => v \in Models
        /\ r \notin lent' => LiveBytes(v) <= Share(r) + bytes
        /\ LiveBytes(v) <= memory + bytes
    BY DEF Wrote
<1>2. memory \in Nat /\ memory' \in Nat /\ memory' = memory + bytes
    BY Numbers DEF Paying
<1>3. LiveBytes(v) \in Nat
    BY CostType
<1>4. regs' \in [Registers -> Values] /\ regs'[r] = v /\ \A q \in Registers \ {r} : regs'[q] = regs[q]
    BY <1>1, Held
<1>5. \A q \in Registers : LiveBytes(regs'[q]) <= memory'
    <2> TAKE q \in Registers
    <2>1. CASE q = r
        BY <1>1, <1>2, <1>4, <2>1
    <2>2. CASE q # r
        <3>1. LiveBytes(regs[q]) <= memory /\ LiveBytes(regs[q]) \in Nat
            BY Held
        <3>2. QED BY <1>2, <1>4, <2>2, <3>1
    <2>3. QED BY <2>1, <2>2
<1>6. \A q \in Registers : q \in lent' => regs'[q] \in Models
    BY <1>1, <1>4, Held
<1>7. RegisterSum' <= RegisterSum + bytes /\ RegisterSum' \in Nat
    <2> DEFINE f == [q \in Registers |-> Share(q)]
               h == [q \in Registers |-> IF q \in lent' THEN 0 ELSE LiveBytes(regs'[q])]
    <2>1. IsFiniteSet(DOMAIN f) /\ DOMAIN f = Registers /\ DOMAIN h = DOMAIN f
        BY XqvmAssumption
    <2>2. \A q \in DOMAIN f : f[q] \in Nat
        BY ShareType
    <2>3. \A q \in DOMAIN f \ {r} : h[q] = f[q]
        BY <1>1, <1>4 DEF Share
    <2>4. h[r] \in Nat /\ h[r] <= f[r] + bytes
        <3>1. f[r] = Share(r) /\ Share(r) \in Nat
            BY ShareType
        <3>2. h[r] = IF r \in lent' THEN 0 ELSE LiveBytes(v)
            BY <1>4
        <3> HIDE DEF f, h
        <3>3. QED BY <1>1, <1>3, <3>1, <3>2
    <2>5. RegisterSum = SumOf(f) /\ RegisterSum' = SumOf(h)
        BY DEF RegisterSum, Share
    <2>6. f[r] \in Nat
        BY ShareType
    <2> HIDE DEF f, h
    <2>7. SumOf(h) = SumOf(f) - f[r] + h[r]
        BY <2>1, <2>2, <2>3, <2>4, SumExcept
    <2>8. SumOf(f) \in Nat /\ f[r] <= SumOf(f)
        BY <2>1, <2>2, SumNat, SumAtLeast
    <2>9. QED BY <2>4, <2>5, <2>6, <2>7, <2>8
<1>8. RegisterSum' + OutputSum' + LoopSum' <= memory'
    <2>1. OutputSum' = OutputSum /\ LoopSum' = LoopSum
        BY <1>1, SameSums
    <2>2. RegisterSum \in Nat /\ OutputSum \in Nat /\ LoopSum \in Nat /\ RegisterSum + OutputSum + LoopSum <= memory
        BY Sums
    <2>3. RegisterSum' + OutputSum + LoopSum <= memory + bytes
        BY <1>2, <1>7, <2>2, Grow
    <2>4. QED BY <1>2, <2>1, <2>3
<1>9. QED BY <1>1, <1>2, <1>4, <1>5, <1>6, <1>8, Held, Numbers, Keeps DEF GoesOn, Paying

\* one that fills an output slot,
LEMMA SentKeeps ==
    ASSUME Inv, NEW bytes \in Nat, Paying(bytes), Sent(bytes)
    PROVE  Inv'
<1>1. PICK s \in 1 .. OutputSlots, v \in Values :
        /\ GoesOn /\ regs' = regs /\ lent' = lent /\ loops' = loops
        /\ outputs' = [outputs EXCEPT ![s] = v]
        /\ LiveBytes(v) <= bytes
    BY DEF Sent
<1>2. memory \in Nat /\ memory' \in Nat /\ memory' = memory + bytes
    BY SMTT(60), Numbers DEF Paying
<1>3. outputs' \in [1 .. OutputSlots -> Values]
    BY <1>1, Held
<1>4. OutputSum' <= OutputSum + bytes /\ OutputSum' \in Nat
    <2> DEFINE f == [q \in 1 .. OutputSlots |-> LiveBytes(outputs[q])]
               h == [q \in 1 .. OutputSlots |-> LiveBytes(outputs'[q])]
    <2>1. IsFiniteSet(DOMAIN f) /\ DOMAIN f = 1 .. OutputSlots /\ DOMAIN h = DOMAIN f
        BY Numbers, UpTo
    <2>2. \A q \in DOMAIN f : f[q] \in Nat
        BY Held
    <2>3. \A q \in DOMAIN f \ {s} : h[q] = f[q]
        BY <1>1, Held
    <2>4. h[s] = LiveBytes(v) /\ h[s] \in Nat /\ h[s] <= bytes
        <3>1. outputs'[s] = v /\ LiveBytes(v) \in Nat
            BY <1>1, Held, CostType
        <3>2. QED BY <1>1, <3>1
    <2>5. OutputSum = SumOf(f) /\ OutputSum' = SumOf(h)
        BY DEF OutputSum
    <2>6. s \in DOMAIN f
        OBVIOUS
    <2> HIDE DEF f, h
    <2>7. SumOf(h) = SumOf(f) - f[s] + h[s]
        BY <2>1, <2>2, <2>3, <2>4, <2>6, SumExcept
    <2>8. SumOf(f) \in Nat /\ f[s] <= SumOf(f) /\ f[s] \in Nat
        BY <2>1, <2>2, <2>6, SumNat, SumAtLeast
    <2>9. QED BY <2>4, <2>5, <2>7, <2>8
<1>5. RegisterSum' + OutputSum' + LoopSum' <= memory'
    <2>1. RegisterSum' = RegisterSum /\ LoopSum' = LoopSum
        BY <1>1, SameSums
    <2>2. RegisterSum \in Nat /\ OutputSum \in Nat /\ LoopSum \in Nat /\ RegisterSum + OutputSum + LoopSum <= memory
        BY Sums
    <2>3. RegisterSum + OutputSum' + LoopSum <= memory + bytes
        BY <1>2, <1>4, <2>2, Grow
    <2>4. QED BY <1>2, <2>1, <2>3
<1>6. \A r \in Registers : LiveBytes(regs'[r]) <= memory'
    <2>1. \A r \in Registers : LiveBytes(regs[r]) <= memory /\ LiveBytes(regs[r]) \in Nat
        BY Held
    <2>2. QED BY <1>1, <1>2, <2>1
<1>7. QED BY <1>1, <1>2, <1>3, <1>5, <1>6, Held, Numbers, Keeps DEF GoesOn, Paying

\* A frame put on top of a stack of frames.
LEMMA OnTop ==
    ASSUME NEW below \in Seq(RangeFrames \cup IterFrames), NEW frame \in RangeFrames \cup IterFrames
    PROVE  /\ Append(below, frame) \in Seq(RangeFrames \cup IterFrames)
           /\ Len(Append(below, frame)) = Len(below) + 1 /\ Len(below) \in Nat
           /\ (Stands(frame) /\ \A k \in DOMAIN below : Stands(below[k])) =>
                \A k \in DOMAIN Append(below, frame) : Stands(Append(below, frame)[k])
           /\ SumOf([k \in DOMAIN Append(below, frame) |-> FrameBytes(Append(below, frame)[k])])
                = SumOf([k \in DOMAIN below |-> FrameBytes(below[k])]) + FrameBytes(frame)
           /\ SumOf([k \in DOMAIN below |-> FrameBytes(below[k])]) \in Nat
<1> DEFINE n == Len(below)
           all == Append(below, frame)
           f == [k \in DOMAIN below |-> FrameBytes(below[k])]
           h == [k \in DOMAIN all |-> FrameBytes(all[k])]
<1>1. n \in Nat /\ DOMAIN below = 1 .. n /\ \A k \in 1 .. n : below[k] \in RangeFrames \cup IterFrames
    OBVIOUS
<1>2. /\ all \in Seq(RangeFrames \cup IterFrames) /\ Len(all) = n + 1
      /\ \A k \in 1 .. n : all[k] = below[k]
      /\ all[n + 1] = frame
    BY AppendProperties
<1>3. DOMAIN all = 1 .. n + 1 /\ 1 .. n + 1 = (1 .. n) \cup {n + 1} /\ n + 1 \notin 1 .. n
    <2> HIDE DEF all
    <2>1. DOMAIN all = 1 .. Len(all)
        BY <1>2
    <2> HIDE DEF n
    <2>2. QED BY <1>1, <1>2, <2>1
<1> HIDE DEF all, n
<1>4. (Stands(frame) /\ \A k \in DOMAIN below : Stands(below[k])) => \A k \in DOMAIN all : Stands(all[k])
    BY <1>1, <1>2, <1>3
<1>5. DOMAIN f = 1 .. n /\ DOMAIN h = DOMAIN f \cup {n + 1} /\ n + 1 \notin DOMAIN f /\ IsFiniteSet(DOMAIN f)
    BY <1>1, <1>3, UpTo
<1>6. \A k \in DOMAIN f : f[k] \in Nat /\ h[k] = f[k]
    BY <1>1, <1>2, <1>3, FrameType
<1>7. h[n + 1] = FrameBytes(frame) /\ h[n + 1] \in Nat
    BY <1>2, <1>3, FrameType
<1>8. SumOf(f) \in Nat /\ SumOf(h) = SumOf(f) + FrameBytes(frame)
    <2> DEFINE top == n + 1
    <2> HIDE DEF f, h, top
    <2>1. /\ DOMAIN h = DOMAIN f \cup {top} /\ top \notin DOMAIN f /\ IsFiniteSet(DOMAIN f)
          /\ h[top] = FrameBytes(frame) /\ h[top] \in Nat
        BY <1>5, <1>7 DEF top
    <2>2. (\A k \in DOMAIN f : f[k] \in Nat) /\ (\A k \in DOMAIN f : h[k] = f[k])
        BY <1>6
    <2>3. SumOf(h) = SumOf(f) + h[top]
        BY <2>1, <2>2, SumExtend
    <2>4. QED BY <2>1, <2>2, <2>3, SumNat
<1>9. QED BY <1>1, <1>2, <1>4, <1>8 DEF all, n

\* one that enters a loop,
LEMMA EnteredKeeps ==
    ASSUME Inv, NEW bytes \in Nat, Paying(bytes), Entered(bytes)
    PROVE  Inv'
<1>1. PICK frame \in RangeFrames \cup IterFrames :
        /\ GoesOn /\ regs' = regs /\ lent' = lent /\ outputs' = outputs
        /\ Len(loops) < LoopLimit /\ loops' = Append(loops, frame)
        /\ Stands(frame) /\ FrameBytes(frame) <= bytes
    BY DEF Entered
<1>2. memory \in Nat /\ memory' \in Nat /\ memory' = memory + bytes
    BY SMTT(60), Numbers DEF Paying
<1>3. /\ loops' \in Seq(RangeFrames \cup IterFrames) /\ Len(loops') <= LoopLimit
      /\ \A k \in DOMAIN loops' : Stands(loops'[k])
    <2>1. loops \in Seq(RangeFrames \cup IterFrames) /\ \A k \in DOMAIN loops : Stands(loops[k])
        BY Held
    <2>2. Len(loops') = Len(loops) + 1 /\ Len(loops) \in Nat
        BY <1>1, <2>1, OnTop
    <2>3. Len(loops') <= LoopLimit
        BY <1>1, <2>2, Numbers
    <2>4. QED BY <1>1, <2>1, <2>3, OnTop
<1>4. LoopSum' <= LoopSum + bytes /\ LoopSum' \in Nat
    <2>1. LoopSum' = LoopSum + FrameBytes(frame)
        BY <1>1, Held, OnTop DEF LoopSum
    <2>2. LoopSum \in Nat /\ FrameBytes(frame) \in Nat /\ FrameBytes(frame) <= bytes
        BY <1>1, Sums, FrameType
    <2>3. QED BY <2>1, <2>2
<1>5. RegisterSum' + OutputSum' + LoopSum' <= memory'
    <2>1. RegisterSum' = RegisterSum /\ OutputSum' = OutputSum
        BY <1>1, SameSums
    <2>2. RegisterSum \in Nat /\ OutputSum \in Nat /\ LoopSum \in Nat /\ RegisterSum + OutputSum + LoopSum <= memory
        BY Sums
    <2>3. RegisterSum + OutputSum + LoopSum' <= memory + bytes
        BY <1>2, <1>4, <2>2, Grow
    <2>4. QED BY <1>2, <2>1, <2>3
<1>6. \A r \in Registers : LiveBytes(regs'[r]) <= memory'
    <2>1. \A r \in Registers : LiveBytes(regs[r]) <= memory /\ LiveBytes(regs[r]) \in Nat
        BY Held
    <2>2. QED BY <1>1, <1>2, <2>1
<1>7. QED BY <1>1, <1>2, <1>3, <1>5, <1>6, Held, Numbers, Keeps DEF GoesOn, Paying

\* A stack is its top on what lies below it.
LEMMA FrontAndTop ==
    ASSUME NEW S, NEW s \in Seq(S), s # <<>>
    PROVE  LET front == SubSeq(s, 1, Len(s) - 1)
           IN  /\ front \in Seq(S) /\ Len(front) = Len(s) - 1
               /\ s = Append(front, s[Len(s)]) /\ s[Len(s)] \in S
<1> DEFINE front == SubSeq(s, 1, Len(s) - 1)
<1>1. PICK t \in Seq(S), last \in S : s = Append(t, last)
    BY SequenceEmptyOrAppend
<1>2. Len(s) = Len(t) + 1 /\ s[Len(t) + 1] = last /\ Len(t) \in Nat /\ \A i \in 1 .. Len(t) : s[i] = t[i]
    BY <1>1, AppendProperties
<1>3. \A i \in 1 .. Len(s) - 1 : s[i] \in S
    BY <1>2
<1>4. front \in Seq(S) /\ Len(front) = Len(t) /\ \A i \in 1 .. Len(t) : front[i] = s[i]
    <2>1. /\ front \in Seq(S)
          /\ Len(front) = IF 1 <= Len(s) - 1 THEN Len(s) - 1 - 1 + 1 ELSE 0
          /\ \A i \in 1 .. Len(s) - 1 - 1 + 1 : front[i] = s[1 + i - 1]
        BY <1>2, <1>3, SubSeqProperties
    <2> HIDE DEF front
    <2>2. QED BY <1>2, <2>1
<1> HIDE DEF front
<1>5. front = t
    BY <1>2, <1>4, SeqEqual
<1>6. QED BY <1>1, <1>2, <1>4, <1>5 DEF front

\* and one that goes round a loop or leaves it.
LEMMA TurnedKeeps ==
    ASSUME Inv, Paying(0), Turned
    PROVE  Inv'
<1> DEFINE outer == SubSeq(loops, 1, Len(loops) - 1)
<1>1. /\ GoesOn /\ regs' = regs /\ lent' = lent /\ outputs' = outputs
      /\ loops # <<>> /\ memory' = memory
    BY Numbers DEF Turned, Paying
<1>2. loops \in Seq(RangeFrames \cup IterFrames) /\ Len(loops) \in Nat /\ Len(loops) > 0
    BY <1>1, Held, EmptySeq
<1>3. /\ outer \in Seq(RangeFrames \cup IterFrames) /\ Len(outer) = Len(loops) - 1
      /\ loops = Append(outer, Top) /\ Top \in RangeFrames \cup IterFrames
    BY <1>1, <1>2, FrontAndTop DEF Top
<1> HIDE DEF outer
<1>4. \A k \in DOMAIN outer : Stands(outer[k])
    <2>1. \A k \in DOMAIN loops : Stands(loops[k])
        BY Held
    <2>2. \A k \in DOMAIN outer : k \in DOMAIN loops /\ outer[k] = loops[k]
        BY <1>2, <1>3 DEF outer
    <2>3. QED BY <2>1, <2>2
<1> DEFINE rest == SumOf([k \in DOMAIN outer |-> FrameBytes(outer[k])])
<1>5. rest \in Nat /\ LoopSum = rest + FrameBytes(Top) /\ FrameBytes(Top) \in Nat
    BY <1>3, OnTop, FrameType DEF LoopSum
<1>6. /\ loops' \in Seq(RangeFrames \cup IterFrames) /\ Len(loops') <= LoopLimit
      /\ \A k \in DOMAIN loops' : Stands(loops'[k])
      /\ LoopSum' \in Nat /\ LoopSum' <= LoopSum + 0
    <2>1. CASE loops' = outer
        <3>1. LoopSum' = rest
            BY <2>1 DEF LoopSum
        <3> HIDE DEF rest
        <3>2. QED BY SMTT(60), <1>2, <1>3, <1>4, <1>5, <2>1, <3>1, Numbers
    <2>2. CASE \E frame \in RangeFrames \cup IterFrames :
                 loops' = Append(outer, frame) /\ Stands(frame) /\ FrameBytes(frame) = FrameBytes(Top)
        <3>1. PICK frame \in RangeFrames \cup IterFrames :
                 loops' = Append(outer, frame) /\ Stands(frame) /\ FrameBytes(frame) = FrameBytes(Top)
            BY <2>2
        <3>2. LoopSum' = rest + FrameBytes(frame)
            BY <1>3, <3>1, OnTop DEF LoopSum
        <3>3. Len(loops') = Len(outer) + 1
            BY <1>3, <3>1, OnTop
        <3>4. loops' \in Seq(RangeFrames \cup IterFrames) /\ \A k \in DOMAIN loops' : Stands(loops'[k])
            BY <1>3, <1>4, <3>1, OnTop
        <3> HIDE DEF rest
        <3>5. Len(loops') <= LoopLimit
            BY <1>2, <1>3, <3>3, Numbers
        <3>6. LoopSum' = LoopSum /\ LoopSum \in Nat
            BY <1>5, <3>1, <3>2
        <3>7. LoopSum' \in Nat /\ LoopSum' <= LoopSum + 0
            BY <3>6
        <3>8. QED BY <3>4, <3>5, <3>7
    <2>3. QED BY <2>1, <2>2 DEF Turned, outer
<1>7. memory \in Nat /\ memory' \in Nat
    BY <1>1, Numbers
<1>8. RegisterSum' + OutputSum' + LoopSum' <= memory'
    <2>1. RegisterSum' = RegisterSum /\ OutputSum' = OutputSum
        BY <1>1, SameSums
    <2>2. RegisterSum \in Nat /\ OutputSum \in Nat /\ LoopSum \in Nat /\ RegisterSum + OutputSum + LoopSum <= memory
        BY Sums
    <2>3. RegisterSum + OutputSum + LoopSum' <= memory + 0
        BY <1>6, <1>7, <2>2, Grow
    <2>4. QED BY <1>1, <1>7, <2>1, <2>3
<1>9. \A r \in Registers : LiveBytes(regs'[r]) <= memory'
    BY <1>1, Held
<1>10. QED BY <1>1, <1>6, <1>7, <1>8, <1>9, Held, Numbers, Keeps DEF GoesOn, Paying

-----------------------------------------------------------------------------
(* The theorems. *)

\* A fresh machine is well-formed.
LEMMA InitInv ==
    ASSUME Init
    PROVE  Inv
<1>1. MachineOK
    <2>1. Unset \in Values
        BY DEF Values
    <2>2. stack \in Seq(Int) /\ loops \in Seq(RangeFrames \cup IterFrames)
        BY EmptySeq DEF Init, MachineInit
    <2>3. QED BY <2>1, <2>2 DEF Init, MachineInit, MachineOK
<1>2. WithinBudgets
    BY XqvmAssumption, EmptySeq DEF Init, MachineInit, WithinBudgets
<1>3. FramesStandOnAnIteration
    BY DEF Init, MachineInit, FramesStandOnAnIteration
<1>4. LiveBytesAccounted
    <2> DEFINE f == [r \in Registers |-> IF r \in lent THEN 0 ELSE LiveBytes(regs[r])]
               g == [s \in DOMAIN outputs |-> LiveBytes(outputs[s])]
               h == [k \in DOMAIN loops |-> FrameBytes(loops[k])]
    <2>1. LiveBytes(Unset) = 0
        BY SmallValues
    <2>2. regs = [r \in Registers |-> Unset] /\ outputs = [s \in 1 .. OutputSlots |-> Unset]
          /\ memory = 0 /\ DOMAIN loops = {} /\ lent = {}
        BY EmptySeq DEF Init, MachineInit
    <2>3. /\ DOMAIN f = Registers /\ IsFiniteSet(DOMAIN f) /\ \A r \in DOMAIN f : f[r] = 0
          /\ DOMAIN g = 1 .. OutputSlots /\ \A s \in DOMAIN g : g[s] = 0
          /\ DOMAIN h = {}
        BY <2>1, <2>2, XqvmAssumption
    <2>4. IsFiniteSet(1 .. OutputSlots)
        BY XqvmAssumption, UpTo
    <2>5. \A r \in Registers : LiveBytes(regs[r]) <= memory
        BY <2>1, <2>2
    <2>6. ChargedTotal = SumOf(f) + SumOf(g) + SumOf(h)
        BY SumOverIs DEF ChargedTotal
    <2> HIDE DEF f, g, h
    <2>7. SumOf(f) = Cardinality(DOMAIN f) * 0 /\ Cardinality(DOMAIN f) \in Nat
        BY <2>3, SumConstant, FS_CardinalityType
    <2>8. SumOf(g) = Cardinality(DOMAIN g) * 0 /\ Cardinality(DOMAIN g) \in Nat
        BY <2>3, <2>4, SumConstant, FS_CardinalityType
    <2>9. SumOf(h) = 0
        <3>1. IsFiniteSet(DOMAIN h) /\ \A k \in DOMAIN h : h[k] \in Nat
            BY <2>3, FS_EmptySet
        <3>2. QED BY <2>3, <3>1, SumNat
    <2>10. SumOf(f) = 0 /\ SumOf(g) = 0
        BY <2>7, <2>8
    <2>11. QED BY <2>2, <2>5, <2>6, <2>9, <2>10 DEF LiveBytesAccounted
<1>5. QED BY <1>1, <1>2, <1>3, <1>4 DEF Inv

\* Running out of steps or of operands, and reaching the end, charge no bytes.
LEMMA EndsKeep ==
    ASSUME Inv, OutOfSteps \/ OutOfOperands \/ EndOfStream
    PROVE  Inv'
<1>1. memory' = memory /\ memory \in Nat /\ memory <= MemoryLimit /\ steps \in Nat /\ steps <= StepLimit
    BY Numbers DEF OutOfSteps, OutOfOperands, EndOfStream
<1>2. steps' \in Nat /\ steps' <= StepLimit
    BY SMTT(60), <1>1, Numbers DEF OutOfSteps, OutOfOperands, EndOfStream
<1>3. stack' \in Seq(Int) /\ Len(stack') <= StackLimit
    <2>1. stack' = stack \/ stack' = <<>>
        BY DEF OutOfSteps, OutOfOperands, EndOfStream
    <2>2. stack \in Seq(Int) /\ Len(stack) <= StackLimit /\ StackLimit \in Nat
        BY Numbers
    <2>3. <<>> \in Seq(Int) /\ Len(<<>>) = 0
        BY EmptySeq
    <2>4. CASE stack' = stack
        BY <2>2, <2>4
    <2>5. CASE stack' = <<>>
        BY <2>2, <2>3, <2>5
    <2>6. QED BY <2>1, <2>4, <2>5
<1>4. program' = program /\ pc' = pc /\ regs' = regs /\ lent' = lent /\ loops' = loops /\ outputs' = outputs
    BY DEF OutOfSteps, OutOfOperands, EndOfStream, file
<1>5. Faulted
    BY <1>1, <1>2, <1>3, <1>4 DEF Faulted
<1>6. QED BY <1>5, FaultedKeeps

\* Every instruction keeps the machine well-formed.
LEMMA NextInv ==
    ASSUME Inv, Next
    PROVE  Inv'
<1>1. ASSUME Stopped
      PROVE  Inv'
    BY <1>1, FaultedKeeps, MovedKeeps DEF Stopped
<1>2. ASSUME Faulted \/ \E bytes \in Nat : Paying(bytes) /\ Wrote(bytes)
      PROVE  Inv'
    BY <1>2, FaultedKeeps, WroteKeeps
<1>3. ASSUME NEW bytes \in Nat, Paying(bytes), Wrote(bytes)
      PROVE  Inv'
    BY <1>3, WroteKeeps
<1>4. CASE OutOfSteps \/ OutOfOperands \/ EndOfStream
    BY <1>4, EndsKeep
<1>5. CASE Nop \/ Halt \/ Jump \/ JumpIf \/ PushImmediate \/ Pop \/ ClearStack \/ Swap \/ Copy \/ Arithmetic
           \/ Load \/ VecGet \/ VecLen \/ GetLine
    BY <1>1, <1>5, NopStep, HaltStep, JumpStep, JumpIfStep, PushImmediateStep, PopStep, ClearStackStep,
       SwapStep, CopyStep, ArithmeticStep, LoadStep, VecGetStep, VecLenStep, GetLineStep
<1>6. CASE Stow \/ DropRegister \/ NewVec \/ VecSet
    BY <1>3, <1>6, FaultedKeeps, StowStep, DropRegisterStep, NewVecStep, VecSetStep
<1>7. CASE Input \/ VecPush \/ Allocate \/ WriteLine
    BY <1>2, <1>7, InputStep, VecPushStep, AllocateStep, WriteLineStep
<1>8. CASE LoopIndex \/ LoopValue
    BY <1>1, <1>3, <1>8, LoopIndexStep, LoopValueStep
<1>9. CASE Output
    BY <1>9, OutputStep, FaultedKeeps, SentKeeps
<1>10. CASE OpenRange \/ OpenIter
    BY <1>1, <1>10, OpenRangeStep, OpenIterStep, EnteredKeeps
<1>11. CASE EndOfBody
    BY <1>1, <1>11, EndOfBodyStep, TurnedKeeps
<1>12. QED BY <1>4, <1>5, <1>6, <1>7, <1>8, <1>9, <1>10, <1>11 DEF Next

\* The machine's registers, stack, loop frames and outputs keep their shapes
\* (`Vm` of vm.rs), and with them every part of the invariant.
THEOREM MachineStaysWellFormed == Spec => []Inv
<1>1. Init => Inv
    BY InitInv
<1>2. Inv /\ [Next]_machineVars => Inv'
    <2> SUFFICES ASSUME Inv, [Next]_machineVars PROVE Inv'
        OBVIOUS
    <2>1. CASE Next
        BY <2>1, NextInv
    <2>2. CASE UNCHANGED machineVars
        <3>1. Faulted
            BY <2>2, Numbers DEF machineVars, file, Faulted
        <3>2. QED BY <3>1, FaultedKeeps
    <2>3. QED BY <2>1, <2>2
<1>3. QED BY <1>1, <1>2, PTL DEF Spec

\* No run exceeds a limit it was given: steps, bytes, stack and loop depth
\* (the charge sites of vm.rs, `skip_to_matching_next` included).
THEOREM BudgetsHold == Spec => []WithinBudgets
<1>1. Inv => WithinBudgets
    BY DEF Inv
<1>2. QED BY <1>1, MachineStaysWellFormed, PTL

\* A frame on the loop stack stands on an iteration still to be run
\* (`exec_next`, `exec_range`, `exec_iter`).
THEOREM FramesStand == Spec => []FramesStandOnAnIteration
<1>1. Inv => FramesStandOnAnIteration
    BY DEF Inv
<1>2. QED BY <1>1, MachineStaysWellFormed, PTL

\* Everything live was charged for, but for the models LVAL copies, and none
\* of those is larger than what was charged in all (`charge` and its callers).
THEOREM LiveIsCharged == Spec => []LiveBytesAccounted
<1>1. Inv => LiveBytesAccounted
    BY DEF Inv
<1>2. QED BY <1>1, MachineStaysWellFormed, PTL
=============================================================================
