------------------------------- MODULE MCXqvm -------------------------------
(***************************************************************************)
(* Programs for model checking the interpreter: short sequences of phrases,*)
(* a phrase being an instruction with the pushes it consumes.              *)
(***************************************************************************)
EXTENDS Xqvm, TLC

Op(op) == Instr(op, <<>>, 0)
On(op, r) == Instr(op, <<r>>, 0)
PushOf(n) == Instr("PUSH", <<>>, n)
JumpTo(op, label) == Instr(op, <<>>, label)

Operands ==
  {<<PushOf(-1)>>, <<PushOf(2)>>, <<Op("POP")>>, <<Op("COPY")>>,
   <<Op("SWAP")>>, <<Op("SCLR")>>, <<Op("SUB")>>, <<Op("INC")>>,
   <<On("LOAD", 0)>>, <<On("STOW", 0)>>}

Effects ==
  {<<PushOf(0), On("INPUT", 0)>>, <<PushOf(1), On("INPUT", 0)>>,
   <<PushOf(3), On("INPUT", 0)>>, <<PushOf(0), On("OUTPUT", 0)>>,
   <<PushOf(1), On("OUTPUT", 0)>>, <<PushOf(-1), On("BQMX", 0)>>,
   <<On("DROP", 0)>>, <<On("VECX", 0)>>, <<On("VECI", 0)>>, <<PushOf(2), On("VECPUSH", 0)>>,
   <<PushOf(0), On("VECGET", 0)>>, <<On("VECLEN", 0)>>,
   <<PushOf(1), PushOf(2), On("VECSET", 0)>>,
   <<PushOf(1), On("BQMX", 0)>>, <<PushOf(2), On("BSMX", 0)>>,
   <<PushOf(0), PushOf(1), On("SETLINE", 0)>>,
   <<PushOf(0), PushOf(1), On("ADDLINE", 0)>>,
   <<PushOf(0), On("GETLINE", 0)>>}

Control ==
  {<<Op("NOP")>>, <<Op("HALT")>>, <<Op("TARGET")>>, <<JumpTo("JUMP", 0)>>,
   <<PushOf(1), JumpTo("JUMPI", 0)>>}

Looping ==
  {<<PushOf(2), PushOf(1), Op("RANGE")>>, <<PushOf(2), PushOf(2), Op("RANGE")>>,
   <<PushOf(0), PushOf(0), Op("RANGE")>>, <<PushOf(0), PushOf(2), On("ITER", 0)>>,
   <<PushOf(1), PushOf(3), On("ITER", 0)>>,
   <<On("LIDX", 1)>>, <<On("LVAL", 1)>>, <<Op("NEXT")>>}

Concat(phrases) ==
  LET upto[k \in 0 .. Len(phrases)] ==
        IF k = 0 THEN <<>> ELSE upto[k - 1] \o phrases[k]
  IN  upto[Len(phrases)]

Sentences(phrases, n) == {Concat(s) : s \in [1 .. n -> phrases]}

\* A loop over a vector just read, its body free, jumps and output included.
LoopPrograms ==
  {<<PushOf(1), On("INPUT", 0)>> \o s :
     s \in Sentences(Looping \cup {<<Op("TARGET")>>, <<JumpTo("JUMP", 0)>>,
                                   <<PushOf(0), On("OUTPUT", 0)>>,
                                   <<On("DROP", 0)>>}, 4)}

\* A loop over a vector of models: what LVAL copies is kept, changed, copied on.
ModelPrograms ==
  {<<PushOf(2), On("INPUT", 0), PushOf(0), PushOf(2), On("ITER", 0)>> \o s :
     s \in Sentences({<<On("LVAL", 0)>>, <<On("LVAL", 1)>>, <<On("LIDX", 1)>>, <<Op("NEXT")>>,
                      <<Op("TARGET")>>, <<JumpTo("JUMP", 0)>>,
                      <<PushOf(0), On("OUTPUT", 1)>>, <<On("DROP", 0)>>, <<On("VECLEN", 0)>>,
                      <<PushOf(0), PushOf(1), On("ADDLINE", 1)>>}, 4)}

\* Any two phrases, from a fresh machine or from one that holds something.
Setups ==
  {<<>>, <<PushOf(0), On("INPUT", 0)>>, <<PushOf(2), On("BSMX", 0)>>,
   <<On("VECI", 0), PushOf(2), On("VECPUSH", 0)>>, <<PushOf(1), PushOf(2)>>}

ShortPrograms ==
  {setup \o s : setup \in Setups,
                s \in Sentences(Operands \cup Effects \cup Control \cup Looping, 2)}

MCPrograms == LoopPrograms \cup ModelPrograms \cup ShortPrograms

MCRegisters == {0, 1}

MCCalldata ==
  LET full == [ModelVal(1) EXCEPT !.linear[0] = 2]
  IN  <<full, VecIntVal(<<1, 3>>), VecXqmxVal(<<ModelVal(1), full>>)>>
=============================================================================
