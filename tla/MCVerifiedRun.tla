---------------------------- MODULE MCVerifiedRun ----------------------------
(***************************************************************************)
(* Programs for model checking the verifier together with the interpreter. *)
(***************************************************************************)
EXTENDS VerifiedRun, TLC

Op(op) == Instr(op, <<>>, 0)
On(op, r) == Instr(op, <<r>>, 0)
PushOf(n) == Instr("PUSH", <<>>, n)
JumpTo(op, label) == Instr(op, <<>>, label)

\* Register 1 is the spare one.
MCRegisters == {0, 1}

Opener == <<PushOf(1), PushOf(2), Op("RANGE")>>
SliceOpener == <<PushOf(0), PushOf(1), On("ITER", 0)>>
Branch == <<PushOf(1), JumpTo("JUMPI", 0)>>

Straight ==
  {<<PushOf(0)>>, <<Op("POP")>>, <<Op("SCLR")>>, <<PushOf(1), On("STOW", 0)>>,
   <<On("LOAD", 0), Op("POP")>>, <<On("DROP", 0)>>, <<On("VECI", 0)>>,
   <<On("VECLEN", 0), Op("POP")>>, <<PushOf(0), On("INPUT", 0)>>}

Phrases ==
  Straight \cup {Opener, <<Op("NEXT")>>, <<On("LIDX", 0)>>, <<On("LVAL", 0)>>, Branch,
                 <<JumpTo("JUMP", 0)>>, <<Op("TARGET")>>, <<Op("HALT")>>}

Concat(phrases) ==
  LET upto[k \in 0 .. Len(phrases)] ==
        IF k = 0 THEN <<>> ELSE upto[k - 1] \o phrases[k]
  IN  upto[Len(phrases)]

ShortPrograms == {Concat(s) : s \in [1 .. 2 -> Phrases]}

\* A loop, a forward branch and a backward branch with phrases around them,
\* and a branch inside a loop.
LoopPrograms ==
  {Concat(<<a, opener, b, <<Op("NEXT")>>, c>>) :
     a \in Straight, b \in Phrases, c \in Phrases,
     opener \in {Opener, SliceOpener}}

BranchPrograms ==
  {Concat(<<a, Branch, b, <<Op("TARGET")>>, c>>) :
     a \in Straight, b \in Phrases, c \in Phrases}

RepeatPrograms ==
  {Concat(<<a, <<Op("TARGET")>>, b, Branch, c>>) :
     a \in Straight, b \in Phrases, c \in Phrases}

NestedPrograms ==
  {Concat(<<Opener, a, Branch, b, <<Op("TARGET")>>, c, <<Op("NEXT")>>, d>>) :
     a \in Straight, b \in Straight, c \in Straight,
     d \in {<<Op("HALT")>>, <<On("LOAD", 0)>>}}

MCPrograms ==
  ShortPrograms \cup LoopPrograms \cup BranchPrograms \cup RepeatPrograms
    \cup NestedPrograms

\* Programs with a block no path reaches and another HALT after it.
DeadBlocks ==
  {Concat(<<<<JumpTo("JUMP", 0)>>, a, <<Op("HALT"), Op("TARGET")>>,
            <<JumpTo("JUMP", 1), Op("TARGET")>>, b, <<Op("HALT")>>>>) :
     a \in Straight, b \in Straight}

NoCalldata == <<>>
SetCalldata == <<IntVal(1)>>
=============================================================================
