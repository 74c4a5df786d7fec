----------------------------- MODULE Submission -----------------------------
(***************************************************************************)
(* What the verifier and the interpreter are both handed: a program.       *)
(***************************************************************************)
EXTENDS Bytecode, Machine

CONSTANT Programs     \* the programs submitted

VARIABLE program      \* the one submitted
=============================================================================
