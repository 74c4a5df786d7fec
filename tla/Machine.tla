------------------------------- MODULE Machine -------------------------------
(***************************************************************************)
(* The sizes of the machine that a verifier is told of as well.            *)
(***************************************************************************)
CONSTANTS
  Registers,   \* the register file's slots
  StackLimit   \* the deepest stack the VM allows
=============================================================================
