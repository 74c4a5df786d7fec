SPECIFICATION VerifiedSpec
CONSTANTS
  Programs <- DeadBlocks
  Registers <- MCRegisters
  Calldata <- NoCalldata
  OutputSlots = 0
  StackLimit = 9
  LoopLimit = 4
  StepLimit = 30
  MemoryLimit = 100
  MaxInt = 100
INVARIANT
  NoUnsetRead
CHECK_DEADLOCK FALSE
