SPECIFICATION FairSpec
CONSTANTS
  Programs <- MCPrograms
  Registers <- MCRegisters
  Calldata <- MCCalldata
  OutputSlots = 1
  StackLimit = 3
  LoopLimit = 2
  StepLimit = 32
  MemoryLimit = 100
  MaxInt = 3
INVARIANTS
  WithinBudgets
  FramesStandOnAnIteration
  LiveBytesAccounted
PROPERTIES
  Halts
CHECK_DEADLOCK FALSE
