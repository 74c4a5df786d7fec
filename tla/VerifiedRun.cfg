SPECIFICATION VerifiedSpec
CONSTANTS
  Programs <- MCPrograms
  Registers <- MCRegisters
  Calldata <- SetCalldata
  OutputSlots = 0
  StackLimit = 9
  LoopLimit = 4
  StepLimit = 30
  MemoryLimit = 100
  MaxInt = 100
INVARIANTS
  NoControlFault
  NoRegisterFault
  NoUnderflow
CHECK_DEADLOCK FALSE
