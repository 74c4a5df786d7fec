SPECIFICATION FairSpec
CONSTANTS
  Jobs <- LoopJobs
  Top <- JobTop
  Boundary <- JobBoundary
  Meet <- JobMeet
  Transfer <- JobTransfer
  Registers <- MCRegisters
  StackLimit = 3
PROPERTY
  Converges
CHECK_DEADLOCK FALSE
