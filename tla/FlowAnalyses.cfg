SPECIFICATION FairSpec
CONSTANTS
  Jobs <- MCJobs
  Top <- JobTop
  Boundary <- JobBoundary
  Meet <- JobMeet
  Transfer <- JobTransfer
  Registers <- MCRegisters
  StackLimit = 3
INVARIANTS
  QueueOK
  FixedPoint
  MustInitIsSound
  TypesAreSound
  DepthsAreExact
PROPERTY
  Converges
CHECK_DEADLOCK FALSE
