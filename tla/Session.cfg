SPECIFICATION Spec
CONSTANTS
    Deadline = 5
    BlockWait = 2
    Lag = 2
    MaxHeight = 8
    MaxPending = 2
    Reward = 3
    Fee = 1
    Drip = 2
    MaxBalance = 4
    MaxSubmits = 2
INVARIANTS
    FinalSeenIsFinal
    ReclaimIsHonest
    UnansweredIsTrue
    MoneyNeedsConsent
PROPERTIES
    StatusNeverReopens
    WaitReturns
CHECK_DEADLOCK FALSE
