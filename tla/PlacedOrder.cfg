SPECIFICATION Spec
CONSTANTS
    None = None
    MaxSteps = 24
    MaxI32 = 10
    MaxI64 = 40
    MaxSets = 2
    Cases <- MCCases
    Registered <- MCRegistered
INVARIANTS
    JobFollowsTheOptions
    EncodingKeepsEnergy
    FloorsMeanWhatTheySay
    AcceptedIsTaken
    PickIsPaidFor
    PayoutsSplitTheReward
CHECK_DEADLOCK FALSE
