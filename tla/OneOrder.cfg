SPECIFICATION FairSpec
CONSTANTS
    Orders = {o1}
    Foreign = Foreign
    None = None
    Window = 3
    NodeLag = 1
    BestLead = 2
    MaxBlock = 4
    MaxNonce = 1
    InterruptPoints <- BlockingPlaces
INVARIANTS
    DraftIsDead
    SendingKeepsBytes
    VerdictIsFinal
PROPERTIES
    PlacesOncePromise
    CallsReturn
    SendingResolves
CHECK_DEADLOCK FALSE
