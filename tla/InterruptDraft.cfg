SPECIFICATION Spec
CONSTANTS
    Orders = {o1}
    Foreign = Foreign
    None = None
    Window = 2
    NodeLag = 0
    BestLead = 1
    MaxBlock = 2
    MaxNonce = 1
    InterruptPoints <- AnyPlace
INVARIANT DraftIsDead
CHECK_DEADLOCK FALSE
