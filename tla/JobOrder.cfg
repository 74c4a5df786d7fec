SPECIFICATION Spec
CONSTANTS
    Orders = {o1, o2}
    Foreign = Foreign
    None = None
    Window = 2
    NodeLag = 0
    BestLead = 1
    MaxBlock = 2
    MaxNonce = 1
    InterruptPoints <- BlockingPlaces
SYMMETRY Symmetric
INVARIANTS
    TypeOK
    PlacesOnce
    SafetyInv
CHECK_DEADLOCK FALSE
