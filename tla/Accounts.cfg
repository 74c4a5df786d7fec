SPECIFICATION Spec
CONSTANTS
    None = None
    Procs = {p1, p2, p3}
    Walk <- MCWalk
    Home = "home"
    Untrusted = {"planted"}
    Names = {"default", "ann"}
    Requests <- MCRequests
    HandEdits <- MCHandEdits
    Leftovers <- MCLeftovers
    MaxCalls = 3
    MaxMishaps = 1
SYMMETRY Symmetry
INVARIANTS
    NoAccountIsLost
    SeedsStayOutOfCommits
    SignsAsPreferred
CHECK_DEADLOCK FALSE
