SPECIFICATION Spec
CONSTANTS
    c1 = c1
    c2 = c2
    c3 = c3
    f1 = f1
    f2 = f2
    f3 = f3
    NULL = NULL
    Client = {c1, c2, c3}
    Fd = {f1, f2, f3}
    POLLFD_INIT_N = 2
    MAX_CAPACITY = 8
    MaxRequests = 2
SYMMETRY Symmetry
INVARIANTS TypeOK InBounds ListIntact SlotsNameListed SearchesFind WalkSafe
PROPERTIES ImplementsSets
CHECK_DEADLOCK FALSE
