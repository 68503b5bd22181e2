CONSTANTS
    p1 = p1 p2 = p2 a1 = a1 a2 = a2 w1 = w1 w2 = w2
    None = None
    Pid = {p1, p2}
    Addr = {a1, a2}
    Worker = {w1, w2}
    MaxSend = 3
    Commands = {"AUTHORISE", "RPC", "DISCONNECT"}
    HskCap = 2
    RpcCap = 2
    ReplyCap = 1
    HSK_MAX_PER_WAKE = 1
    RPC_MAX_PER_WAKE = 1
    FIFO_MAX_PER_WAKE = 2
    AllocMayFail = FALSE
    OwnClients = TRUE
    Patient = TRUE
SPECIFICATION Spec
SYMMETRY Symmetry
INVARIANTS NoFaults
CHECK_DEADLOCK FALSE
