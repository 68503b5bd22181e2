CONSTANTS
    p1 = p1 p2 = p2 a1 = a1 a2 = a2 w1 = w1 w2 = w2
    None = None
    Pid = {p1, p2}
    Addr = {a1}
    Worker = {w1}
    MaxSend = 3
    Commands = {"AUTHORISE", "RPC", "BARRIER", "UNKNOWN", "DISCONNECT"}
    HskCap = 1
    RpcCap = 1
    ReplyCap = 1
    HSK_MAX_PER_WAKE = 1
    RPC_MAX_PER_WAKE = 1
    FIFO_MAX_PER_WAKE = 2
    AllocMayFail = TRUE
    OwnClients = TRUE
    Patient = FALSE
SPECIFICATION Spec
SYMMETRY Symmetry
INVARIANTS ServerInv RepliesToIssuer
CHECK_DEADLOCK FALSE
