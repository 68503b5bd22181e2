SPECIFICATION FairSpec
CONSTANTS
    MAX_OPEN_RETRIES = 2
    MaxLines = 3
    MaxShutdowns = 1
    ReplyCap = 1
INVARIANTS TypeOK
PROPERTIES ImplementsPeer HandshakeEnds SessionEnds ServerForgets
CHECK_DEADLOCK FALSE
