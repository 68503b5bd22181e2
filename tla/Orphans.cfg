SPECIFICATION Spec
CONSTANTS
    Addr = {a1}
    Worker = {w1}
    Main = Main
    None = None
    Junk = Junk
    Instance <- OneCanvas
    INITIAL_CAPACITY = 1
    MAX_CLIENTS = 1
    Span = 16
INVARIANTS MarkDeadDestroysAll
CHECK_DEADLOCK FALSE
