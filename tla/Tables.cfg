SPECIFICATION Spec
CONSTANTS
    Addr = {a1, a2}
    Worker = {w1, w2}
    Main = Main
    None = None
    Junk = Junk
    Instance <- SmallInstances
    INITIAL_CAPACITY = 1
    MAX_CLIENTS = 1
    Span = 16
SYMMETRY Symmetry
INVARIANTS NothingLeaks IdsNameOne OnlyLateObjectsStay
           FaultsAreRaces
PROPERTIES RemovalSparesOthers
CHECK_DEADLOCK FALSE
