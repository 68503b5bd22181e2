CONSTANTS
    w1 = w1 w2 = w2 w3 = w3 t1 = t1 t2 = t2 t3 = t3
    None = None
    Main = Main
    Worker = {w1, w2}
    Task = {t1}
    CreateMayFail = TRUE
SPECIFICATION FairSpec
PROPERTIES StartupReaps
CHECK_DEADLOCK FALSE
