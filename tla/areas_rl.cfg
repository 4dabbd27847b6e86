\* As services.cfg; the last case of avl_remove is reached.
SPECIFICATION ServicesSpec
CONSTANTS
    Nil = Nil
    None = None
    HEAP_START = 1
    HEAP_SIZE = 25
    HEADER = 2
    WORD = 2
    NODE_SIZE = 3
    PAGE_SIZE = 2
    LastAddress = 11
    Requests <- FiveAreas
    OtherSizes = {1}
CHECK_DEADLOCK FALSE
INVARIANTS
    RemovalIsSafe
