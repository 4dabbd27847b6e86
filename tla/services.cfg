\* One part of the system in each behaviour; see MCServices.
SPECIFICATION ServicesSpec
CONSTANTS
    Nil = Nil
    None = None
    HEAP_START = 1
    HEAP_SIZE = 25
    HEADER = 2
    WORD = 2
    NODE_SIZE = 3
    PAGE_SIZE = 2
    LastAddress = 11
    Requests <- FiveAreas
    OtherSizes = {1}
CHECK_DEADLOCK FALSE
INVARIANTS
    HeapIsSound
    FindIsExact
    StorageIsOwn
    CallIsRight
PROPERTIES
    KeepsPromise
