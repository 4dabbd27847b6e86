\* As machine: pages for the stacks of two processors.
SPECIFICATION MachineSpec
CONSTANTS
    t1 = t1  t2 = t2  b = b  x = x
    Threads = {t1, t2}
    BitsPerByte = 2
    BitsPerWord = 4
    MaxBlocks = 15
    TopBlock = 16
    Mark = 4
    BootCalls <- Kernel
    Callers = {b, x}
    Bsp = b
    Frames = {1, 2, 3, 4, 5, 6, 7}
    PER_TABLE = 4
    Self = 2
    Foreign = 3
    KERNEL_END = 3
    PAGE_SIZE = 2
    InitialTables <- TwoKernelPages
    KernelPages = {0, 1}
    MaxPage = 6
    processor_count = 2
    SCREEN_WIDTH = 2
    SCREEN_HEIGHT = 4
    MessageLength = 1
    TimeLength = 1
    Blank = Blank
    Text = Text
    StartTimes <- BoundaryTimes
    Formats <- AllFormats
    MSEC_PER_TICK = 500
    MaxUpdates = 2
    MaxTicks = 4
CHECK_DEADLOCK FALSE
INVARIANTS
    StackHasOneOwner
