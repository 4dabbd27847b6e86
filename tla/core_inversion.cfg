\* As core_smp, but a thread of cpu c0 outranks the other.
SPECIFICATION FairSpec
CONSTANTS
    c0 = c0  c1 = c1  i0 = i0  i1 = i1  a = a  b = b  d = d  s0 = s0  s1 = s1
    Null = Null
    Threads = {i0, i1, a, b, d}
    Idle = {i0, i1}
    Cpus = {c0, c1}
    Sems = {s0}
    NUMBER_PRIORITIES = 3
    exec_cpu <- SmpCpu
    priority <- BelowFirst
    boot_ready <- InversionBoot
    InitCount <- ZeroCount
    MaxCount = 1
    Reschedulers = {}
    SelfIpiLag = FALSE
    IcrPreemptible = FALSE
PROPERTIES
    LocksAreFreed
