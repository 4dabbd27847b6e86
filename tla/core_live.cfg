\* One cpu, three workers of one priority; interrupts may land between the two
\* ICR writes.  The system under fairness.
SPECIFICATION FairSpec
CONSTANTS
    c0 = c0  c1 = c1  i0 = i0  i1 = i1  a = a  b = b  d = d  s0 = s0  s1 = s1
    Null = Null
    Threads = {i0, a, b, d}
    Idle = {i0}
    Cpus = {c0}
    Sems = {s0}
    NUMBER_PRIORITIES = 2
    exec_cpu <- UniCpu
    priority <- WorkersFirst
    boot_ready <- UniBoot
    InitCount <- ZeroCount
    MaxCount = 1
    Reschedulers = {a}
    SelfIpiLag = FALSE
    IcrPreemptible = TRUE
PROPERTIES
    SignalledRuns
    LocksAreFreed
