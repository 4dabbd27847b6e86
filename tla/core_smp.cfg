\* Two cpus: workers a and b share cpu c0, worker d runs on c1; one semaphore.
SPECIFICATION Spec
CONSTANTS
    c0 = c0  c1 = c1  i0 = i0  i1 = i1  a = a  b = b  d = d  s0 = s0  s1 = s1
    Null = Null
    Threads = {i0, i1, a, b, d}
    Idle = {i0, i1}
    Cpus = {c0, c1}
    Sems = {s0}
    NUMBER_PRIORITIES = 2
    exec_cpu <- SmpCpu
    priority <- WorkersFirst
    boot_ready <- SmpBoot
    InitCount <- OneCount
    MaxCount = 1
    Reschedulers = {d}
    SelfIpiLag = FALSE
    IcrPreemptible = FALSE
INVARIANTS
    TypeOK
    ThreadInOnePlace
    SemLockHasOneHolder
    MailboxHasOneUser
    NoLostWakeup
    WaitersCalledWait
    SchedulerFindsThread
    HighestPriorityRuns
PROPERTIES
    QueuesChangeWithDispatch
    KeepsPromise
