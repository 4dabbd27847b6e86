-------------------------------- MODULE Boot --------------------------------
(***************************************************************************)
(* How the processors are started, from kernel.c:232 until the timer       *)
(* preempts threads:                                                       *)
(*   kernel.c, processor_startup.c, ap_boot.fasm   one processor at a time *)
(*   process/process.c, ipc/mailbox.c              tables, slots           *)
(*   clock/clock.c                                 the clock tasks meet    *)
(*                                                                         *)
(* Processor 0 boots the others and sets up the tables; then every         *)
(* processor builds its clock task and its idle thread and starts its      *)
(* scheduler, all at the same time.  Until the last clock task runs, the   *)
(* timer interrupt only counts (lapic_timer_callback), so a processor is   *)
(* one sequence of steps.  What holds in the end is what KernelCore starts *)
(* from.  The pages that alloc_perm maps for stacks and tables are left    *)
(* out: no step here depends on them.                                      *)
(***************************************************************************)
EXTENDS Integers, Sequences

CONSTANTS
    processor_count,   \* the processors ACPI lists
    Enabled,           \* those whose enabled flag is set
    MaxSlots,          \* MAX_THREAD_SLOTS, 65535
    Null               \* a null pointer, or a variable not yet written

Cpus == 0 .. processor_count - 1
BSP == 0
Slots == 0 .. MaxSlots - 1
MailboxIds == 0 .. 2 * processor_count - 1   \* of the processors, then of clock tasks

ASSUME ProcessorAssumption ==
    /\ processor_count \in Nat
    /\ Enabled \subseteq Cpus /\ BSP \in Enabled
    /\ MaxSlots \in Nat /\ MaxSlots >= 2 * processor_count
ASSUME NullAssumption == Null \notin Int

VARIABLES
    pc,              \* pc[c]: the next step of processor c
    lock,            \* the spinlocks: ready, process_ready, ts_lock and lock
    args,            \* the words at 0x800C and 0x800E that ap_boot.fasm reads
    segment, stack,  \* ss and boot stack of c, as the processor they belong to
    next_ap,         \* the local i of startup_all_AP
    tables,          \* what kernel_entry has created
    making,          \* making[c]: the thread c is about to create
    scan,            \* scan[c]: the local i of thread_create
    used, tcb,       \* thread_slots: is a slot claimed, and for which thread
    slot,            \* slot[c][role]: what thread_create returned
    mailbox,         \* mailbox_slots[m].owner
    current_thread, ready,   \* thread_sched_t of each processor
    clk_entered,     \* clock.c:73
    register,        \* register[c]: the value that clk_entered++ read
    timer_isr        \* isr_handlers[64]: does it "count" or "preempt"?

boot_vars == <<args, segment, stack, next_ap, tables>>
slot_vars == <<making, scan, used, tcb, slot>>
sched_vars == <<mailbox, current_thread, ready>>
clock_vars == <<clk_entered, register, timer_isr>>
vars == <<pc, lock, boot_vars, slot_vars, sched_vars, clock_vars>>

Locks == {"ready", "process_ready", "ts_lock", "print"}
Roles == {"clock", "idle"}
priority == [role \in Roles |-> IF role = "clock" THEN 0 ELSE 5]
Priorities == 0 .. 7
NoThread == [cpu |-> Null, role |-> Null]

BootSteps == {"start", "hold_ready", "next", "write_ss", "write_stack", "sipi",
              "await_ap", "process_init", "mailbox_init", "process_create", "publish"}
TrampolineSteps == {"off", "read_stack", "read_ss", "calibrate", "give_ready"}
SetupSteps == {"setup_cpu", "ts_acquire", "ts_test", "ts_mark", "ts_fields",
               "add_ready", "current_start"}
ClockSteps == {"print_acquire", "print_release", "count_load", "count_store",
               "await_all", "register", "loop", "loop_release"}
Steps == BootSteps \cup TrampolineSteps \cup {"final_acquire", "final_release"}
            \cup SetupSteps \cup ClockSteps

Init ==
    /\ pc = [c \in Enabled |-> IF c = BSP THEN "start" ELSE "off"]
    /\ lock = [l \in Locks |-> FALSE]
    /\ args = [ss |-> Null, stack |-> Null]
    /\ segment = [c \in Enabled |-> IF c = BSP THEN BSP ELSE Null]
    /\ stack = [c \in Enabled |-> IF c = BSP THEN BSP ELSE Null]
    /\ next_ap = 0
    /\ tables = {}
    /\ making = [c \in Enabled |-> "clock"]
    /\ scan = [c \in Enabled |-> 0]
    /\ used \in {[s \in Slots |-> b] : b \in BOOLEAN}
    /\ tcb = [s \in Slots |-> NoThread]
    /\ slot = [c \in Enabled |-> [role \in Roles |-> Null]]
    /\ mailbox \in {[m \in MailboxIds |-> owner] : owner \in {Null, BSP}}
    /\ current_thread = [c \in Enabled |-> Null]
    /\ ready = [c \in Enabled |-> [p \in Priorities |-> <<>>]]
    /\ clk_entered = 0
    /\ register = [c \in Enabled |-> 0]
    /\ timer_isr = "count"

Goto(c, from, to) == pc[c] = from /\ pc' = [pc EXCEPT ![c] = to]

\* Faulty variant: nobody waits for the lock.
AcquireAnyway(c, l, from, to) ==
    /\ Goto(c, from, to)
    /\ lock' = [lock EXCEPT ![l] = TRUE]
    /\ UNCHANGED <<boot_vars, slot_vars, sched_vars, clock_vars>>

Acquire(c, l, from, to) ==
    /\ Goto(c, from, to)
    /\ ~lock[l]
    /\ lock' = [lock EXCEPT ![l] = TRUE]
    /\ UNCHANGED <<boot_vars, slot_vars, sched_vars, clock_vars>>

\* Any processor may release a lock, whoever acquired it.
Release(c, l, from, to) ==
    /\ Goto(c, from, to)
    /\ lock' = [lock EXCEPT ![l] = FALSE]
    /\ UNCHANGED <<boot_vars, slot_vars, sched_vars, clock_vars>>

-----------------------------------------------------------------------------
(* Processor 0: kernel_entry and startup_all_AP.                           *)

\* Faulty variant: the loop of startup_all_AP goes one too far.
NextAPTooFar ==
    /\ Goto(BSP, "next", "write_ss")
    /\ next_ap' = next_ap + 1 /\ next_ap' <= processor_count
    /\ UNCHANGED <<lock, args, segment, stack, tables, slot_vars, sched_vars, clock_vars>>

\* The loop of startup_all_AP: on to the next processor that is enabled, ...
NextAP ==
    LET later == {i \in Enabled : i > next_ap} IN
    /\ Goto(BSP, "next", "write_ss")
    /\ next_ap' \in later /\ \A i \in later : next_ap' <= i
    /\ UNCHANGED <<lock, args, segment, stack, tables, slot_vars, sched_vars, clock_vars>>

\* ... or out of the loop.  The lock "ready" is never released again.
AllStarted ==
    /\ Goto(BSP, "next", "process_init")
    /\ \A i \in Enabled : i <= next_ap
    /\ UNCHANGED <<lock, boot_vars, slot_vars, sched_vars, clock_vars>>

WriteArgument(field, from, to) ==
    /\ Goto(BSP, from, to)
    /\ args' = [args EXCEPT ![field] = next_ap]
    /\ UNCHANGED <<lock, segment, stack, next_ap, tables, slot_vars, sched_vars,
                   clock_vars>>

\* The processor begins to execute ap_boot.fasm.
processor_startup ==
    /\ pc[BSP] = "sipi"
    /\ pc' = [pc EXCEPT ![BSP] = "await_ap", ![next_ap] = "read_stack"]
    /\ UNCHANGED <<lock, boot_vars, slot_vars, sched_vars, clock_vars>>

\* The memory of a table is not cleared before: its slots are made empty here.
process_init ==
    /\ Goto(BSP, "process_init", "mailbox_init")
    /\ tables' = tables \cup {"threads"}
    /\ used' = [s \in Slots |-> FALSE]
    /\ UNCHANGED <<lock, args, segment, stack, next_ap, making, scan, tcb, slot,
                   sched_vars, clock_vars>>

mailbox_init ==
    /\ Goto(BSP, "mailbox_init", "process_create")
    /\ tables' = tables \cup {"mailboxes"}
    /\ mailbox' = [m \in MailboxIds |-> Null]
    /\ UNCHANGED <<lock, args, segment, stack, next_ap, slot_vars, current_thread, ready,
                   clock_vars>>

process_create_static ==
    /\ Goto(BSP, "process_create", "publish")
    /\ tables' = tables \cup {"kernel_process"}
    /\ UNCHANGED <<lock, args, segment, stack, next_ap, slot_vars, sched_vars, clock_vars>>

BootStep ==
    \/ Acquire(BSP, "process_ready", "start", "hold_ready")
    \/ Acquire(BSP, "ready", "hold_ready", "next")
    \/ NextAP \/ AllStarted
    \/ WriteArgument("ss", "write_ss", "write_stack")
    \/ WriteArgument("stack", "write_stack", "sipi")
    \/ processor_startup
    \/ Acquire(BSP, "ready", "await_ap", "next")
    \/ process_init \/ mailbox_init \/ process_create_static
    \/ Release(BSP, "process_ready", "publish", "final_acquire")

-----------------------------------------------------------------------------
(* The other processors: ap_boot.fasm and setup_processor.                 *)

ReadStack(c) ==
    /\ Goto(c, "read_stack", "read_ss")
    /\ stack' = [stack EXCEPT ![c] = args.stack]
    /\ UNCHANGED <<lock, args, segment, next_ap, tables, slot_vars, sched_vars,
                   clock_vars>>

ReadSegment(c) ==
    /\ Goto(c, "read_ss", "calibrate")
    /\ segment' = [segment EXCEPT ![c] = args.ss]
    /\ UNCHANGED <<lock, args, stack, next_ap, tables, slot_vars, sched_vars,
                   clock_vars>>

\* lapic_calibrate_timer registers the handler that counts.
Calibrate(c) ==
    /\ Goto(c, "calibrate", "give_ready")
    /\ timer_isr' = "count"
    /\ UNCHANGED <<lock, boot_vars, slot_vars, sched_vars, clk_entered, register>>

TrampolineStep(c) ==
    \/ ReadStack(c) \/ ReadSegment(c) \/ Calibrate(c)
    \/ Release(c, "ready", "give_ready", "final_acquire")

-----------------------------------------------------------------------------
(* final_processor_setup, on every processor at once.                      *)

\* mailbox_create_static for an id that nobody else asks for, whence no step
\* of its own for ms_lock.  It fails when the mailbox exists.
CreateMailbox(mid, owner) ==
    mailbox' = IF mailbox[mid] = Null THEN [mailbox EXCEPT ![mid] = owner] ELSE mailbox

\* The mailbox of the processor, and scheduler_init.
SetUpCpu(c) ==
    /\ Goto(c, "setup_cpu", "ts_acquire")
    /\ CreateMailbox(c, c)
    /\ current_thread' = [current_thread EXCEPT ![c] = Null]
    /\ ready' = [ready EXCEPT ![c] = [p \in Priorities |-> <<>>]]
    /\ UNCHANGED <<lock, boot_vars, slot_vars, clock_vars>>

\* Faulty variant: the lock is not released when the slot is taken.
SkipSlotLocked(c) ==
    /\ Goto(c, "ts_test", "ts_acquire")
    /\ used[scan[c]] /\ scan[c] + 1 \in Slots
    /\ scan' = [scan EXCEPT ![c] = @ + 1]
    /\ UNCHANGED <<lock, boot_vars, making, used, tcb, slot, sched_vars, clock_vars>>

\* thread_create_static under ts_lock: the slot is taken, so thread_create tries
\* the next one ...
SkipSlot(c) ==
    /\ Goto(c, "ts_test", "ts_acquire")
    /\ used[scan[c]] /\ scan[c] + 1 \in Slots
    /\ scan' = [scan EXCEPT ![c] = @ + 1]
    /\ lock' = [lock EXCEPT !["ts_lock"] = FALSE]
    /\ UNCHANGED <<boot_vars, making, used, tcb, slot, sched_vars, clock_vars>>

\* ... or found empty, and
FindSlot(c) ==
    /\ Goto(c, "ts_test", "ts_mark")
    /\ ~used[scan[c]]
    /\ UNCHANGED <<lock, boot_vars, slot_vars, sched_vars, clock_vars>>

\* marked as used before the lock is released.
MarkSlot(c) ==
    /\ Goto(c, "ts_mark", "ts_fields")
    /\ used' = [used EXCEPT ![scan[c]] = TRUE]
    /\ lock' = [lock EXCEPT !["ts_lock"] = FALSE]
    /\ UNCHANGED <<boot_vars, making, scan, tcb, slot, sched_vars, clock_vars>>

\* The rest of thread_create_static: the slot is filled in without the lock.
FillSlot(c) ==
    /\ Goto(c, "ts_fields", IF making[c] = "clock" THEN "ts_acquire" ELSE "add_ready")
    /\ tcb' = [tcb EXCEPT ![scan[c]] = [cpu |-> c, role |-> making[c]]]
    /\ slot' = [slot EXCEPT ![c][making[c]] = scan[c]]
    /\ scan' = [scan EXCEPT ![c] = 0]
    /\ making' = [making EXCEPT ![c] = "idle"]
    /\ UNCHANGED <<lock, boot_vars, used, sched_vars, clock_vars>>

thread_create(c) ==
    \/ Acquire(c, "ts_lock", "ts_acquire", "ts_test")
    \/ SkipSlot(c) \/ FindSlot(c) \/ MarkSlot(c) \/ FillSlot(c)

AddReady(queues, s) ==
    [queues EXCEPT ![tcb[s].cpu][priority[tcb[s].role]] = Append(@, s)]

\* thread_alloc_mailbox_static for the clock task, then scheduler_add_ready for
\* both threads: nobody else uses this mailbox or this scheduler.
AddThreads(c) ==
    /\ Goto(c, "add_ready", "current_start")
    /\ CreateMailbox(processor_count + c, slot[c]["clock"])
    /\ ready' = AddReady(AddReady(ready, slot[c]["clock"]), slot[c]["idle"])
    /\ UNCHANGED <<lock, boot_vars, slot_vars, current_thread, clock_vars>>

\* scheduler_current_start: the clock task is ready with the highest priority.
scheduler_current_start(c) ==
    /\ Goto(c, "current_start", "print_acquire")
    /\ \E p \in Priorities :
          /\ ready[c][p] # <<>> /\ \A q \in Priorities : q < p => ready[c][q] = <<>>
          /\ current_thread' = [current_thread EXCEPT ![c] = Head(ready[c][p])]
          /\ ready' = [ready EXCEPT ![c][p] = Tail(@)]
    /\ UNCHANGED <<lock, boot_vars, slot_vars, mailbox, clock_vars>>

final_processor_setup(c) ==
    \/ Acquire(c, "process_ready", "final_acquire", "final_release")
    \/ Release(c, "process_ready", "final_release", "setup_cpu")
    \/ SetUpCpu(c) \/ thread_create(c)
    \/ AddThreads(c) \/ scheduler_current_start(c)

-----------------------------------------------------------------------------
(* clock_task_entry_point.                                                 *)

LoadCount(c) ==
    /\ Goto(c, "count_load", "count_store")
    /\ register' = [register EXCEPT ![c] = clk_entered]
    /\ UNCHANGED <<lock, boot_vars, slot_vars, sched_vars, clk_entered, timer_isr>>

StoreCount(c) ==
    /\ Goto(c, "count_store", IF c = BSP THEN "await_all" ELSE "loop")
    /\ clk_entered' = register[c] + 1
    /\ UNCHANGED <<lock, boot_vars, slot_vars, sched_vars, register, timer_isr>>

\* Faulty variant: processor 0 waits for one clock task, its own if need be.
AwaitOne ==
    /\ Goto(BSP, "await_all", "register")
    /\ clk_entered # 0
    /\ UNCHANGED <<lock, boot_vars, slot_vars, sched_vars, clock_vars>>

AwaitAll ==
    /\ Goto(BSP, "await_all", "register")
    /\ clk_entered = processor_count
    /\ UNCHANGED <<lock, boot_vars, slot_vars, sched_vars, clock_vars>>

RegisterTimer ==
    /\ Goto(BSP, "register", "loop")
    /\ timer_isr' = "preempt"
    /\ UNCHANGED <<lock, boot_vars, slot_vars, sched_vars, clk_entered, register>>

clock_task_entry_point(c) ==
    \/ Acquire(c, "print", "print_acquire", "print_release")
    \/ Release(c, "print", "print_release", "count_load")
    \/ LoadCount(c) \/ StoreCount(c)
    \/ c = BSP /\ (AwaitAll \/ RegisterTimer)
    \/ Acquire(c, "print", "loop", "loop_release")
    \/ Release(c, "print", "loop_release", "loop")

CpuStep(c) ==
    \/ c = BSP /\ BootStep
    \/ c # BSP /\ TrampolineStep(c)
    \/ final_processor_setup(c) \/ clock_task_entry_point(c)

Next == \E c \in Enabled : CpuStep(c)

Spec == Init /\ [][Next]_vars

\* Processors run, and a lock that is free again and again is acquired: every
\* lock but the print lock is asked for a bounded number of times, and the sleep
\* at clock.c:127 lets every processor have its turn at the print lock.
FairSpec == Spec /\ \A c \in Enabled : SF_vars(CpuStep(c))

-----------------------------------------------------------------------------
(* Properties.                                                             *)

\* The locks, tables and locals of the boot code keep their types; the loop of
\* startup_all_AP stays within the processors, the count within their number.
TypeOK ==
    /\ pc \in [Enabled -> Steps]
    /\ lock \in [Locks -> BOOLEAN]
    /\ args \in [{"ss", "stack"} -> Cpus \cup {Null}]
    /\ segment \in [Enabled -> Cpus \cup {Null}] /\ stack \in [Enabled -> Cpus \cup {Null}]
    /\ next_ap \in Cpus
    /\ tables \subseteq {"threads", "mailboxes", "kernel_process"}
    /\ making \in [Enabled -> Roles]
    /\ scan \in [Enabled -> Slots]
    /\ used \in [Slots -> BOOLEAN]
    /\ tcb \in [Slots -> [cpu : Enabled, role : Roles] \cup {NoThread}]
    /\ slot \in [Enabled -> [Roles -> Slots \cup {Null}]]
    /\ mailbox \in [MailboxIds -> Slots \cup Cpus \cup {Null}]
    /\ current_thread \in [Enabled -> Slots \cup {Null}]
    /\ ready \in [Enabled -> [Priorities -> Seq(Slots)]]
    /\ clk_entered \in 0 .. processor_count
    /\ register \in [Enabled -> 0 .. processor_count]
    /\ timer_isr \in {"count", "preempt"}

\* A processor that has read the arguments of ap_boot.fasm, which lie at fixed
\* addresses, has its own stack and segment: processor 0 changes them for the
\* next one only after the lock "ready" was given back.
OwnArguments ==
    \A c \in Enabled :
       /\ pc[c] \notin {"off", "read_stack"} => stack[c] = c
       /\ pc[c] \notin {"off", "read_stack", "read_ss"} => segment[c] = c

\* Nobody asks for a slot, a mailbox or the kernel process before processor 0 has
\* created them all (process_ready).
TablesBeforeUse ==
    \A c \in Enabled :
       pc[c] \in {"final_release"} \cup SetupSteps \cup ClockSteps =>
          tables = {"threads", "mailboxes", "kernel_process"}

\* thread_create never returns one slot twice, although every processor searches
\* the table from its start at the same time.
SlotsHaveOneOwner ==
    \A c, d \in Enabled : \A r, q \in Roles :
       slot[c][r] # Null /\ slot[c][r] = slot[d][q] => c = d /\ r = q

\* The thread in a slot, by the names KernelCore has for threads.
Named(s) == IF s = Null THEN Null ELSE <<tcb[s].cpu, tcb[s].role>>

\* The queues of processor c when its scheduler is started.
BootReady(c) ==
    [p \in Priorities |-> IF p = priority["clock"] THEN <<<<c, "clock">>>>
                          ELSE IF p = priority["idle"] THEN <<<<c, "idle">>>> ELSE <<>>]

\* KernelCore with the threads that boot creates: nobody has sent anything yet,
\* and no semaphore is in use.
Core == INSTANCE KernelCore WITH
    Threads <- Enabled \X Roles,
    Idle <- Enabled \X {"idle"},
    Cpus <- Enabled,
    Sems <- {},
    NUMBER_PRIORITIES <- 8,
    exec_cpu <- [t \in Enabled \X Roles |-> t[1]],
    priority <- [t \in Enabled \X Roles |-> priority[t[2]]],
    boot_ready <- [c \in Enabled |-> BootReady(c)],
    InitCount <- [s \in {} |-> 0], MaxCount <- 0, Reschedulers <- {},
    SelfIpiLag <- FALSE, IcrPreemptible <- TRUE,
    current_thread <- [c \in Enabled |-> Named(current_thread[c])],
    ready <- [c \in Enabled |-> [p \in Priorities |->
                [i \in DOMAIN ready[c][p] |-> Named(ready[c][p][i])]]],
    mode <- [c \in Enabled |-> "thread"],
    hmsg <- [c \in Enabled |-> [dst |-> Null, func |-> "CM_NONE", ptr |-> Null]],
    pc <- [t \in Enabled \X Roles |-> "run"],
    op <- [t \in Enabled \X Roles |-> "none"],
    sem <- [t \in Enabled \X Roles |-> Null],
    out <- [t \in Enabled \X Roles |-> [dst |-> Null, func |-> "CM_NONE", ptr |-> Null]],
    sem_count <- [s \in {} |-> 0], sem_lock <- [s \in {} |-> FALSE],
    sem_waiting <- [s \in {} |-> <<>>],
    msg_lock <- [c \in {c \in Enabled : mailbox[c] = c} |-> FALSE],
    message <- [c \in Enabled |-> [dst |-> Null, func |-> "CM_NONE", ptr |-> Null]],
    icr_high <- [c \in Enabled |-> BSP],
    ipi <- [c \in Enabled |-> {}]

\* When the timer begins to preempt threads, the schedulers and mailboxes of all
\* processors are as KernelCore assumes, however the processors got there: the
\* clock task runs, the idle thread is ready, the mailbox exists.
HandOver == timer_isr = "preempt" => Core!Init

\* Every processor that is enabled starts its scheduler and is counted by its
\* clock task: no lock of the boot code keeps it for ever.
EveryProcessorEnters ==
    \A c \in Enabled : <>(pc[c] \in {"await_all", "register", "loop", "loop_release"})

\* clock.c:73: the processors are counted "to correctly register clock isr".
PreemptionStarts == <>(timer_isr = "preempt")
=============================================================================
