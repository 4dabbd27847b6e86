----------------------------- MODULE KernelCore -----------------------------
(***************************************************************************)
(* The scheduler, the semaphores and the cpu messages of the kernel, as    *)
(* they run together on several cpus:                                      *)
(*   thread_sched.c       ready queues, preemption, dispatch               *)
(*   sync/semaphore.c     semaphore_wait and semaphore_signal              *)
(*   sync/_spinlock.asm   the spinlocks of semaphores and mailboxes        *)
(*   ipc/ipc.c            send / receive / acknowledge of a cpu mailbox    *)
(*   ipc/cpu_messages.c   the three handlers behind the message interrupt  *)
(*   lapic.c              the two register writes that send an interrupt   *)
(*   clock/clock.c        the timer interrupt that preempts threads        *)
(*                                                                         *)
(* A thread runs with interrupts enabled, so the timer and the message     *)
(* interrupt may arrive between any two of its steps; interrupt handlers   *)
(* run with interrupts disabled (the stubs of idtr.asm execute cli) and    *)
(* leave through scheduler_current_execute.  A handler is split where it   *)
(* lets another cpu in: where it releases a semaphore's lock and where it  *)
(* acknowledges the message.                                               *)
(***************************************************************************)
EXTENDS Integers, Sequences, FiniteSets

CONSTANTS
    Threads,            \* the threads, idle threads included
    Idle,               \* the idle threads (processor_startup.c: they only loop)
    Cpus,               \* the cpus, each with one scheduler and one mailbox
    Sems,               \* the semaphores the threads share
    Null,               \* the null pointer
    NUMBER_PRIORITIES,  \* 8 in thread_sched.h; 0 is the highest priority
    exec_cpu,           \* TCB.exec_cpu: the cpu a thread is bound to
    priority,           \* TCB.priotity
    boot_ready,         \* the ready queues when the schedulers are started
    InitCount,          \* the value given to semaphore_init
    MaxCount,           \* BOUND: no signal is begun on a semaphore at this count
    Reschedulers,       \* threads that send CM_RESCHEDULE through send()
    SelfIpiLag,         \* may the cpu run on before it takes its own interrupt?
    IcrPreemptible      \* may an interrupt land between the two ICR writes?

Priorities == 0 .. NUMBER_PRIORITIES - 1

ASSUME NullAssumption == Null \notin Threads \cup Sems \cup Cpus
ASSUME PriorityAssumption == NUMBER_PRIORITIES \in Nat \ {0}
ASSUME ThreadAssumption ==
    /\ exec_cpu \in [Threads -> Cpus]
    /\ priority \in [Threads -> Priorities]
    /\ Idle \subseteq Threads
    /\ Reschedulers \subseteq Threads \ Idle
ASSUME CountAssumption == InitCount \in [Sems -> Nat] /\ MaxCount \in Nat
ASSUME TimingAssumption == SelfIpiLag \in BOOLEAN /\ IcrPreemptible \in BOOLEAN

\* Every thread has been added once, to the queue of its priority on its cpu
\* (scheduler_add_ready), and every cpu has an idle thread to fall back on.
ASSUME BootAssumption ==
    /\ boot_ready \in [Cpus -> [Priorities -> Seq(Threads)]]
    /\ \A c \in Cpus, p \in Priorities :
          /\ \A i \in 1 .. Len(boot_ready[c][p]) :
                LET t == boot_ready[c][p][i] IN exec_cpu[t] = c /\ priority[t] = p
          /\ \A i, j \in 1 .. Len(boot_ready[c][p]) :
                boot_ready[c][p][i] = boot_ready[c][p][j] => i = j
    /\ \A t \in Threads :
          \E i \in 1 .. Len(boot_ready[exec_cpu[t]][priority[t]]) :
             boot_ready[exec_cpu[t]][priority[t]][i] = t
    /\ \A c \in Cpus : \E t \in Idle : exec_cpu[t] = c

\* message_t: the mailbox it goes to, its function and the pointer it carries.
RescheduleMessage == [dst : Cpus, func : {"CM_RESCHEDULE"}, ptr : {Null}]
SemWaitMessage == [dst : Cpus, func : {"CM_SEM_WAIT"}, ptr : Sems]
AwakenMessage == [dst : Cpus, func : {"CM_AWAKEN_THREAD"}, ptr : Threads]
Message == RescheduleMessage \cup SemWaitMessage \cup AwakenMessage

\* An empty message_t.
NoMessage == [dst |-> Null, func |-> "CM_NONE", ptr |-> Null]

VARIABLES
    current_thread,  \* thread_sched_t.current_thread, per cpu
    ready,           \* ready[c][p]: a ready queue, head first
    mode,            \* what cpu c is doing: a thread, or a stage of a handler
    hmsg,            \* hmsg[c]: the handler's copy of the message it serves
    pc,              \* pc[t]: the next step of thread t
    op,              \* op[t]: the kernel call t is in
    sem,             \* sem[t]: the semaphore that call is on
    out,             \* out[t]: the message_t on t's stack
    sem_count, sem_lock, sem_waiting,      \* semaphore_t
    msg_lock, message,                     \* mailbox_t of a cpu
    icr_high,        \* icr_high[c]: destination held in c's local APIC
    ipi              \* ipi[c]: cpus whose message interrupt c has not yet taken

sched_vars == <<current_thread, ready>>
thread_vars == <<pc, op, sem, out>>
sem_vars == <<sem_count, sem_lock, sem_waiting>>
mail_vars == <<msg_lock, message>>
vars == <<sched_vars, mode, hmsg, thread_vars, sem_vars, mail_vars, icr_high, ipi>>

Modes == {"thread", "sem_unlock", "schedule"}
Ops == {"none", "wait", "signal", "send"}
SendSteps == {"msg_acquire", "msg_copy", "icr_high", "icr_low"}
Steps == {"run", "sem_acquire", "sem_body", "sem_release", "return"} \cup SendSteps

-----------------------------------------------------------------------------
(* The ready queues: thread_sched.c.                                       *)

\* scheduler_get_first_non_empty: the queue to serve, when there is one.
HasReady(queues) == \E p \in Priorities : queues[p] # <<>>
\* Faulty variant: the search starts at the lowest priority.
LastNonEmpty(queues) ==
    CHOOSE p \in Priorities :
        queues[p] # <<>> /\ \A r \in Priorities : r > p => queues[r] = <<>>

FirstNonEmpty(queues) ==
    CHOOSE p \in Priorities :
        queues[p] # <<>> /\ \A r \in Priorities : r < p => queues[r] = <<>>

\* Faulty variant: the thread becomes the head of its queue.
AddReadyAtHead(queues, t) ==
    [queues EXCEPT ![exec_cpu[t]][priority[t]] = <<t>> \o @]

\* scheduler_add_ready: the thread becomes the tail of its queue.
AddReady(queues, t) ==
    [queues EXCEPT ![exec_cpu[t]][priority[t]] = Append(@, t)]

\* Faulty variant: the evicted thread is not added to a queue.
PreemptForgets(queues, c) == queues

\* scheduler_preempt_thread on cpu c: the evicted thread, if any, is ready again.
Preempt(queues, c) ==
    IF current_thread[c] = Null THEN queues ELSE AddReady(queues, current_thread[c])

\* scheduler_schedule_thread: the head of the first non-empty queue runs next.
\* Without a ready thread the code panics and the cpu halts: no step.
Schedule(queues, c) ==
    LET p == FirstNonEmpty(queues[c]) IN
    /\ HasReady(queues[c])
    /\ current_thread' = [current_thread EXCEPT ![c] = Head(queues[c][p])]
    /\ ready' = [queues EXCEPT ![c][p] = Tail(@)]

\* The state right after scheduler_current_start on every cpu.
Init ==
    /\ current_thread = [c \in Cpus |-> Head(boot_ready[c][FirstNonEmpty(boot_ready[c])])]
    /\ ready = [c \in Cpus |->
                  [boot_ready[c] EXCEPT ![FirstNonEmpty(boot_ready[c])] = Tail(@)]]
    /\ mode = [c \in Cpus |-> "thread"]
    /\ hmsg = [c \in Cpus |-> NoMessage]
    /\ pc = [t \in Threads |-> "run"]
    /\ op = [t \in Threads |-> "none"]
    /\ sem = [t \in Threads |-> Null]
    /\ out = [t \in Threads |-> NoMessage]
    /\ sem_count = InitCount
    /\ sem_lock = [s \in Sems |-> FALSE]
    /\ sem_waiting = [s \in Sems |-> <<>>]
    /\ msg_lock = [c \in Cpus |-> FALSE]
    /\ message = [c \in Cpus |-> NoMessage]
    /\ icr_high \in [Cpus -> Cpus]
    /\ ipi = [c \in Cpus |-> {}]

-----------------------------------------------------------------------------
(* When a cpu may execute the next step of a thread or take an interrupt.  *)

\* An interrupt a cpu sent to itself is taken before anything else happens
\* there, unless SelfIpiLag lets its delivery lag behind.
SelfIpiDue(c) == ~SelfIpiLag /\ c \in ipi[c]

Runs(t) ==
    /\ current_thread[exec_cpu[t]] = t
    /\ mode[exec_cpu[t]] = "thread"
    /\ ~SelfIpiDue(exec_cpu[t])

BetweenIcrWrites(c) == current_thread[c] \in Threads /\ pc[current_thread[c]] = "icr_low"

Interruptible(c) == mode[c] = "thread" /\ (IcrPreemptible \/ ~BetweenIcrWrites(c))

Goto(t, step) == pc' = [pc EXCEPT ![t] = step]

-----------------------------------------------------------------------------
(* Steps of a thread: semaphore_wait, semaphore_signal and send.           *)

Enter(t, call, s, step) ==
    /\ Runs(t)
    /\ pc[t] = "run"
    /\ op' = [op EXCEPT ![t] = call]
    /\ sem' = [sem EXCEPT ![t] = s]
    /\ Goto(t, step)
    /\ UNCHANGED <<sched_vars, mode, hmsg, sem_vars, mail_vars, icr_high, ipi>>

CallWait(t) ==
    /\ t \notin Idle
    /\ \E s \in Sems : Enter(t, "wait", s, "sem_acquire")
    /\ UNCHANGED out

CallSignal(t) ==
    /\ t \notin Idle
    /\ \E s \in Sems :
          /\ sem_count[s] < MaxCount
          /\ Enter(t, "signal", s, "sem_acquire")
    /\ UNCHANGED out

CallReschedule(t) ==
    /\ t \in Reschedulers
    /\ Enter(t, "send", Null, "msg_acquire")
    /\ \E d \in Cpus :
          out' = [out EXCEPT ![t] = [dst |-> d, func |-> "CM_RESCHEDULE", ptr |-> Null]]

\* acquire_spinlock(&sem->lock): the bit is tested and set in one locked step;
\* while it is set the thread spins, which changes nothing.
AcquireSemLock(t) ==
    /\ Runs(t)
    /\ pc[t] = "sem_acquire"
    /\ ~sem_lock[sem[t]]
    /\ sem_lock' = [sem_lock EXCEPT ![sem[t]] = TRUE]
    /\ Goto(t, "sem_body")
    /\ UNCHANGED <<sched_vars, mode, hmsg, op, sem, out, sem_count, sem_waiting,
                   mail_vars, icr_high, ipi>>

\* Faulty variant: the count is not tested.
TakeUnitUntested(t) ==
    /\ Runs(t)
    /\ pc[t] = "sem_body" /\ op[t] = "wait"
    /\ sem_count' = [sem_count EXCEPT ![sem[t]] = @ - 1]
    /\ Goto(t, "sem_release")
    /\ UNCHANGED <<sched_vars, mode, hmsg, op, sem, out, sem_lock, sem_waiting,
                   mail_vars, icr_high, ipi>>

\* semaphore_wait with a unit to take.
TakeUnit(t) ==
    /\ Runs(t)
    /\ pc[t] = "sem_body" /\ op[t] = "wait"
    /\ sem_count[sem[t]] > 0
    /\ sem_count' = [sem_count EXCEPT ![sem[t]] = @ - 1]
    /\ Goto(t, "sem_release")
    /\ UNCHANGED <<sched_vars, mode, hmsg, op, sem, out, sem_lock, sem_waiting,
                   mail_vars, icr_high, ipi>>

\* Faulty variant: the lock is released before the message is sent.
AskToBlockUnlocked(t) ==
    /\ Runs(t)
    /\ pc[t] = "sem_body" /\ op[t] = "wait"
    /\ sem_count[sem[t]] = 0
    /\ sem_lock' = [sem_lock EXCEPT ![sem[t]] = FALSE]
    /\ out' = [out EXCEPT ![t] =
                 [dst |-> exec_cpu[t], func |-> "CM_SEM_WAIT", ptr |-> sem[t]]]
    /\ Goto(t, "msg_acquire")
    /\ UNCHANGED <<sched_vars, mode, hmsg, op, sem, sem_count, sem_waiting, mail_vars,
                   icr_high, ipi>>

\* semaphore_wait with nothing to take: the thread asks its own cpu to block
\* it, and leaves the lock for the handler to release.
AskToBlock(t) ==
    /\ Runs(t)
    /\ pc[t] = "sem_body" /\ op[t] = "wait"
    /\ sem_count[sem[t]] = 0
    /\ out' = [out EXCEPT ![t] =
                 [dst |-> exec_cpu[t], func |-> "CM_SEM_WAIT", ptr |-> sem[t]]]
    /\ Goto(t, "msg_acquire")
    /\ UNCHANGED <<sched_vars, mode, hmsg, op, sem, sem_vars, mail_vars, icr_high, ipi>>

\* Faulty variant: the message names the waiter but leaves it on the list.
PopWaiterKeepsList(t) ==
    LET list == sem_waiting[sem[t]] IN
    /\ Runs(t)
    /\ pc[t] = "sem_body" /\ op[t] = "signal"
    /\ list # <<>>
    /\ out' = [out EXCEPT ![t] =
                 [dst |-> exec_cpu[Head(list)], func |-> "CM_AWAKEN_THREAD", ptr |-> Head(list)]]
    /\ Goto(t, "sem_release")
    /\ UNCHANGED <<sched_vars, mode, hmsg, op, sem, sem_vars, mail_vars, icr_high, ipi>>

\* Faulty variant: the message goes to the signaller's cpu, not the waiter's.
PopWaiterToOwnCpu(t) ==
    LET list == sem_waiting[sem[t]] IN
    /\ Runs(t)
    /\ pc[t] = "sem_body" /\ op[t] = "signal"
    /\ list # <<>>
    /\ sem_waiting' = [sem_waiting EXCEPT ![sem[t]] = Tail(@)]
    /\ out' = [out EXCEPT ![t] =
                 [dst |-> exec_cpu[t], func |-> "CM_AWAKEN_THREAD", ptr |-> Head(list)]]
    /\ Goto(t, "sem_release")
    /\ UNCHANGED <<sched_vars, mode, hmsg, op, sem, sem_count, sem_lock,
                   mail_vars, icr_high, ipi>>

\* semaphore_signal with a waiter: it is taken off the list, to be woken up
\* by a message once the lock is released.
PopWaiter(t) ==
    LET list == sem_waiting[sem[t]] IN
    /\ Runs(t)
    /\ pc[t] = "sem_body" /\ op[t] = "signal"
    /\ list # <<>>
    /\ sem_waiting' = [sem_waiting EXCEPT ![sem[t]] = Tail(@)]
    /\ out' = [out EXCEPT ![t] =
                 [dst |-> exec_cpu[Head(list)], func |-> "CM_AWAKEN_THREAD", ptr |-> Head(list)]]
    /\ Goto(t, "sem_release")
    /\ UNCHANGED <<sched_vars, mode, hmsg, op, sem, sem_count, sem_lock,
                   mail_vars, icr_high, ipi>>

\* Faulty variant: the count grows whether or not a thread waits.
AddUnitAlways(t) ==
    /\ Runs(t)
    /\ pc[t] = "sem_body" /\ op[t] = "signal"
    /\ sem_count' = [sem_count EXCEPT ![sem[t]] = @ + 1]
    /\ Goto(t, "sem_release")
    /\ UNCHANGED <<sched_vars, mode, hmsg, op, sem, out, sem_lock, sem_waiting,
                   mail_vars, icr_high, ipi>>

\* semaphore_signal with nobody waiting.
AddUnit(t) ==
    /\ Runs(t)
    /\ pc[t] = "sem_body" /\ op[t] = "signal"
    /\ sem_waiting[sem[t]] = <<>>
    /\ sem_count' = [sem_count EXCEPT ![sem[t]] = @ + 1]
    /\ Goto(t, "sem_release")
    /\ UNCHANGED <<sched_vars, mode, hmsg, op, sem, out, sem_lock, sem_waiting,
                   mail_vars, icr_high, ipi>>

\* release_spinlock(&sem->lock); a signaller that took a waiter goes on to send.
ReleaseSemLock(t) ==
    /\ Runs(t)
    /\ pc[t] = "sem_release"
    /\ sem_lock' = [sem_lock EXCEPT ![sem[t]] = FALSE]
    /\ Goto(t, IF out[t] = NoMessage THEN "return" ELSE "msg_acquire")
    /\ UNCHANGED <<sched_vars, mode, hmsg, op, sem, out, sem_count, sem_waiting,
                   mail_vars, icr_high, ipi>>

\* Faulty variant: a sender does not wait for the mailbox to be free.
AcquireMsgLockAnyway(t) ==
    /\ Runs(t)
    /\ pc[t] = "msg_acquire"
    /\ msg_lock' = [msg_lock EXCEPT ![out[t].dst] = TRUE]
    /\ Goto(t, "msg_copy")
    /\ UNCHANGED <<sched_vars, mode, hmsg, op, sem, out, sem_vars, message, icr_high, ipi>>

\* __send_mail_cpu: take the mailbox's lock, copy the message, interrupt its owner.
AcquireMsgLock(t) ==
    /\ Runs(t)
    /\ pc[t] = "msg_acquire"
    /\ ~msg_lock[out[t].dst]
    /\ msg_lock' = [msg_lock EXCEPT ![out[t].dst] = TRUE]
    /\ Goto(t, "msg_copy")
    /\ UNCHANGED <<sched_vars, mode, hmsg, op, sem, out, sem_vars, message, icr_high, ipi>>

CopyMessage(t) ==
    /\ Runs(t)
    /\ pc[t] = "msg_copy"
    /\ message' = [message EXCEPT ![out[t].dst] = out[t]]
    /\ Goto(t, "icr_high")
    /\ UNCHANGED <<sched_vars, mode, hmsg, op, sem, out, sem_vars, msg_lock, icr_high, ipi>>

\* lapic_send_ipi: the destination goes to the high half of the cpu's interrupt
\* command register; writing the low half sends the interrupt there.
WriteIcrHigh(t) ==
    /\ Runs(t)
    /\ pc[t] = "icr_high"
    /\ icr_high' = [icr_high EXCEPT ![exec_cpu[t]] = out[t].dst]
    /\ Goto(t, "icr_low")
    /\ UNCHANGED <<sched_vars, mode, hmsg, op, sem, out, sem_vars, mail_vars, ipi>>

WriteIcrLow(t) ==
    /\ Runs(t)
    /\ pc[t] = "icr_low"
    /\ ipi' = [ipi EXCEPT ![icr_high[exec_cpu[t]]] = @ \cup {exec_cpu[t]}]
    /\ Goto(t, "return")
    /\ UNCHANGED <<sched_vars, mode, hmsg, op, sem, out, sem_vars, mail_vars, icr_high>>

\* The call returns and its message_t goes out of scope.
Return(t) ==
    /\ Runs(t)
    /\ pc[t] = "return"
    /\ op' = [op EXCEPT ![t] = "none"]
    /\ sem' = [sem EXCEPT ![t] = Null]
    /\ out' = [out EXCEPT ![t] = NoMessage]
    /\ Goto(t, "run")
    /\ UNCHANGED <<sched_vars, mode, hmsg, sem_vars, mail_vars, icr_high, ipi>>

ThreadStep(t) ==
    \/ CallWait(t) \/ CallSignal(t) \/ CallReschedule(t)
    \/ AcquireSemLock(t) \/ TakeUnit(t) \/ AskToBlock(t)
    \/ PopWaiter(t) \/ AddUnit(t) \/ ReleaseSemLock(t)
    \/ AcquireMsgLock(t) \/ CopyMessage(t) \/ WriteIcrHigh(t) \/ WriteIcrLow(t)
    \/ Return(t)

-----------------------------------------------------------------------------
(* Interrupts.                                                             *)

\* timer_callback: the running thread goes to the tail of its queue and the
\* first ready thread runs.
TimerInterrupt(c) ==
    /\ Interruptible(c)
    /\ ~SelfIpiDue(c)
    /\ Schedule(Preempt(ready, c), c)
    /\ UNCHANGED <<mode, hmsg, thread_vars, sem_vars, mail_vars, icr_high, ipi>>

\* The message interrupt: cpu_message_handler copies the message out of the
\* cpu's mailbox.  The local APIC keeps one bit for the vector, so any other
\* message interrupt that is pending is taken with it.
Receive(c, func) ==
    /\ Interruptible(c)
    /\ ipi[c] # {}
    /\ message[c].func = func
    /\ hmsg' = [hmsg EXCEPT ![c] = message[c]]
    /\ ipi' = [ipi EXCEPT ![c] = {}]

HandleReschedule(c) ==
    /\ Receive(c, "CM_RESCHEDULE")
    /\ ready' = Preempt(ready, c)
    /\ current_thread' = [current_thread EXCEPT ![c] = Null]
    /\ mode' = [mode EXCEPT ![c] = "schedule"]
    /\ UNCHANGED <<thread_vars, sem_vars, mail_vars, icr_high>>

\* Faulty variant: the thread is preempted, and so ready, as well as parked.
HandleSemWaitPreempts(c) ==
    /\ Receive(c, "CM_SEM_WAIT")
    /\ sem_waiting' = [sem_waiting EXCEPT ![message[c].ptr] = Append(@, current_thread[c])]
    /\ ready' = Preempt(ready, c)
    /\ current_thread' = [current_thread EXCEPT ![c] = Null]
    /\ mode' = [mode EXCEPT ![c] = "sem_unlock"]
    /\ UNCHANGED <<thread_vars, sem_count, sem_lock, mail_vars, icr_high>>

\* Faulty variant: the thread becomes the head of the semaphore's list.
HandleSemWaitAtHead(c) ==
    /\ Receive(c, "CM_SEM_WAIT")
    /\ sem_waiting' = [sem_waiting EXCEPT ![message[c].ptr] = <<current_thread[c]>> \o @]
    /\ current_thread' = [current_thread EXCEPT ![c] = Null]
    /\ mode' = [mode EXCEPT ![c] = "sem_unlock"]
    /\ UNCHANGED <<ready, thread_vars, sem_count, sem_lock, mail_vars, icr_high>>

\* The running thread is evicted and appended to the semaphore's list...
HandleSemWait(c) ==
    /\ Receive(c, "CM_SEM_WAIT")
    /\ sem_waiting' = [sem_waiting EXCEPT ![message[c].ptr] = Append(@, current_thread[c])]
    /\ current_thread' = [current_thread EXCEPT ![c] = Null]
    /\ mode' = [mode EXCEPT ![c] = "sem_unlock"]
    /\ UNCHANGED <<ready, thread_vars, sem_count, sem_lock, mail_vars, icr_high>>

\* Faulty variant: the lock stays with the thread that now sleeps.
ReleaseForWaiterMissing(c) ==
    /\ mode[c] = "sem_unlock"
    /\ mode' = [mode EXCEPT ![c] = "schedule"]
    /\ UNCHANGED <<sched_vars, hmsg, thread_vars, sem_vars, mail_vars, icr_high, ipi>>

\* ... and only then is the lock released that semaphore_wait took.
ReleaseForWaiter(c) ==
    /\ mode[c] = "sem_unlock"
    /\ sem_lock' = [sem_lock EXCEPT ![hmsg[c].ptr] = FALSE]
    /\ mode' = [mode EXCEPT ![c] = "schedule"]
    /\ UNCHANGED <<sched_vars, hmsg, thread_vars, sem_count, sem_waiting, mail_vars,
                   icr_high, ipi>>

\* Faulty variant: the woken thread is not added to a queue.
HandleAwakenLoses(c) ==
    /\ Receive(c, "CM_AWAKEN_THREAD")
    /\ ready' = Preempt(ready, c)
    /\ current_thread' = [current_thread EXCEPT ![c] = Null]
    /\ mode' = [mode EXCEPT ![c] = "schedule"]
    /\ UNCHANGED <<thread_vars, sem_vars, mail_vars, icr_high>>

\* The woken thread is made ready ahead of the thread it interrupts.
HandleAwaken(c) ==
    /\ Receive(c, "CM_AWAKEN_THREAD")
    /\ ready' = Preempt(AddReady(ready, message[c].ptr), c)
    /\ current_thread' = [current_thread EXCEPT ![c] = Null]
    /\ mode' = [mode EXCEPT ![c] = "schedule"]
    /\ UNCHANGED <<thread_vars, sem_vars, mail_vars, icr_high>>

\* Faulty variant: the message is not acknowledged.
FinishMessageSilently(c) ==
    /\ mode[c] = "schedule"
    /\ Schedule(ready, c)
    /\ hmsg' = [hmsg EXCEPT ![c] = NoMessage]
    /\ mode' = [mode EXCEPT ![c] = "thread"]
    /\ UNCHANGED <<thread_vars, sem_vars, mail_vars, icr_high, ipi>>

\* The end of every handler: pick the next thread, release the mailbox
\* (acknowledge), signal the end of the interrupt and execute the thread.
FinishMessage(c) ==
    /\ mode[c] = "schedule"
    /\ Schedule(ready, c)
    /\ msg_lock' = [msg_lock EXCEPT ![hmsg[c].dst] = FALSE]
    /\ hmsg' = [hmsg EXCEPT ![c] = NoMessage]
    /\ mode' = [mode EXCEPT ![c] = "thread"]
    /\ UNCHANGED <<thread_vars, sem_vars, message, icr_high, ipi>>

MessageStep(c) ==
    \/ HandleReschedule(c) \/ HandleSemWait(c) \/ HandleAwaken(c)
    \/ ReleaseForWaiter(c) \/ FinishMessage(c)

Next ==
    \/ \E t \in Threads : ThreadStep(t)
    \/ \E c \in Cpus : TimerInterrupt(c) \/ MessageStep(c)

Spec == Init /\ [][Next]_vars

-----------------------------------------------------------------------------
(* Properties.                                                             *)

\* Every variable keeps its type (struct thread_sched, semaphore_t, mailbox_t,
\* message_t); a cpu executes a thread except inside a handler, which then has a
\* message to serve; a call in progress has its semaphore and its message.
TypeOK ==
    /\ current_thread \in [Cpus -> Threads \cup {Null}]
    /\ ready \in [Cpus -> [Priorities -> Seq(Threads)]]
    /\ mode \in [Cpus -> Modes]
    /\ hmsg \in [Cpus -> Message \cup {NoMessage}]
    /\ pc \in [Threads -> Steps]
    /\ op \in [Threads -> Ops]
    /\ sem \in [Threads -> Sems \cup {Null}]
    /\ out \in [Threads -> Message \cup {NoMessage}]
    /\ sem_count \in [Sems -> Nat]
    /\ sem_lock \in [Sems -> BOOLEAN]
    /\ sem_waiting \in [Sems -> Seq(Threads)]
    /\ msg_lock \in [Cpus -> BOOLEAN]
    /\ message \in [Cpus -> Message \cup {NoMessage}]
    /\ icr_high \in [Cpus -> Cpus]
    /\ ipi \in [Cpus -> SUBSET Cpus]
    /\ \A c \in Cpus :
          /\ current_thread[c] \in Threads <=> mode[c] = "thread"
          /\ hmsg[c] # NoMessage <=> mode[c] # "thread"
          /\ mode[c] = "sem_unlock" => hmsg[c] \in SemWaitMessage
    /\ \A t \in Threads :
          /\ pc[t] \in {"sem_acquire", "sem_body", "sem_release"} => sem[t] \in Sems
          /\ pc[t] \in SendSteps => out[t] \in Message

\* u has taken t off a semaphore's list and has yet to send the interrupt for it.
Waking(u, t) ==
    /\ pc[u] \in SendSteps \cup {"sem_release"}
    /\ out[u] \in AwakenMessage /\ out[u].ptr = t

OnCpus(t) == {<<"running", c>> : c \in {c \in Cpus : current_thread[c] = t}}
InReadyQueues(t) ==
    UNION {{<<"ready", c, p, i>> : i \in {i \in DOMAIN ready[c][p] : ready[c][p][i] = t}} :
             c \in Cpus, p \in Priorities}
InSemLists(t) ==
    UNION {{<<"waiting", s, i>> : i \in {i \in DOMAIN sem_waiting[s] : sem_waiting[s][i] = t}} :
             s \in Sems}
WithSignallers(t) == {<<"signaller", u>> : u \in {u \in Threads : Waking(u, t)}}
InMailboxes(t) ==
    {<<"mailbox", c>> : c \in {c \in Cpus :
        ipi[c] # {} /\ message[c] \in AwakenMessage /\ message[c].ptr = t}}

\* Where the program may hold on to thread t: as a running thread, in a ready
\* queue, in a semaphore's list, in a CM_AWAKEN_THREAD message a signaller has
\* not yet handed over, or in one whose interrupt is on its way.
Places(t) ==
    OnCpus(t) \cup InReadyQueues(t) \cup InSemLists(t) \cup WithSignallers(t) \cup InMailboxes(t)

\* A thread is in exactly one place: the TCB's next and prev pointers serve the
\* ready queues and the semaphore lists alike, and nothing but the message
\* remembers a thread that semaphore_signal has taken off the list.
ThreadInOnePlace == \A t \in Threads : \E place \in Places(t) : Places(t) = {place}

\* t has sent its cpu CM_SEM_WAIT and the cpu has yet to take the interrupt.
BlockRequested(t) ==
    LET c == exec_cpu[t] IN
    /\ op[t] = "wait" /\ pc[t] = "return"
    /\ current_thread[c] = t /\ ipi[c] # {} /\ message[c] = out[t]

\* Thread t answers for the lock of s: inside a critical section, or blocking
\* itself, in which case it leaves the lock to the handler of its cpu.
Holds(t, s) ==
    /\ sem[t] = s
    /\ \/ pc[t] \in {"sem_body", "sem_release"}
       \/ op[t] = "wait" /\ pc[t] \in SendSteps
       \/ BlockRequested(t)

\* handle_sem_wait on cpu c has yet to release the lock of s.
HandlerHolds(c, s) == mode[c] = "sem_unlock" /\ hmsg[c].ptr = s

\* A semaphore's lock is set exactly while one holder answers for it, through
\* the hand-over from semaphore_wait to handle_sem_wait: it is never leaked,
\* never released by anybody else, and never held twice.
SemLockHasOneHolder ==
    \A s \in Sems :
        /\ sem_lock[s] <=> \/ \E t \in Threads : Holds(t, s)
                           \/ \E c \in Cpus : HandlerHolds(c, s)
        /\ \A t, u \in Threads : Holds(t, s) /\ Holds(u, s) => t = u
        /\ \A c, e \in Cpus : HandlerHolds(c, s) /\ HandlerHolds(e, s) => c = e
        /\ \A t \in Threads, c \in Cpus : ~(Holds(t, s) /\ HandlerHolds(c, s))

\* Thread t has the mailbox of cpu c and has not sent the interrupt.
Sending(t, c) == pc[t] \in {"msg_copy", "icr_high", "icr_low"} /\ out[t].dst = c

\* mailbox.h on msg_lock: set by the sender before the interrupt and released
\* by the owner after it consumed the message.  The lock of a mailbox is set
\* exactly while one sender fills it, or an interrupt for it is on its way, or
\* its owner serves the message: no message is overwritten before it is served,
\* no two interrupts merge, and no mailbox stays locked with nobody left to
\* acknowledge its message.
MailboxHasOneUser ==
    \A c \in Cpus :
        /\ msg_lock[c] <=> \/ \E t \in Threads : Sending(t, c)
                           \/ ipi[c] # {}
                           \/ hmsg[c] # NoMessage
        /\ \A t, u \in Threads : Sending(t, c) /\ Sending(u, c) => t = u
        /\ \A t \in Threads : Sending(t, c) => ipi[c] = {} /\ hmsg[c] = NoMessage
        /\ ipi[c] # {} => hmsg[c] = NoMessage

\* Nobody waits for a semaphore that has a unit to give: no wake-up falls
\* between the test of the count and the insertion in the list.
NoLostWakeup == \A s \in Sems : sem_waiting[s] # <<>> => sem_count[s] = 0

\* A semaphore's list holds threads that are inside semaphore_wait on that
\* semaphore, however handle_sem_wait and the wake-ups of other cpus meet.  It
\* evicts whichever thread runs as the message arrives, so that this needs
\* SelfIpiLag FALSE: a late interrupt would park another thread.
WaitersCalledWait ==
    \A s \in Sems : \A i \in DOMAIN sem_waiting[s] :
        LET t == sem_waiting[s][i] IN op[t] = "wait" /\ sem[t] = s /\ pc[t] = "return"

\* scheduler_schedule_thread always finds a thread (its PANIC is not reached),
\* whoever has just been evicted.
SchedulerFindsThread == \A c \in Cpus : mode[c] = "schedule" => HasReady(ready[c])

\* No ready thread of a cpu has a higher priority than the thread it executes.
HighestPriorityRuns ==
    \A c \in Cpus : mode[c] = "thread" =>
        /\ current_thread[c] \in Threads
        /\ \A p \in Priorities : ready[c][p] # <<>> => priority[current_thread[c]] <= p

\* The ready queues have no lock: those of a cpu change only in a step of that
\* cpu which also changes the thread it executes, never under a running thread.
QueuesChangeWithDispatch ==
    [][\A c \in Cpus : ready'[c] # ready[c] => current_thread'[c] # current_thread[c]]_vars

-----------------------------------------------------------------------------
(* The semaphores as their callers see them.                               *)

Parked(t) == \E s \in Sems : \E i \in DOMAIN sem_waiting[s] : sem_waiting[s][i] = t

WaitPhase(t) ==
    CASE op[t] # "wait" -> "outside"
      [] op[t] = "wait" /\ Parked(t) -> "parked"
      [] OTHER -> IF pc[t] = "sem_release" \/ (pc[t] = "return" /\ ~BlockRequested(t))
                  THEN "granted" ELSE "calling"

Promise == INSTANCE SemaphoreSpec WITH
    NoSem <- Null,
    count <- sem_count,
    waiting <- sem_waiting,
    phase <- [t \in Threads |-> WaitPhase(t)],
    target <- [t \in Threads |-> IF op[t] = "wait" THEN sem[t] ELSE Null]

\* The kernel keeps the promise of the semaphores: a wait returns only with a
\* unit of its own, and waiters are served in order.
KeepsPromise == Promise!Spec

-----------------------------------------------------------------------------
(* Progress.                                                               *)

\* The timer ticks, an interrupt is taken and its handler finishes.  A time
\* slice is long compared with any step, and a spinning thread samples its lock
\* throughout it: a thread that can take its next step again and again, in one
\* slice after the other, takes it.
Fairness ==
    /\ \A c \in Cpus : SF_vars(TimerInterrupt(c)) /\ SF_vars(MessageStep(c))
    /\ \A t \in Threads \ Idle : SF_vars(ThreadStep(t))

FairSpec == Spec /\ Fairness

\* A thread that semaphore_signal took off a list runs again.
SignalledRuns ==
    \A t \in Threads :
        (\E u \in Threads : pc[u] \in SendSteps /\ out[u] \in AwakenMessage /\ out[u].ptr = t)
            ~> current_thread[exec_cpu[t]] = t

\* Every lock that is taken is released: the holder of a semaphore's lock, or of
\* a mailbox's, is not kept from running by the threads that spin on it.
LocksAreFreed ==
    /\ \A s \in Sems : sem_lock[s] ~> ~sem_lock[s]
    /\ \A c \in Cpus : msg_lock[c] ~> ~msg_lock[c]
=============================================================================
