-------------------------- MODULE KernelCoreProofs --------------------------
(***************************************************************************)
(* Proofs about KernelCore, for every number of cpus, threads, semaphores  *)
(* and priorities and every assignment of threads to cpus: the types and   *)
(* the mailboxes of the cpus, then the ready queues, then the semaphores.  *)
(***************************************************************************)
EXTENDS KernelCore, WellFoundedInduction, Functions, TLAPS

\* The ready queues of every cpu, at every priority.
ReadyQueues == [Cpus -> [Priorities -> Seq(Threads)]]

\* scheduler_get_first_non_empty returns a queue that has a thread, and every
\* queue of a higher priority is empty.
LEMMA FirstNonEmptyWorks ==
    ASSUME NEW queues \in [Priorities -> Seq(Threads)], HasReady(queues)
    PROVE  LET p == FirstNonEmpty(queues) IN
           /\ p \in Priorities /\ queues[p] # <<>>
           /\ \A r \in Priorities : r < p => queues[r] = <<>>
<1> DEFINE Full == {p \in Priorities : queues[p] # <<>>}
           First(p) == /\ queues[p] # <<>>
                       /\ \A r \in Priorities : r < p => queues[r] = <<>>
<1>1. Priorities \subseteq Nat
  BY PriorityAssumption DEF Priorities
<1>2. Full \subseteq Nat /\ Full # {}
  BY <1>1 DEF HasReady
<1>3. PICK p \in Full : \A r \in Full : ~(<<r, p>> \in OpToRel(<, Nat))
  BY <1>2, NatLessThanWellFounded, WFMin
<1>4. \A r \in Full : ~(r < p)
  BY <1>2, <1>3 DEF OpToRel
<1>5. p \in Priorities /\ First(p)
  BY <1>4
<1>6. FirstNonEmpty(queues) = CHOOSE q \in Priorities : First(q)
  BY DEF FirstNonEmpty
<1> HIDE DEF First
<1>7. (CHOOSE q \in Priorities : First(q)) \in Priorities /\ First(CHOOSE q \in Priorities : First(q))
  BY <1>5
<1> QED BY <1>6, <1>7 DEF First

\* scheduler_add_ready keeps the ready queues lists of threads.
LEMMA AddReadyType ==
    ASSUME NEW queues \in ReadyQueues, NEW t \in Threads
    PROVE  AddReady(queues, t) \in ReadyQueues
BY ThreadAssumption DEF AddReady, ReadyQueues

\* So does scheduler_preempt_thread.
LEMMA PreemptType ==
    ASSUME TypeOK, NEW queues \in ReadyQueues, NEW c \in Cpus
    PROVE  Preempt(queues, c) \in ReadyQueues
BY AddReadyType DEF Preempt, TypeOK

\* scheduler_schedule_thread moves a thread from the ready queues to the cpu
\* and leaves the other cpus alone.
LEMMA ScheduleType ==
    ASSUME TypeOK, NEW queues \in ReadyQueues, NEW c \in Cpus, Schedule(queues, c)
    PROVE  /\ ready' \in ReadyQueues
           /\ current_thread' \in [Cpus -> Threads \cup {Null}]
           /\ current_thread'[c] \in Threads
           /\ \A e \in Cpus : e # c => current_thread'[e] = current_thread[e]
<1> DEFINE p == FirstNonEmpty(queues[c])
<1>1. queues[c] \in [Priorities -> Seq(Threads)] /\ HasReady(queues[c])
  BY DEF Schedule, ReadyQueues
<1>2. p \in Priorities /\ queues[c][p] \in Seq(Threads) /\ queues[c][p] # <<>>
  BY <1>1, FirstNonEmptyWorks
<1>3. /\ current_thread' = [current_thread EXCEPT ![c] = Head(queues[c][p])]
      /\ ready' = [queues EXCEPT ![c][p] = Tail(@)]
  BY DEF Schedule
<1> HIDE DEF p
<1>4. Head(queues[c][p]) \in Threads /\ Tail(queues[c][p]) \in Seq(Threads)
  BY <1>2
<1>5. ready' \in ReadyQueues
  BY <1>2, <1>3, <1>4 DEF ReadyQueues
<1>6. current_thread \in [Cpus -> Threads \cup {Null}]
  BY DEF TypeOK
<1> QED BY <1>3, <1>4, <1>5, <1>6

\* The queues handed to scheduler_current_start are of the right type, and no
\* cpu is started without a thread.
LEMMA BootType ==
    /\ boot_ready \in ReadyQueues
    /\ \A c \in Cpus : HasReady(boot_ready[c])
<1>1. boot_ready \in ReadyQueues
  BY BootAssumption DEF ReadyQueues
<1>2. ASSUME NEW c \in Cpus PROVE HasReady(boot_ready[c])
  <2>1. PICK t \in Idle : exec_cpu[t] = c
    BY BootAssumption
  <2>2. t \in Threads /\ priority[t] \in Priorities
    BY ThreadAssumption
  <2>3. \E i \in 1 .. Len(boot_ready[c][priority[t]]) : boot_ready[c][priority[t]][i] = t
    BY <2>1, <2>2, BootAssumption
  <2>4. boot_ready[c][priority[t]] # <<>>
    BY <2>3
  <2> QED BY <2>2, <2>4 DEF HasReady
<1> QED BY <1>1, <1>2

\* A message is what its function says, and an empty one is none of them.
LEMMA MessageFacts ==
    /\ NoMessage \notin Message
    /\ \A m \in Message : m.dst \in Cpus
    /\ \A m \in Message \cup {NoMessage} :
          /\ m.func = "CM_RESCHEDULE" => m \in RescheduleMessage
          /\ m.func = "CM_SEM_WAIT" => m \in SemWaitMessage /\ m.ptr \in Sems
          /\ m.func = "CM_AWAKEN_THREAD" => m \in AwakenMessage /\ m.ptr \in Threads
BY DEF Message, RescheduleMessage, SemWaitMessage, AwakenMessage, NoMessage

LEMMA InitType == Init => TypeOK
<1> SUFFICES ASSUME Init PROVE TypeOK
  OBVIOUS
<1> DEFINE first(c) == FirstNonEmpty(boot_ready[c])
<1>1. \A c \in Cpus :
         /\ boot_ready[c] \in [Priorities -> Seq(Threads)]
         /\ first(c) \in Priorities
         /\ boot_ready[c][first(c)] \in Seq(Threads)
         /\ boot_ready[c][first(c)] # <<>>
  BY BootType, FirstNonEmptyWorks DEF ReadyQueues
<1> HIDE DEF first
<1>2. \A c \in Cpus : /\ Head(boot_ready[c][first(c)]) \in Threads
                      /\ Tail(boot_ready[c][first(c)]) \in Seq(Threads)
  BY <1>1
<1>3. current_thread \in [Cpus -> Threads] /\ ready \in ReadyQueues
  <2>1. /\ current_thread = [c \in Cpus |-> Head(boot_ready[c][first(c)])]
        /\ ready = [c \in Cpus |-> [boot_ready[c] EXCEPT ![first(c)] = Tail(@)]]
    BY DEF Init, first
  <2> QED BY <1>1, <1>2, <2>1 DEF ReadyQueues
<1>4. /\ mode \in [Cpus -> Modes] /\ \A c \in Cpus : mode[c] = "thread"
      /\ hmsg \in [Cpus -> {NoMessage}] /\ message \in [Cpus -> {NoMessage}]
      /\ pc \in [Threads -> Steps] /\ \A t \in Threads : pc[t] = "run"
      /\ op \in [Threads -> Ops] /\ sem \in [Threads -> {Null}]
      /\ out \in [Threads -> {NoMessage}]
      /\ sem_lock \in [Sems -> BOOLEAN]
      /\ sem_waiting \in [Sems -> Seq(Threads)]
      /\ msg_lock \in [Cpus -> BOOLEAN]
      /\ icr_high \in [Cpus -> Cpus] /\ ipi \in [Cpus -> SUBSET Cpus]
  BY DEF Init, Modes, Steps, Ops
<1>5. sem_count \in [Sems -> Nat]
  BY CountAssumption DEF Init
<1> QED BY <1>3, <1>4, <1>5 DEF TypeOK, ReadyQueues, SendSteps

\* A thread that runs: its cpu executes it, outside any handler.
LEMMA RunsFacts ==
    ASSUME NEW t \in Threads, Runs(t)
    PROVE  exec_cpu[t] \in Cpus /\ current_thread[exec_cpu[t]] = t
BY ThreadAssumption DEF Runs

\* The steps of a thread keep the types.
LEMMA ThreadStepType ==
    ASSUME TypeOK, NEW t \in Threads, ThreadStep(t)
    PROVE  TypeOK'
<1> USE DEF TypeOK, Steps, SendSteps, Ops, Goto, sched_vars, thread_vars, sem_vars, mail_vars
<1>1. CASE CallWait(t)
  BY <1>1 DEF CallWait, Enter
<1>2. CASE CallSignal(t)
  BY <1>2 DEF CallSignal, Enter
<1>3. CASE CallReschedule(t)
  BY <1>3 DEF CallReschedule, Enter, Message, RescheduleMessage
<1>4. CASE AcquireSemLock(t)
  BY <1>4 DEF AcquireSemLock
<1>5. CASE TakeUnit(t)
  BY <1>5 DEF TakeUnit
<1>6. CASE AskToBlock(t)
  <2>1. out'[t] \in Message /\ out' \in [Threads -> Message \cup {NoMessage}]
    BY <1>6, RunsFacts DEF AskToBlock, Message, SemWaitMessage
  <2> QED BY <1>6, <2>1 DEF AskToBlock
<1>7. CASE PopWaiter(t)
  <2> DEFINE list == sem_waiting[sem[t]]
  <2>1. sem[t] \in Sems /\ list \in Seq(Threads) /\ list # <<>>
    BY <1>7 DEF PopWaiter
  <2>2. Head(list) \in Threads /\ Tail(list) \in Seq(Threads)
    BY <2>1
  <2>3. out'[t] \in Message /\ out' \in [Threads -> Message \cup {NoMessage}]
    BY <1>7, <2>2, ThreadAssumption DEF PopWaiter, Message, AwakenMessage
  <2>4. sem_waiting' \in [Sems -> Seq(Threads)]
    BY <1>7, <2>1, <2>2 DEF PopWaiter
  <2> QED BY <1>7, <2>3, <2>4 DEF PopWaiter
<1>8. CASE AddUnit(t)
  <2>1. sem[t] \in Sems => sem_count[sem[t]] + 1 \in Nat
    OBVIOUS
  <2>2. sem_count' \in [Sems -> Nat]
    BY <1>8, <2>1 DEF AddUnit
  <2>3. pc' \in [Threads -> Steps]
    BY <1>8 DEF AddUnit
  <2> QED BY <1>8, <2>2, <2>3 DEF AddUnit
<1>9. CASE ReleaseSemLock(t)
  BY <1>9 DEF ReleaseSemLock
<1>10. CASE AcquireMsgLock(t)
  BY <1>10 DEF AcquireMsgLock
<1>11. CASE CopyMessage(t)
  BY <1>11 DEF CopyMessage
<1>12. CASE WriteIcrHigh(t)
  BY <1>12, MessageFacts DEF WriteIcrHigh
<1>13. CASE WriteIcrLow(t)
  BY <1>13, RunsFacts DEF WriteIcrLow
<1>14. CASE Return(t)
  BY <1>14 DEF Return
<1> QED BY <1>1, <1>2, <1>3, <1>4, <1>5, <1>6, <1>7, <1>8, <1>9, <1>10, <1>11, <1>12,
           <1>13, <1>14 DEF ThreadStep

\* The interrupt that is taken serves a message of the expected kind.
LEMMA ReceiveFacts ==
    ASSUME TypeOK, NEW c \in Cpus, NEW func, Receive(c, func),
           func \in {"CM_RESCHEDULE", "CM_SEM_WAIT", "CM_AWAKEN_THREAD"}
    PROVE  /\ mode[c] = "thread" /\ current_thread[c] \in Threads
           /\ hmsg' = [hmsg EXCEPT ![c] = message[c]]
           /\ ipi' = [ipi EXCEPT ![c] = {}]
           /\ message[c] \in Message /\ message[c].func = func
BY DEF Receive, Interruptible, TypeOK, NoMessage

\* Interrupts keep the types.
LEMMA TimerType ==
    ASSUME TypeOK, NEW c \in Cpus, TimerInterrupt(c)
    PROVE  TypeOK'
<1>1. mode[c] = "thread" /\ Schedule(Preempt(ready, c), c)
  BY DEF TimerInterrupt, Interruptible
<1>2. Preempt(ready, c) \in ReadyQueues
  BY PreemptType DEF TypeOK, ReadyQueues
<1>3. /\ ready' \in ReadyQueues
      /\ current_thread' \in [Cpus -> Threads \cup {Null}]
      /\ current_thread'[c] \in Threads
      /\ \A e \in Cpus : e # c => current_thread'[e] = current_thread[e]
  BY <1>1, <1>2, ScheduleType
<1> QED BY <1>1, <1>3
        DEF TimerInterrupt, TypeOK, ReadyQueues, thread_vars, sem_vars, mail_vars

LEMMA MessageStepType ==
    ASSUME TypeOK, NEW c \in Cpus, MessageStep(c)
    PROVE  TypeOK'
<1> USE DEF sched_vars, thread_vars, sem_vars, mail_vars
<1>n. Null \notin Threads
  BY NullAssumption
<1>q. ready \in ReadyQueues /\ Preempt(ready, c) \in ReadyQueues
  BY PreemptType DEF TypeOK, ReadyQueues
<1>1. CASE HandleReschedule(c)
  <2>1. Receive(c, "CM_RESCHEDULE")
    BY <1>1 DEF HandleReschedule
  <2>2. /\ hmsg' = [hmsg EXCEPT ![c] = message[c]] /\ message[c] \in Message
        /\ ipi' = [ipi EXCEPT ![c] = {}]
    BY <2>1, ReceiveFacts
  <2> QED BY <1>1, <1>n, <1>q, <2>2, MessageFacts
          DEF HandleReschedule, TypeOK, ReadyQueues, Modes
<1>2. CASE HandleSemWait(c)
  <2>1. Receive(c, "CM_SEM_WAIT")
    BY <1>2 DEF HandleSemWait
  <2>2. /\ hmsg' = [hmsg EXCEPT ![c] = message[c]] /\ message[c] \in SemWaitMessage
        /\ ipi' = [ipi EXCEPT ![c] = {}] /\ current_thread[c] \in Threads
        /\ message[c] \in Message /\ message[c].ptr \in Sems
    BY <2>1, ReceiveFacts, MessageFacts
  <2>3. sem_waiting' \in [Sems -> Seq(Threads)]
    BY <1>2, <2>2 DEF HandleSemWait, TypeOK
  <2> QED BY <1>2, <1>n, <2>2, <2>3, MessageFacts DEF HandleSemWait, TypeOK, Modes
<1>3. CASE HandleAwaken(c)
  <2>1. Receive(c, "CM_AWAKEN_THREAD")
    BY <1>3 DEF HandleAwaken
  <2>2. /\ hmsg' = [hmsg EXCEPT ![c] = message[c]] /\ message[c] \in Message
        /\ ipi' = [ipi EXCEPT ![c] = {}] /\ message[c].func = "CM_AWAKEN_THREAD"
    BY <2>1, ReceiveFacts
  <2>3. Preempt(AddReady(ready, message[c].ptr), c) \in ReadyQueues
    BY <1>q, <2>2, MessageFacts, AddReadyType, PreemptType
  <2> QED BY <1>3, <1>n, <2>2, <2>3, MessageFacts
          DEF HandleAwaken, TypeOK, ReadyQueues, Modes
<1>4. CASE ReleaseForWaiter(c)
  BY <1>4 DEF ReleaseForWaiter, TypeOK, Modes
<1>5. CASE FinishMessage(c)
  <2>1. Schedule(ready, c)
    BY <1>5 DEF FinishMessage
  <2>2. /\ ready' \in ReadyQueues
        /\ current_thread' \in [Cpus -> Threads \cup {Null}]
        /\ current_thread'[c] \in Threads
        /\ \A e \in Cpus : e # c => current_thread'[e] = current_thread[e]
    BY <1>q, <2>1, ScheduleType
  <2> QED BY <1>5, <2>2 DEF FinishMessage, TypeOK, ReadyQueues, Modes
<1> QED BY <1>1, <1>2, <1>3, <1>4, <1>5 DEF MessageStep

\* In every reachable state, whatever the topology and the timing of the
\* interrupts, the variables have their types, a cpu outside a handler executes
\* a thread, and a handler has the message it serves.
THEOREM TypeCorrect == Spec => []TypeOK
<1>1. ASSUME TypeOK, [Next]_vars PROVE TypeOK'
  <2>1. CASE \E t \in Threads : ThreadStep(t)
    BY <1>1, <2>1, ThreadStepType
  <2>2. CASE \E c \in Cpus : TimerInterrupt(c) \/ MessageStep(c)
    BY <1>1, <2>2, TimerType, MessageStepType
  <2>3. CASE UNCHANGED vars
    BY <1>1, <2>3 DEF TypeOK, vars, sched_vars, thread_vars, sem_vars, mail_vars
  <2> QED BY <1>1, <2>1, <2>2, <2>3 DEF Next
<1> QED BY <1>1, InitType, PTL DEF Spec

-----------------------------------------------------------------------------
(* The lock of a mailbox.  The argument needs that the interrupt goes to   *)
(* the owner of the mailbox that the sender filled, which is where the two *)
(* writes of lapic_send_ipi matter: no other sender of the same cpu may    *)
(* come between them with another destination.                             *)

\* What rules that out: no interrupt lands between the writes, or there is one
\* cpu only, or no two threads of a cpu send.
IcrSafe ==
    \/ ~IcrPreemptible
    \/ \A c, e \in Cpus : c = e
    \/ \A t, u \in Threads \ Idle : exec_cpu[t] = exec_cpu[u] => t = u

MailSteps == {"msg_copy", "icr_high", "icr_low"}

\* The inductive invariant: the property itself, the destination held in the
\* local APIC while a thread stands between the two writes, and messages that
\* stay in the mailbox they are addressed to.
MailInv ==
    /\ MailboxHasOneUser
    /\ \A t \in Threads : pc[t] = "icr_low" =>
          /\ icr_high[exec_cpu[t]] = out[t].dst
          /\ ~IcrPreemptible => current_thread[exec_cpu[t]] = t
    /\ \A t \in Idle : pc[t] = "run"
    /\ \A c \in Cpus : message[c] # NoMessage => message[c].dst = c
    /\ \A c \in Cpus : hmsg[c] # NoMessage => hmsg[c].dst = c

\* A step of a thread outside the three that use a mailbox keeps the invariant.
LEMMA MailQuiet ==
    ASSUME TypeOK, MailInv, NEW t \in Threads \ Idle,
           pc[t] \notin MailSteps, pc'[t] \notin MailSteps,
           \A u \in Threads : u # t => pc'[u] = pc[u] /\ out'[u] = out[u],
           UNCHANGED <<current_thread, hmsg, msg_lock, message, icr_high, ipi>>
    PROVE  MailInv'
<1>1. \A c \in Cpus, u \in Threads : Sending(u, c)' <=> Sending(u, c)
  BY DEF Sending, MailSteps
<1>2. MailboxHasOneUser'
  BY <1>1 DEF MailInv, MailboxHasOneUser
<1>3. \A u \in Threads : pc'[u] = "icr_low" => pc[u] = "icr_low" /\ out'[u] = out[u]
  BY DEF MailSteps
<1>4. \A u \in Idle : pc'[u] = "run"
  BY ThreadAssumption DEF MailInv
<1> QED BY <1>2, <1>3, <1>4 DEF MailInv

LEMMA MailInit == Init => MailInv
BY ThreadAssumption DEF Init, MailInv, MailboxHasOneUser, Sending

\* The idle threads make no step of their own.
LEMMA IdleThreadsIdle ==
    ASSUME MailInv, NEW t \in Threads, ThreadStep(t)
    PROVE  t \in Threads \ Idle
BY ThreadAssumption
   DEF MailInv, ThreadStep, CallWait, CallSignal, CallReschedule, AcquireSemLock, TakeUnit,
       AskToBlock, PopWaiter, AddUnit, ReleaseSemLock, AcquireMsgLock, CopyMessage,
       WriteIcrHigh, WriteIcrLow, Return

\* The steps of a thread keep the invariant.
LEMMA MailThreadStep ==
    ASSUME TypeOK, MailInv, IcrSafe, NEW t \in Threads, ThreadStep(t)
    PROVE  MailInv'
<1> USE DEF sched_vars, thread_vars, sem_vars, mail_vars, Goto
<1>a. t \in Threads \ Idle
  BY IdleThreadsIdle
<1>b. t \in Threads /\ pc \in [Threads -> Steps] /\ out \in [Threads -> Message \cup {NoMessage}]
      /\ exec_cpu \in [Threads -> Cpus]
  BY ThreadAssumption DEF TypeOK
<1>1. CASE CallWait(t) \/ CallSignal(t)
  BY <1>1, <1>a, <1>b, MailQuiet DEF CallWait, CallSignal, Enter, MailSteps
<1>2. CASE CallReschedule(t)
  BY <1>2, <1>a, <1>b, MailQuiet DEF CallReschedule, Enter, MailSteps
<1>3. CASE AcquireSemLock(t) \/ TakeUnit(t) \/ AddUnit(t) \/ ReleaseSemLock(t)
  BY <1>3, <1>a, <1>b, MailQuiet
     DEF AcquireSemLock, TakeUnit, AddUnit, ReleaseSemLock, MailSteps
<1>4. CASE AskToBlock(t) \/ PopWaiter(t) \/ Return(t)
  BY <1>4, <1>a, <1>b, MailQuiet DEF AskToBlock, PopWaiter, Return, MailSteps
<1>5. CASE AcquireMsgLock(t)
  <2>1. /\ pc[t] = "msg_acquire" /\ pc' = [pc EXCEPT ![t] = "msg_copy"]
        /\ ~msg_lock[out[t].dst]
        /\ msg_lock' = [msg_lock EXCEPT ![out[t].dst] = TRUE]
        /\ UNCHANGED <<current_thread, hmsg, out, message, icr_high, ipi>>
    BY <1>5 DEF AcquireMsgLock
  <2>2. out[t].dst \in Cpus
    BY <2>1, <1>b, MessageFacts DEF TypeOK, SendSteps
  <2>3. \A c \in Cpus, u \in Threads :
           Sending(u, c)' <=> Sending(u, c) \/ (u = t /\ c = out[t].dst)
    BY <1>b, <2>1 DEF Sending
  <2>4. msg_lock \in [Cpus -> BOOLEAN]
    BY DEF TypeOK
  <2>5. MailboxHasOneUser'
    BY <2>1, <2>2, <2>3, <2>4 DEF MailInv, MailboxHasOneUser
  <2>6. \A u \in Threads : pc'[u] = "icr_low" => pc[u] = "icr_low"
    BY <1>b, <2>1
  <2> QED BY <1>a, <1>b, <2>1, <2>5, <2>6, ThreadAssumption DEF MailInv
<1>6. CASE CopyMessage(t)
  <2>1. /\ pc[t] = "msg_copy" /\ pc' = [pc EXCEPT ![t] = "icr_high"]
        /\ message' = [message EXCEPT ![out[t].dst] = out[t]]
        /\ UNCHANGED <<current_thread, hmsg, out, msg_lock, icr_high, ipi>>
    BY <1>6 DEF CopyMessage
  <2>2. \A c \in Cpus, u \in Threads : Sending(u, c)' <=> Sending(u, c)
    BY <1>b, <2>1 DEF Sending
  <2>3. MailboxHasOneUser'
    BY <2>1, <2>2 DEF MailInv, MailboxHasOneUser
  <2>4. \A u \in Threads : pc'[u] = "icr_low" => pc[u] = "icr_low"
    BY <1>b, <2>1
  <2>5. \A c \in Cpus : message'[c] # NoMessage => message'[c].dst = c
    <3>1. message \in [Cpus -> Message \cup {NoMessage}]
      BY DEF TypeOK
    <3> QED BY <2>1, <3>1 DEF MailInv
  <2> QED BY <1>a, <1>b, <2>1, <2>3, <2>4, <2>5, ThreadAssumption DEF MailInv
<1>7. CASE WriteIcrHigh(t)
  <2>1. /\ pc[t] = "icr_high" /\ pc' = [pc EXCEPT ![t] = "icr_low"]
        /\ icr_high' = [icr_high EXCEPT ![exec_cpu[t]] = out[t].dst]
        /\ current_thread[exec_cpu[t]] = t
        /\ UNCHANGED <<current_thread, hmsg, out, msg_lock, message, ipi>>
    BY <1>7 DEF WriteIcrHigh, Runs
  <2>2. \A c \in Cpus, u \in Threads : Sending(u, c)' <=> Sending(u, c)
    BY <1>b, <2>1 DEF Sending
  <2>3. MailboxHasOneUser'
    BY <2>1, <2>2 DEF MailInv, MailboxHasOneUser
  <2>4. icr_high \in [Cpus -> Cpus] /\ out[t].dst \in Cpus
    BY <1>b, <2>1, MessageFacts DEF TypeOK, SendSteps
  <2>5. ASSUME NEW u \in Threads, pc'[u] = "icr_low"
        PROVE  /\ icr_high'[exec_cpu[u]] = out'[u].dst
               /\ ~IcrPreemptible => current_thread'[exec_cpu[u]] = u
    <3>1. CASE u = t
      BY <1>b, <2>1, <2>4, <3>1
    <3>2. CASE u # t
      <4>1. pc[u] = "icr_low" /\ u \in Threads \ Idle
        BY <1>b, <2>1, <2>5, <3>2 DEF MailInv
      <4>2. /\ icr_high[exec_cpu[u]] = out[u].dst /\ exec_cpu[u] \in Cpus
            /\ ~IcrPreemptible => current_thread[exec_cpu[u]] = u
            /\ out[u].dst \in Cpus
        BY <1>b, <2>4, <4>1 DEF MailInv
      <4>3. exec_cpu[u] = exec_cpu[t] => out[u].dst = out[t].dst
        BY <1>a, <2>1, <2>4, <3>2, <4>1, <4>2 DEF IcrSafe
      <4> QED BY <1>b, <2>1, <2>4, <4>2, <4>3
    <3> QED BY <3>1, <3>2
  <2> QED BY <1>a, <1>b, <2>1, <2>3, <2>5, ThreadAssumption DEF MailInv
<1>8. CASE WriteIcrLow(t)
  <2>1. /\ pc[t] = "icr_low" /\ pc' = [pc EXCEPT ![t] = "return"]
        /\ ipi' = [ipi EXCEPT ![icr_high[exec_cpu[t]]] = @ \cup {exec_cpu[t]}]
        /\ UNCHANGED <<current_thread, hmsg, out, msg_lock, message, icr_high>>
    BY <1>8 DEF WriteIcrLow
  <2>2. icr_high[exec_cpu[t]] = out[t].dst /\ out[t].dst \in Cpus
    BY <1>b, <2>1, MessageFacts DEF MailInv, TypeOK, SendSteps
  <2>3. \A c \in Cpus : ipi'[c] # {} <=> ipi[c] # {} \/ c = out[t].dst
    BY <2>1, <2>2 DEF TypeOK
  <2>4. \A c \in Cpus, u \in Threads : Sending(u, c)' <=> Sending(u, c) /\ u # t
    BY <1>b, <2>1 DEF Sending
  <2>5. \A c \in Cpus : Sending(t, c) <=> c = out[t].dst
    BY <2>1 DEF Sending
  <2>6. MailboxHasOneUser'
    <3> SUFFICES ASSUME NEW c \in Cpus
                 PROVE  MailboxHasOneUser!(c)'
      BY DEF MailboxHasOneUser
    <3>1. MailboxHasOneUser!(c)
      BY DEF MailInv, MailboxHasOneUser
    <3>2. CASE c = out[t].dst
      BY <1>b, <2>1, <2>3, <2>4, <2>5, <3>1, <3>2
    <3>3. CASE c # out[t].dst
      BY <1>b, <2>1, <2>3, <2>4, <2>5, <3>1, <3>3
    <3> QED BY <3>2, <3>3
  <2>7. \A u \in Threads : pc'[u] = "icr_low" => pc[u] = "icr_low"
    BY <1>b, <2>1
  <2> QED BY <1>a, <1>b, <2>1, <2>6, <2>7, ThreadAssumption DEF MailInv
<1> QED BY <1>1, <1>2, <1>3, <1>4, <1>5, <1>6, <1>7, <1>8 DEF ThreadStep

\* An interrupt that leaves the mailboxes alone, taken where the cpu may be
\* interrupted: no thread of it is between the two writes, unless it may be.
LEMMA IcrKept ==
    ASSUME TypeOK, MailInv, NEW c \in Cpus, Interruptible(c) \/ mode[c] # "thread",
           \A e \in Cpus : e # c => current_thread'[e] = current_thread[e],
           UNCHANGED <<pc, out, icr_high>>
    PROVE  \A t \in Threads : pc'[t] = "icr_low" =>
              /\ icr_high'[exec_cpu[t]] = out'[t].dst
              /\ ~IcrPreemptible => current_thread'[exec_cpu[t]] = t
<1> SUFFICES ASSUME NEW t \in Threads, pc[t] = "icr_low", ~IcrPreemptible
             PROVE  current_thread'[exec_cpu[t]] = t
  BY DEF MailInv
<1>1. exec_cpu[t] \in Cpus /\ current_thread[exec_cpu[t]] = t
  BY ThreadAssumption DEF MailInv
<1>2. exec_cpu[t] # c
  <2>1. CASE Interruptible(c)
    BY <1>1, <2>1 DEF Interruptible, BetweenIcrWrites
  <2>2. CASE mode[c] # "thread"
    BY <1>1, <2>2 DEF TypeOK
  <2> QED BY <2>1, <2>2
<1> QED BY <1>1, <1>2

\* The timer keeps the invariant.
LEMMA MailTimer ==
    ASSUME TypeOK, MailInv, NEW c \in Cpus, TimerInterrupt(c)
    PROVE  MailInv'
<1>1. /\ Interruptible(c)
      /\ UNCHANGED <<mode, hmsg, pc, out, msg_lock, message, icr_high, ipi>>
  BY DEF TimerInterrupt, thread_vars, mail_vars
<1>2. \A e \in Cpus : e # c => current_thread'[e] = current_thread[e]
  BY PreemptType, ScheduleType DEF TimerInterrupt, TypeOK, ReadyQueues
<1>3. MailboxHasOneUser'
  BY <1>1 DEF MailInv, MailboxHasOneUser, Sending
<1> QED BY <1>1, <1>2, <1>3, IcrKept DEF MailInv

\* Taking the message interrupt passes the mailbox from the interrupt to the
\* handler.
LEMMA MailReceive ==
    ASSUME TypeOK, MailInv, NEW c \in Cpus, NEW func,
           func \in {"CM_RESCHEDULE", "CM_SEM_WAIT", "CM_AWAKEN_THREAD"},
           Receive(c, func), current_thread' = [current_thread EXCEPT ![c] = Null],
           UNCHANGED <<pc, out, msg_lock, message, icr_high>>
    PROVE  MailInv'
<1>1. /\ Interruptible(c) /\ ipi[c] # {}
      /\ hmsg' = [hmsg EXCEPT ![c] = message[c]]
      /\ ipi' = [ipi EXCEPT ![c] = {}]
      /\ message[c] # NoMessage
  BY ReceiveFacts, MessageFacts DEF Receive
<1>2. /\ \A e \in Cpus : e # c => current_thread'[e] = current_thread[e]
      /\ hmsg \in [Cpus -> Message \cup {NoMessage}] /\ ipi \in [Cpus -> SUBSET Cpus]
  BY DEF TypeOK
<1>3. MailboxHasOneUser'
  <2> SUFFICES ASSUME NEW e \in Cpus PROVE MailboxHasOneUser!(e)'
    BY DEF MailboxHasOneUser
  <2>1. MailboxHasOneUser!(e) /\ MailboxHasOneUser!(c)
    BY DEF MailInv, MailboxHasOneUser
  <2>2. \A t \in Threads : Sending(t, e)' <=> Sending(t, e)
    BY DEF Sending
  <2>3. CASE e = c
    BY <1>1, <1>2, <2>1, <2>2, <2>3
  <2>4. CASE e # c
    BY <1>1, <1>2, <2>1, <2>2, <2>4
  <2> QED BY <2>3, <2>4
<1>4. \A e \in Cpus : hmsg'[e] # NoMessage => hmsg'[e].dst = e
  BY <1>1, <1>2 DEF MailInv
<1> QED BY <1>1, <1>2, <1>3, <1>4, IcrKept DEF MailInv

\* The steps of the handlers keep the invariant.
LEMMA MailMessageStep ==
    ASSUME TypeOK, MailInv, NEW c \in Cpus, MessageStep(c)
    PROVE  MailInv'
<1> USE DEF sched_vars, thread_vars, sem_vars, mail_vars
<1>1. CASE HandleReschedule(c)
  BY <1>1, MailReceive DEF HandleReschedule
<1>2. CASE HandleSemWait(c)
  BY <1>2, MailReceive DEF HandleSemWait
<1>3. CASE HandleAwaken(c)
  BY <1>3, MailReceive DEF HandleAwaken
<1>4. CASE ReleaseForWaiter(c)
  BY <1>4 DEF ReleaseForWaiter, MailInv, MailboxHasOneUser, Sending
<1>5. CASE FinishMessage(c)
  <2>1. /\ mode[c] = "schedule" /\ Schedule(ready, c)
        /\ msg_lock' = [msg_lock EXCEPT ![hmsg[c].dst] = FALSE]
        /\ hmsg' = [hmsg EXCEPT ![c] = NoMessage]
        /\ UNCHANGED <<pc, out, message, icr_high, ipi>>
    BY <1>5 DEF FinishMessage
  <2>2. hmsg[c] # NoMessage /\ hmsg[c].dst = c
    BY <2>1 DEF MailInv, TypeOK
  <2>3. /\ \A e \in Cpus : e # c => current_thread'[e] = current_thread[e]
        /\ msg_lock \in [Cpus -> BOOLEAN] /\ hmsg \in [Cpus -> Message \cup {NoMessage}]
    BY <2>1, ScheduleType DEF TypeOK, ReadyQueues
  <2>4. MailboxHasOneUser'
    <3> SUFFICES ASSUME NEW e \in Cpus PROVE MailboxHasOneUser!(e)'
      BY DEF MailboxHasOneUser
    <3>1. MailboxHasOneUser!(e) /\ MailboxHasOneUser!(c)
      BY DEF MailInv, MailboxHasOneUser
    <3>2. \A t \in Threads : Sending(t, e)' <=> Sending(t, e)
      BY <2>1 DEF Sending
    <3>3. CASE e = c
      BY <2>1, <2>2, <2>3, <3>1, <3>2, <3>3
    <3>4. CASE e # c
      BY <2>1, <2>2, <2>3, <3>1, <3>2, <3>4
    <3> QED BY <3>3, <3>4
  <2>5. \A e \in Cpus : hmsg'[e] # NoMessage => hmsg'[e].dst = e
    BY <2>1, <2>3 DEF MailInv
  <2> QED BY <2>1, <2>3, <2>4, <2>5, IcrKept DEF MailInv
<1> QED BY <1>1, <1>2, <1>3, <1>4, <1>5 DEF MessageStep

LEMMA MailKept == IcrSafe => (Spec => []MailInv)
<1> SUFFICES ASSUME IcrSafe PROVE Spec => []MailInv
  OBVIOUS
<1>1. ASSUME TypeOK, MailInv, [Next]_vars PROVE MailInv'
  <2>1. CASE \E t \in Threads : ThreadStep(t)
    BY <1>1, <2>1, MailThreadStep
  <2>2. CASE \E c \in Cpus : TimerInterrupt(c) \/ MessageStep(c)
    BY <1>1, <2>2, MailTimer, MailMessageStep
  <2>3. CASE UNCHANGED vars
    BY <1>1, <2>3
       DEF MailInv, MailboxHasOneUser, Sending, vars, sched_vars, thread_vars, mail_vars
  <2> QED BY <1>1, <2>1, <2>2, <2>3 DEF Next
<1> QED BY <1>1, MailInit, TypeCorrect, PTL DEF Spec

\* Under IcrSafe a mailbox is locked exactly while it has one user: no message
\* is overwritten, no two message interrupts merge, and no mailbox stays locked
\* with nobody to acknowledge its message.
THEOREM MailboxExclusive == IcrSafe => (Spec => []MailboxHasOneUser)
<1>1. MailInv => MailboxHasOneUser
  BY DEF MailInv
<1> QED BY <1>1, MailKept, PTL

-----------------------------------------------------------------------------
(***************************************************************************)
(* The ready queues: who runs, and where a thread is kept.  What is proved *)
(* of priorities needs nothing of the interrupt controller; that a thread  *)
(* is in one place needs mailboxes with one user.                          *)
(***************************************************************************)

-----------------------------------------------------------------------------
(* Lists without repetition.                                               *)

\* A new element at the tail.
LEMMA AppendList ==
    ASSUME NEW S, NEW s \in Seq(S), NEW t \in S
    PROVE  /\ Range(Append(s, t)) = Range(s) \cup {t}
           /\ t \notin Range(s) /\ IsInjective(s) => IsInjective(Append(s, t))
<1> DEFINE r == Append(s, t)
<1>1. /\ Len(s) \in Nat /\ DOMAIN s = 1 .. Len(s)
      /\ DOMAIN r = 1 .. Len(s) + 1
      /\ \A i \in 1 .. Len(s) : r[i] = s[i]
      /\ r[Len(s) + 1] = t
  OBVIOUS
<1> HIDE DEF r
<1>2. Range(r) = Range(s) \cup {t}
  <2>1. \A x : x \in Range(r) <=> \E i \in 1 .. Len(s) + 1 : r[i] = x
    BY <1>1 DEF Range
  <2>2. \A x : x \in Range(s) <=> \E i \in 1 .. Len(s) : s[i] = x
    BY <1>1 DEF Range
  <2>3. \A x : x \in Range(r) <=> x \in Range(s) \/ x = t
    BY <1>1, <2>1, <2>2
  <2> QED BY <2>3
<1>3. ASSUME t \notin Range(s), IsInjective(s) PROVE IsInjective(r)
  BY <1>1, <1>3 DEF Range, IsInjective
<1> QED BY <1>2, <1>3 DEF r

\* The head leaves.
LEMMA TailList ==
    ASSUME NEW S, NEW s \in Seq(S), s # <<>>
    PROVE  /\ Head(s) \in Range(s)
           /\ IsInjective(s) => /\ Range(Tail(s)) = Range(s) \ {Head(s)}
                                /\ IsInjective(Tail(s))
<1> DEFINE r == Tail(s)
<1>1. /\ Len(s) \in Nat \ {0} /\ DOMAIN s = 1 .. Len(s)
      /\ DOMAIN r = 1 .. Len(s) - 1
      /\ \A i \in 1 .. Len(s) - 1 : r[i] = s[i + 1]
      /\ Head(s) = s[1]
  OBVIOUS
<1> HIDE DEF r
<1>2. Head(s) \in Range(s)
  BY <1>1 DEF Range
<1>3. ASSUME IsInjective(s) PROVE Range(r) = Range(s) \ {Head(s)} /\ IsInjective(r)
  <2>1. \A x : x \in Range(r) <=> \E i \in 1 .. Len(s) - 1 : s[i + 1] = x
    BY <1>1 DEF Range
  <2>2. \A x : x \in Range(s) <=> \E i \in 1 .. Len(s) : s[i] = x
    BY <1>1 DEF Range
  <2>3. ASSUME NEW x PROVE x \in Range(r) <=> x \in Range(s) /\ x # Head(s)
    <3>1. ASSUME x \in Range(r) PROVE x \in Range(s) /\ x # Head(s)
      BY <1>1, <1>3, <2>1, <2>2, <3>1 DEF IsInjective
    <3>2. ASSUME x \in Range(s), x # Head(s) PROVE x \in Range(r)
      <4>1. PICK i \in 1 .. Len(s) : s[i] = x
        BY <2>2, <3>2
      <4>2. i - 1 \in 1 .. Len(s) - 1 /\ (i - 1) + 1 = i
        BY <1>1, <3>2, <4>1
      <4> QED BY <2>1, <4>1, <4>2
    <3> QED BY <3>1, <3>2
  <2>4. IsInjective(r)
    BY <1>1, <1>3 DEF IsInjective
  <2> QED BY <2>3, <2>4
<1> QED BY <1>2, <1>3 DEF r

-----------------------------------------------------------------------------
(* Every thread stays with its cpu and its priority.                       *)

\* The queues hold threads of their own cpu and priority.
QueuesHome(queues) ==
    \A c \in Cpus, p \in Priorities : \A t \in Range(queues[c][p]) :
        exec_cpu[t] = c /\ priority[t] = p

\* A cpu executes threads bound to it, and a thread to be awoken is named to
\* its own cpu.
HomeInv ==
    /\ \A c \in Cpus : current_thread[c] \in Threads => exec_cpu[current_thread[c]] = c
    /\ QueuesHome(ready)
    /\ \A t \in Threads : out[t] \in AwakenMessage => out[t].dst = exec_cpu[out[t].ptr]
    /\ \A c \in Cpus : message[c] # NoMessage => message[c].dst = c
    /\ \A c \in Cpus : message[c] \in AwakenMessage => exec_cpu[message[c].ptr] = c

\* scheduler_add_ready changes one queue, the one of the thread.
LEMMA AddReadyQueues ==
    ASSUME NEW queues \in ReadyQueues, NEW t \in Threads
    PROVE  LET added == AddReady(queues, t) IN
           /\ added \in ReadyQueues
           /\ added[exec_cpu[t]][priority[t]] = Append(queues[exec_cpu[t]][priority[t]], t)
           /\ \A c \in Cpus, p \in Priorities :
                 <<c, p>> # <<exec_cpu[t], priority[t]>> => added[c][p] = queues[c][p]
           /\ \A c \in Cpus : c # exec_cpu[t] => added[c] = queues[c]
BY AddReadyType, ThreadAssumption DEF AddReady, ReadyQueues

LEMMA AddReadyHome ==
    ASSUME NEW queues \in ReadyQueues, NEW t \in Threads, QueuesHome(queues)
    PROVE  QueuesHome(AddReady(queues, t))
<1> DEFINE added == AddReady(queues, t)
<1> SUFFICES ASSUME NEW c \in Cpus, NEW p \in Priorities, NEW u \in Range(added[c][p])
             PROVE  exec_cpu[u] = c /\ priority[u] = p
  BY DEF QueuesHome
<1>1. CASE c = exec_cpu[t] /\ p = priority[t]
  <2> DEFINE q == queues[c][p]
  <2>1. added[c][p] = Append(q, t) /\ q \in Seq(Threads)
    BY <1>1, AddReadyQueues DEF ReadyQueues
  <2> HIDE DEF q, added
  <2>2. Range(added[c][p]) = Range(q) \cup {t}
    BY <2>1, AppendList
  <2> QED BY <1>1, <2>2 DEF QueuesHome, q
<1>2. CASE ~(c = exec_cpu[t] /\ p = priority[t])
  BY <1>2, AddReadyQueues DEF QueuesHome
<1> QED BY <1>1, <1>2

LEMMA PreemptHome ==
    ASSUME TypeOK, HomeInv, NEW queues \in ReadyQueues, NEW c \in Cpus, QueuesHome(queues)
    PROVE  /\ Preempt(queues, c) \in ReadyQueues
           /\ QueuesHome(Preempt(queues, c))
           /\ \A e \in Cpus : e # c => Preempt(queues, c)[e] = queues[e]
BY AddReadyHome, AddReadyQueues, PreemptType, NullAssumption DEF Preempt, TypeOK, HomeInv

\* scheduler_schedule_thread: the head of one queue of the cpu leaves it, and it
\* is the first of the highest priority there is.
LEMMA ScheduleHome ==
    ASSUME TypeOK, NEW queues \in ReadyQueues, NEW c \in Cpus, QueuesHome(queues),
           Schedule(queues, c)
    PROVE  LET p == priority[current_thread'[c]] IN
           /\ ready' \in ReadyQueues
           /\ current_thread'[c] \in Threads /\ exec_cpu[current_thread'[c]] = c
           /\ p \in Priorities
           /\ queues[c][p] # <<>> /\ current_thread'[c] = Head(queues[c][p])
           /\ \A r \in Priorities : r < p => queues[c][r] = <<>>
           /\ ready'[c][p] = Tail(queues[c][p])
           /\ \A r \in Priorities : r # p => ready'[c][r] = queues[c][r]
           /\ \A e \in Cpus : e # c => ready'[e] = queues[e] /\ current_thread'[e] = current_thread[e]
           /\ QueuesHome(ready')
<1> DEFINE f == FirstNonEmpty(queues[c])
<1>1. queues[c] \in [Priorities -> Seq(Threads)] /\ HasReady(queues[c])
  BY DEF Schedule, ReadyQueues
<1>2. /\ f \in Priorities /\ queues[c][f] # <<>> /\ queues[c][f] \in Seq(Threads)
      /\ \A r \in Priorities : r < f => queues[c][r] = <<>>
  BY <1>1, FirstNonEmptyWorks
<1>3. /\ current_thread' = [current_thread EXCEPT ![c] = Head(queues[c][f])]
      /\ ready' = [queues EXCEPT ![c][f] = Tail(@)]
  BY DEF Schedule
<1> HIDE DEF f
<1>4. /\ current_thread'[c] = Head(queues[c][f])
      /\ \A e \in Cpus : e # c => current_thread'[e] = current_thread[e]
  BY <1>3 DEF TypeOK
<1>5. /\ ready'[c][f] = Tail(queues[c][f])
      /\ \A r \in Priorities : r # f => ready'[c][r] = queues[c][r]
      /\ \A e \in Cpus : e # c => ready'[e] = queues[e]
  BY <1>1, <1>2, <1>3 DEF ReadyQueues
<1>6. Head(queues[c][f]) \in Range(queues[c][f]) /\ Head(queues[c][f]) \in Threads
  BY <1>2, TailList
<1>7. exec_cpu[Head(queues[c][f])] = c /\ priority[Head(queues[c][f])] = f
  BY <1>2, <1>6 DEF QueuesHome
<1>8. Range(Tail(queues[c][f])) \subseteq Range(queues[c][f])
  <2>1. \A i \in DOMAIN Tail(queues[c][f]) :
           i + 1 \in DOMAIN queues[c][f] /\ Tail(queues[c][f])[i] = queues[c][f][i + 1]
    BY <1>2
  <2> QED BY <2>1 DEF Range
<1>9. QueuesHome(ready')
  <2> SUFFICES ASSUME NEW e \in Cpus, NEW r \in Priorities, NEW t \in Range(ready'[e][r])
               PROVE  exec_cpu[t] = e /\ priority[t] = r
    BY DEF QueuesHome
  <2>1. t \in Range(queues[e][r])
    BY <1>2, <1>5, <1>8
  <2> QED BY <2>1 DEF QueuesHome
<1>10. ready' \in ReadyQueues
  BY ScheduleType
<1> QED BY <1>2, <1>4, <1>5, <1>6, <1>7, <1>9, <1>10

LEMMA InitHome == Init => HomeInv /\ HighestPriorityRuns
<1> SUFFICES ASSUME Init PROVE HomeInv /\ HighestPriorityRuns
  OBVIOUS
<1> DEFINE first(c) == FirstNonEmpty(boot_ready[c])
<1>1. /\ current_thread = [c \in Cpus |-> Head(boot_ready[c][first(c)])]
      /\ ready = [c \in Cpus |-> [boot_ready[c] EXCEPT ![first(c)] = Tail(@)]]
      /\ out = [t \in Threads |-> NoMessage] /\ message = [c \in Cpus |-> NoMessage]
  BY DEF Init
<1>2. ASSUME NEW c \in Cpus
      PROVE  /\ boot_ready[c] \in [Priorities -> Seq(Threads)]
             /\ first(c) \in Priorities /\ boot_ready[c][first(c)] # <<>>
             /\ \A r \in Priorities : r < first(c) => boot_ready[c][r] = <<>>
  BY BootType, FirstNonEmptyWorks DEF ReadyQueues
<1> HIDE DEF first
<1>3. ASSUME NEW c \in Cpus, NEW p \in Priorities, NEW t \in Range(boot_ready[c][p])
      PROVE  exec_cpu[t] = c /\ priority[t] = p
  <2>1. boot_ready[c][p] \in Seq(Threads)
    BY <1>2
  <2>2. PICK i \in 1 .. Len(boot_ready[c][p]) : boot_ready[c][p][i] = t
    BY <2>1 DEF Range
  <2> QED BY <2>2, BootAssumption
<1>4. ASSUME NEW c \in Cpus
      PROVE  /\ current_thread[c] \in Threads
             /\ exec_cpu[current_thread[c]] = c /\ priority[current_thread[c]] = first(c)
  <2> DEFINE q == boot_ready[c][first(c)]
  <2>1. q \in Seq(Threads) /\ q # <<>> /\ first(c) \in Priorities /\ current_thread[c] = Head(q)
    BY <1>1, <1>2
  <2> HIDE DEF q
  <2>2. Head(q) \in Range(q) /\ Head(q) \in Threads
    BY <2>1, TailList
  <2> QED BY <1>3, <2>1, <2>2 DEF q
<1>5. ASSUME NEW c \in Cpus, NEW p \in Priorities, NEW t \in Range(ready[c][p])
      PROVE  t \in Range(boot_ready[c][p])
  <2> DEFINE q == boot_ready[c][p]
  <2>1. CASE p = first(c)
    <3>1. q \in Seq(Threads) /\ q # <<>> /\ ready[c][p] = Tail(q)
      BY <1>1, <1>2, <2>1
    <3> HIDE DEF q
    <3>2. \A i \in DOMAIN Tail(q) : i + 1 \in DOMAIN q /\ Tail(q)[i] = q[i + 1]
      BY <3>1
    <3>3. t \in Range(q)
      BY <1>5, <3>1, <3>2 DEF Range
    <3> QED BY <3>3 DEF q
  <2>2. CASE p # first(c)
    BY <1>1, <1>2, <1>5, <2>2
  <2> QED BY <2>1, <2>2
<1>6. NoMessage \notin AwakenMessage
  BY DEF NoMessage, AwakenMessage
<1>7. HomeInv
  BY <1>1, <1>3, <1>4, <1>5, <1>6 DEF HomeInv, QueuesHome
<1>8. ASSUME NEW c \in Cpus, NEW p \in Priorities, ready[c][p] # <<>>
      PROVE  priority[current_thread[c]] <= p
  <2>1. boot_ready[c][p] # <<>>
    BY <1>1, <1>2, <1>8
  <2> QED BY <1>2, <1>4, <2>1, PriorityAssumption DEF Priorities
<1> QED BY <1>4, <1>7, <1>8 DEF HighestPriorityRuns

\* Outside PopWaiter and CopyMessage a thread says nothing new about awakening.
LEMMA HomeQuiet ==
    ASSUME HomeInv, HighestPriorityRuns, NEW t \in Threads,
           UNCHANGED <<current_thread, ready, mode, message>>,
           out'[t] \in AwakenMessage => out'[t] = out[t],
           \A u \in Threads : u # t => out'[u] = out[u]
    PROVE  HomeInv' /\ HighestPriorityRuns'
<1>1. HighestPriorityRuns'
  BY DEF HighestPriorityRuns
<1>2. \A u \in Threads : out'[u] \in AwakenMessage => out'[u].dst = exec_cpu[out'[u].ptr]
  BY DEF HomeInv
<1>3. HomeInv'
  BY <1>2 DEF HomeInv, QueuesHome
<1> QED BY <1>1, <1>3

LEMMA HomeThreadStep ==
    ASSUME TypeOK, HomeInv, HighestPriorityRuns, NEW t \in Threads, ThreadStep(t)
    PROVE  HomeInv' /\ HighestPriorityRuns'
<1> USE DEF sched_vars, thread_vars, sem_vars, mail_vars
<1>o. out \in [Threads -> Message \cup {NoMessage}]
  BY DEF TypeOK
<1>1. CASE CallWait(t) \/ CallSignal(t)
  BY <1>1, HomeQuiet DEF CallWait, CallSignal, Enter
<1>2. CASE CallReschedule(t)
  BY <1>2, <1>o, HomeQuiet DEF CallReschedule, Enter, AwakenMessage
<1>3. CASE AcquireSemLock(t) \/ TakeUnit(t) \/ AddUnit(t) \/ ReleaseSemLock(t)
  BY <1>3, HomeQuiet DEF AcquireSemLock, TakeUnit, AddUnit, ReleaseSemLock
<1>4. CASE AskToBlock(t) \/ Return(t)
  BY <1>4, <1>o, HomeQuiet DEF AskToBlock, Return, AwakenMessage, NoMessage
<1>5. CASE AcquireMsgLock(t) \/ WriteIcrHigh(t) \/ WriteIcrLow(t)
  BY <1>5, HomeQuiet DEF AcquireMsgLock, WriteIcrHigh, WriteIcrLow
<1>6. CASE PopWaiter(t)
  <2>1. /\ out' = [out EXCEPT ![t] = [dst |-> exec_cpu[Head(sem_waiting[sem[t]])],
                                      func |-> "CM_AWAKEN_THREAD",
                                      ptr |-> Head(sem_waiting[sem[t]])]]
        /\ UNCHANGED <<current_thread, ready, mode, message>>
    BY <1>6 DEF PopWaiter
  <2>2. \A u \in Threads : out'[u] \in AwakenMessage => out'[u].dst = exec_cpu[out'[u].ptr]
    BY <1>o, <2>1 DEF HomeInv
  <2> QED BY <2>1, <2>2 DEF HomeInv, QueuesHome, HighestPriorityRuns
<1>7. CASE CopyMessage(t)
  <2>1. /\ message' = [message EXCEPT ![out[t].dst] = out[t]]
        /\ UNCHANGED <<current_thread, ready, mode, out>>
    BY <1>7 DEF CopyMessage
  <2>2. message \in [Cpus -> Message \cup {NoMessage}]
    BY DEF TypeOK
  <2>3. /\ \A c \in Cpus : message'[c] # NoMessage => message'[c].dst = c
        /\ \A c \in Cpus : message'[c] \in AwakenMessage => exec_cpu[message'[c].ptr] = c
    BY <2>1, <2>2 DEF HomeInv
  <2> QED BY <2>1, <2>3 DEF HomeInv, QueuesHome, HighestPriorityRuns
<1> QED BY <1>1, <1>2, <1>3, <1>4, <1>5, <1>6, <1>7 DEF ThreadStep

\* A cpu that schedules, with queues that are its own but for an added thread.
LEMMA HomeSchedule ==
    ASSUME TypeOK, HomeInv, HighestPriorityRuns, NEW c \in Cpus,
           NEW queues \in ReadyQueues, QueuesHome(queues), Schedule(queues, c),
           \A e \in Cpus : e # c => queues[e] = ready[e] /\ mode'[e] = mode[e],
           UNCHANGED <<out, message>>
    PROVE  HomeInv' /\ HighestPriorityRuns'
<1> DEFINE t == current_thread'[c]
<1>1. /\ t \in Threads /\ exec_cpu[t] = c /\ priority[t] \in Priorities
      /\ \A r \in Priorities : r < priority[t] => queues[c][r] = <<>>
      /\ \A r \in Priorities : r # priority[t] => ready'[c][r] = queues[c][r]
      /\ \A e \in Cpus : e # c => ready'[e] = ready[e] /\ current_thread'[e] = current_thread[e]
      /\ QueuesHome(ready')
  BY ScheduleHome
<1> HIDE DEF t
<1>2. HomeInv'
  BY <1>1 DEF HomeInv, QueuesHome, t
<1>3. ASSUME NEW p \in Priorities, ready'[c][p] # <<>> PROVE priority[t] <= p
  <2>1. p # priority[t] => ~(p < priority[t])
    BY <1>1, <1>3
  <2> QED BY <1>1, <2>1, PriorityAssumption DEF Priorities
<1>4. HighestPriorityRuns'
  BY <1>1, <1>3 DEF HighestPriorityRuns, t
<1> QED BY <1>2, <1>4

\* A cpu that enters a handler, having added threads to its own queues.
LEMMA HomeEvict ==
    ASSUME TypeOK, HomeInv, HighestPriorityRuns, NEW c \in Cpus,
           current_thread' = [current_thread EXCEPT ![c] = Null], QueuesHome(ready'),
           \A e \in Cpus : e # c => ready'[e] = ready[e] /\ mode'[e] = mode[e],
           mode'[c] # "thread", UNCHANGED <<out, message>>
    PROVE  HomeInv' /\ HighestPriorityRuns'
<1>1. current_thread'[c] = Null /\ Null \notin Threads
  BY NullAssumption DEF TypeOK
<1>2. HomeInv'
  BY <1>1 DEF HomeInv, QueuesHome, TypeOK
<1>3. HighestPriorityRuns'
  BY DEF HighestPriorityRuns, TypeOK
<1> QED BY <1>2, <1>3

LEMMA HomeInterrupts ==
    ASSUME TypeOK, HomeInv, HighestPriorityRuns, NEW c \in Cpus,
           TimerInterrupt(c) \/ MessageStep(c)
    PROVE  HomeInv' /\ HighestPriorityRuns'
<1> USE DEF sched_vars, thread_vars, sem_vars, mail_vars
<1>r. ready \in ReadyQueues /\ QueuesHome(ready)
  BY DEF TypeOK, ReadyQueues, HomeInv
<1>m. mode \in [Cpus -> Modes]
  BY DEF TypeOK
<1>1. CASE TimerInterrupt(c)
  <2>1. Schedule(Preempt(ready, c), c) /\ UNCHANGED <<mode, out, message>>
    BY <1>1 DEF TimerInterrupt
  <2>2. /\ Preempt(ready, c) \in ReadyQueues /\ QueuesHome(Preempt(ready, c))
        /\ \A e \in Cpus : e # c => Preempt(ready, c)[e] = ready[e]
    BY <1>r, PreemptHome
  <2> QED BY <2>1, <2>2, HomeSchedule
<1>2. CASE HandleReschedule(c)
  <2>1. /\ ready' = Preempt(ready, c) /\ mode' = [mode EXCEPT ![c] = "schedule"]
        /\ current_thread' = [current_thread EXCEPT ![c] = Null]
        /\ UNCHANGED <<out, message>>
    BY <1>2 DEF HandleReschedule
  <2> QED BY <1>m, <1>r, <2>1, PreemptHome, HomeEvict
<1>3. CASE HandleSemWait(c)
  <2>1. /\ mode' = [mode EXCEPT ![c] = "sem_unlock"]
        /\ current_thread' = [current_thread EXCEPT ![c] = Null]
        /\ UNCHANGED <<ready, out, message>>
    BY <1>3 DEF HandleSemWait
  <2>2. QueuesHome(ready')
    BY <1>r, <2>1
  <2> QED BY <1>m, <2>1, <2>2, HomeEvict
<1>4. CASE HandleAwaken(c)
  <2> DEFINE t == message[c].ptr
             added == AddReady(ready, t)
  <2>1. /\ ready' = Preempt(added, c) /\ mode' = [mode EXCEPT ![c] = "schedule"]
        /\ current_thread' = [current_thread EXCEPT ![c] = Null]
        /\ UNCHANGED <<out, message>> /\ Receive(c, "CM_AWAKEN_THREAD")
    BY <1>4 DEF HandleAwaken
  <2>2. t \in Threads /\ exec_cpu[t] = c
    BY <2>1, ReceiveFacts, MessageFacts DEF HomeInv
  <2> HIDE DEF t
  <2>3. /\ added \in ReadyQueues /\ QueuesHome(added)
        /\ \A e \in Cpus : e # c => added[e] = ready[e]
    BY <1>r, <2>2, AddReadyHome, AddReadyQueues
  <2> HIDE DEF added
  <2>4. QueuesHome(ready') /\ \A e \in Cpus : e # c => ready'[e] = ready[e]
    BY <2>1, <2>3, PreemptHome
  <2> QED BY <1>m, <2>1, <2>4, HomeEvict
<1>5. CASE ReleaseForWaiter(c)
  <2>1. /\ mode[c] = "sem_unlock" /\ mode' = [mode EXCEPT ![c] = "schedule"]
        /\ UNCHANGED <<current_thread, ready, out, message>>
    BY <1>5 DEF ReleaseForWaiter
  <2> QED BY <1>m, <2>1 DEF HomeInv, QueuesHome, HighestPriorityRuns
<1>6. CASE FinishMessage(c)
  <2>1. Schedule(ready, c) /\ mode' = [mode EXCEPT ![c] = "thread"] /\ UNCHANGED <<out, message>>
    BY <1>6 DEF FinishMessage
  <2> QED BY <1>m, <1>r, <2>1, HomeSchedule
<1> QED BY <1>1, <1>2, <1>3, <1>4, <1>5, <1>6 DEF MessageStep

LEMMA HomeKept == Spec => [](HomeInv /\ HighestPriorityRuns)
<1>1. ASSUME TypeOK, HomeInv, HighestPriorityRuns, [Next]_vars
      PROVE  HomeInv' /\ HighestPriorityRuns'
  <2>1. CASE \E t \in Threads : ThreadStep(t)
    BY <1>1, <2>1, HomeThreadStep
  <2>2. CASE \E c \in Cpus : TimerInterrupt(c) \/ MessageStep(c)
    BY <1>1, <2>2, HomeInterrupts
  <2>3. CASE UNCHANGED vars
    BY <1>1, <2>3 DEF HomeInv, QueuesHome, HighestPriorityRuns, vars, sched_vars, thread_vars,
                      mail_vars
  <2> QED BY <1>1, <2>1, <2>2, <2>3 DEF Next
<1> QED BY <1>1, InitHome, TypeCorrect, PTL DEF Spec

\* Whatever interrupts do, even misdirected or late ones, a cpu outside a handler
\* executes a thread, and none of its ready threads has a higher priority.
THEOREM HighestPriority == Spec => []HighestPriorityRuns
BY HomeKept, PTL

-----------------------------------------------------------------------------
(* Every thread is kept in exactly one place.  Places(t) of KernelCore     *)
(* lists the places; here they are five predicates, and each step moves at *)
(* most two threads from one to another.                                   *)

InQueues(queues, t) == t \in Range(queues[exec_cpu[t]][priority[t]])
QueuesOnce(queues) == \A c \in Cpus, p \in Priorities : IsInjective(queues[c][p])

Running(t) == current_thread[exec_cpu[t]] = t
Queued(t) == InQueues(ready, t)
Waiting(t, s) == t \in Range(sem_waiting[s])
Mailed(t) ==
    LET m == message[exec_cpu[t]] IN
    ipi[exec_cpu[t]] # {} /\ m \in AwakenMessage /\ m.ptr = t

OnOneList(t) == \E s \in Sems : Waiting(t, s)
Woken(t) == \E u \in Threads : Waking(u, t)

\* Exactly one of the five.
SomewhereOnce ==
    \A t \in Threads :
        /\ Running(t) \/ Queued(t) \/ OnOneList(t) \/ Woken(t) \/ Mailed(t)
        /\ Running(t) => ~Queued(t) /\ ~OnOneList(t) /\ ~Woken(t) /\ ~Mailed(t)
        /\ Queued(t) => ~OnOneList(t) /\ ~Woken(t) /\ ~Mailed(t)
        /\ OnOneList(t) => ~Woken(t) /\ ~Mailed(t)
        /\ Woken(t) => ~Mailed(t)

\* And once within it.
NoRepetition ==
    /\ QueuesOnce(ready)
    /\ \A s \in Sems : IsInjective(sem_waiting[s])
    /\ \A t \in Threads : \A r, s \in Sems : Waiting(t, r) /\ Waiting(t, s) => r = s
    /\ \A t, u, v \in Threads : Waking(u, t) /\ Waking(v, t) => u = v

\* The message between the copy and the interrupt, and before there is one.
MessageInv ==
    /\ \A t \in Threads : pc[t] \in {"icr_high", "icr_low"} => message[out[t].dst] = out[t]
    /\ \A t \in Threads : pc[t] \in {"run", "sem_acquire", "sem_body"} => out[t] = NoMessage

PlaceInv == SomewhereOnce /\ NoRepetition /\ MessageInv

\* What the places rest on.
BaseInv == TypeOK /\ HomeInv /\ MailInv

\* A thread added to a queue it is not in.
LEMMA AddReadyPlaces ==
    ASSUME NEW queues \in ReadyQueues, NEW t \in Threads, QueuesOnce(queues),
           ~InQueues(queues, t)
    PROVE  /\ QueuesOnce(AddReady(queues, t))
           /\ \A x \in Threads : InQueues(AddReady(queues, t), x) <=> InQueues(queues, x) \/ x = t
<1> DEFINE added == AddReady(queues, t)
           q == queues[exec_cpu[t]][priority[t]]
<1>1. /\ added[exec_cpu[t]][priority[t]] = Append(q, t) /\ q \in Seq(Threads)
      /\ \A c \in Cpus, p \in Priorities :
            <<c, p>> # <<exec_cpu[t], priority[t]>> => added[c][p] = queues[c][p]
      /\ exec_cpu[t] \in Cpus /\ priority[t] \in Priorities
  <2>1. exec_cpu[t] \in Cpus /\ priority[t] \in Priorities
    BY ThreadAssumption
  <2>2. q \in Seq(Threads)
    BY <2>1 DEF ReadyQueues
  <2> QED BY <2>1, <2>2, AddReadyQueues, Zenon
<1>2. t \notin Range(q) /\ IsInjective(q)
  BY <1>1 DEF InQueues, QueuesOnce
<1> HIDE DEF q, added
<1>3. Range(Append(q, t)) = Range(q) \cup {t} /\ IsInjective(Append(q, t))
  BY <1>1, <1>2, AppendList
<1>4. QueuesOnce(added)
  <2>1. ASSUME NEW c \in Cpus, NEW p \in Priorities PROVE IsInjective(added[c][p])
    <3>1. CASE c = exec_cpu[t] /\ p = priority[t]
      BY <1>1, <1>3, <3>1
    <3>2. CASE ~(c = exec_cpu[t] /\ p = priority[t])
      <4>1. added[c][p] = queues[c][p]
        BY <1>1, <3>2
      <4> QED BY <4>1 DEF QueuesOnce
    <3> QED BY <3>1, <3>2
  <2> QED BY <2>1 DEF QueuesOnce
<1>5. ASSUME NEW x \in Threads PROVE InQueues(added, x) <=> InQueues(queues, x) \/ x = t
  <2>1. exec_cpu[x] \in Cpus /\ priority[x] \in Priorities
    BY ThreadAssumption
  <2>2. CASE exec_cpu[x] = exec_cpu[t] /\ priority[x] = priority[t]
    <3>1. added[exec_cpu[x]][priority[x]] = Append(q, t)
      BY <1>1, <2>2
    <3>2. queues[exec_cpu[x]][priority[x]] = q
      BY <2>2 DEF q
    <3> QED BY <1>3, <3>1, <3>2 DEF InQueues
  <2>3. CASE ~(exec_cpu[x] = exec_cpu[t] /\ priority[x] = priority[t])
    <3>1. added[exec_cpu[x]][priority[x]] = queues[exec_cpu[x]][priority[x]] /\ x # t
      BY <1>1, <2>1, <2>3
    <3> QED BY <3>1 DEF InQueues
  <2> QED BY <2>2, <2>3
<1> QED BY <1>4, <1>5 DEF added

\* The thread that scheduler_schedule_thread chooses leaves its queue.
LEMMA SchedulePlaces ==
    ASSUME TypeOK, NEW queues \in ReadyQueues, NEW c \in Cpus, QueuesHome(queues),
           QueuesOnce(queues), Schedule(queues, c)
    PROVE  /\ QueuesOnce(ready')
           /\ current_thread'[c] \in Threads /\ InQueues(queues, current_thread'[c])
           /\ \A x \in Threads :
                 /\ Queued(x)' <=> InQueues(queues, x) /\ x # current_thread'[c]
                 /\ Running(x)' <=> x = current_thread'[c] \/ (exec_cpu[x] # c /\ Running(x))
<1> DEFINE t == current_thread'[c]
           q == queues[c][priority[t]]
<1>1. /\ t \in Threads /\ exec_cpu[t] = c /\ priority[t] \in Priorities
      /\ q # <<>> /\ t = Head(q)
      /\ ready'[c][priority[t]] = Tail(q)
      /\ \A r \in Priorities : r # priority[t] => ready'[c][r] = queues[c][r]
      /\ \A e \in Cpus : e # c => ready'[e] = queues[e] /\ current_thread'[e] = current_thread[e]
  BY ScheduleHome
<1>2. q \in Seq(Threads) /\ IsInjective(q)
  BY <1>1 DEF ReadyQueues, QueuesOnce
<1> HIDE DEF t, q
<1>3. t \in Range(q) /\ Range(Tail(q)) = Range(q) \ {t} /\ IsInjective(Tail(q))
  BY <1>1, <1>2, TailList
<1>4. QueuesOnce(ready')
  <2> SUFFICES ASSUME NEW e \in Cpus, NEW p \in Priorities PROVE IsInjective(ready'[e][p])
    BY DEF QueuesOnce
  <2> QED BY <1>1, <1>3 DEF QueuesOnce
<1>5. InQueues(queues, t)
  BY <1>1, <1>3 DEF InQueues, q
<1>6. ASSUME NEW x \in Threads
      PROVE  /\ Queued(x)' <=> InQueues(queues, x) /\ x # t
             /\ Running(x)' <=> x = t \/ (exec_cpu[x] # c /\ Running(x))
  <2>1. exec_cpu[x] \in Cpus /\ priority[x] \in Priorities
    BY ThreadAssumption
  <2>2. Running(x)' <=> x = t \/ (exec_cpu[x] # c /\ Running(x))
    BY <1>1, <2>1 DEF Running, t
  <2>3. CASE exec_cpu[x] = c /\ priority[x] = priority[t]
    BY <1>1, <1>3, <2>2, <2>3 DEF Queued, InQueues, q
  <2>4. CASE ~(exec_cpu[x] = c /\ priority[x] = priority[t])
    BY <1>1, <2>1, <2>2, <2>4 DEF Queued, InQueues
  <2> QED BY <2>3, <2>4
<1> QED BY <1>1, <1>4, <1>5, <1>6 DEF t

\* Threads stay where they are.
LEMMA PlaceQuiet ==
    ASSUME SomewhereOnce, NoRepetition,
           UNCHANGED <<current_thread, ready, sem_waiting>>,
           \A t \in Threads : Mailed(t)' <=> Mailed(t),
           \A t, u \in Threads : Waking(u, t)' <=> Waking(u, t)
    PROVE  SomewhereOnce' /\ NoRepetition'
<1>1. \A t \in Threads : /\ Running(t)' <=> Running(t)
                         /\ Queued(t)' <=> Queued(t)
                         /\ \A s \in Sems : Waiting(t, s)' <=> Waiting(t, s)
  BY DEF Running, Queued, InQueues, Waiting
<1>2. \A t \in Threads : /\ OnOneList(t)' <=> OnOneList(t)
                         /\ Woken(t)' <=> Woken(t)
  BY <1>1 DEF OnOneList, Woken
<1>3. SomewhereOnce'
  BY <1>1, <1>2 DEF SomewhereOnce
<1>4. NoRepetition'
  BY <1>1 DEF NoRepetition, QueuesOnce
<1> QED BY <1>3, <1>4

\* A step of a thread that neither names a thread to be awoken nor stops naming it.
LEMMA PlaceOwnStep ==
    ASSUME BaseInv, PlaceInv, NEW t \in Threads,
           UNCHANGED <<current_thread, ready, sem_waiting, message, ipi>>,
           \A u \in Threads : u # t => pc'[u] = pc[u] /\ out'[u] = out[u],
           \A x \in Threads : Waking(t, x)' <=> Waking(t, x),
           pc'[t] \in {"icr_high", "icr_low"} => pc[t] = "icr_high" /\ out'[t] = out[t],
           pc'[t] \in {"run", "sem_acquire", "sem_body"} => out'[t] = NoMessage
    PROVE  PlaceInv'
<1>1. \A x \in Threads : Mailed(x)' <=> Mailed(x)
  BY DEF Mailed
<1>2. \A x, u \in Threads : Waking(u, x)' <=> Waking(u, x)
  BY DEF Waking
<1>3. SomewhereOnce' /\ NoRepetition'
  BY <1>1, <1>2, PlaceQuiet DEF PlaceInv
<1>4. \A u \in Threads : pc'[u] \in {"icr_high", "icr_low"} => message'[out'[u].dst] = out'[u]
  BY DEF PlaceInv, MessageInv
<1>5. \A u \in Threads : pc'[u] \in {"run", "sem_acquire", "sem_body"} => out'[u] = NoMessage
  BY DEF PlaceInv, MessageInv
<1> QED BY <1>3, <1>4, <1>5 DEF PlaceInv, MessageInv

\* semaphore_signal takes the first waiter off the list and names it in a message.
LEMMA PlacePopWaiter ==
    ASSUME BaseInv, PlaceInv, NEW t \in Threads, PopWaiter(t)
    PROVE  PlaceInv'
<1> DEFINE list == sem_waiting[sem[t]]
           w == Head(list)
<1>1. /\ pc[t] = "sem_body" /\ list # <<>>
      /\ sem_waiting' = [sem_waiting EXCEPT ![sem[t]] = Tail(list)]
      /\ out' = [out EXCEPT ![t] =
                   [dst |-> exec_cpu[w], func |-> "CM_AWAKEN_THREAD", ptr |-> w]]
      /\ pc' = [pc EXCEPT ![t] = "sem_release"]
      /\ UNCHANGED <<current_thread, ready, message, ipi>>
  BY DEF PopWaiter, Goto, sched_vars, mail_vars
<1>2. /\ sem[t] \in Sems /\ list \in Seq(Threads) /\ IsInjective(list)
      /\ sem_waiting \in [Sems -> Seq(Threads)] /\ pc \in [Threads -> Steps]
      /\ out \in [Threads -> Message \cup {NoMessage}]
  BY <1>1 DEF BaseInv, TypeOK, PlaceInv, NoRepetition
<1> HIDE DEF list
<1>3. /\ w \in Threads /\ w \in Range(list) /\ Range(Tail(list)) = Range(list) \ {w}
      /\ IsInjective(Tail(list))
  BY <1>1, <1>2, TailList
<1>4. /\ out'[t] \in AwakenMessage /\ out'[t].ptr = w
      /\ \A u \in Threads : u # t => out'[u] = out[u] /\ pc'[u] = pc[u]
      /\ pc'[t] = "sem_release"
  BY <1>1, <1>2, <1>3, ThreadAssumption DEF AwakenMessage
<1> HIDE DEF w
<1>5. ASSUME NEW x \in Threads
      PROVE  /\ Running(x)' <=> Running(x)
             /\ Queued(x)' <=> Queued(x)
             /\ Mailed(x)' <=> Mailed(x)
  BY <1>1 DEF Running, Queued, InQueues, Mailed
<1>6. /\ Waiting(w, sem[t])
      /\ \A x \in Threads, s \in Sems : Waiting(x, s)' <=> Waiting(x, s) /\ x # w
  <2>1. Waiting(w, sem[t]) /\ \A s \in Sems : Waiting(w, s) => s = sem[t]
    BY <1>2, <1>3 DEF PlaceInv, NoRepetition, Waiting, list
  <2>2. sem_waiting'[sem[t]] = Tail(list) /\ sem_waiting[sem[t]] = list
    BY <1>1, <1>2 DEF list
  <2>3. \A s \in Sems : s # sem[t] => sem_waiting'[s] = sem_waiting[s]
    BY <1>1, <1>2
  <2> SUFFICES ASSUME NEW x \in Threads, NEW s \in Sems
               PROVE  Waiting(x, s)' <=> Waiting(x, s) /\ x # w
    BY <2>1
  <2>4. CASE s = sem[t]
    BY <1>3, <2>2, <2>4 DEF Waiting
  <2>5. CASE s # sem[t]
    BY <2>1, <2>3, <2>5 DEF Waiting
  <2> QED BY <2>4, <2>5
<1>7. \A x, u \in Threads : Waking(u, x)' <=> Waking(u, x) \/ (u = t /\ x = w)
  <2>1. \A x \in Threads : ~Waking(t, x)
    BY <1>1 DEF Waking, SendSteps
  <2>2. \A x \in Threads : Waking(t, x)' <=> x = w
    BY <1>4 DEF Waking
  <2> QED BY <1>4, <2>1, <2>2 DEF Waking
<1>8. /\ OnOneList(w)
      /\ \A x \in Threads : /\ OnOneList(x)' <=> OnOneList(x) /\ x # w
                            /\ Woken(x)' <=> Woken(x) \/ x = w
  BY <1>2, <1>3, <1>6, <1>7 DEF OnOneList, Woken
<1>9. SomewhereOnce'
  BY <1>3, <1>5, <1>8 DEF PlaceInv, SomewhereOnce
<1>10. NoRepetition'
  <2>1. \A s \in Sems : IsInjective(sem_waiting'[s])
    BY <1>1, <1>2, <1>3 DEF PlaceInv, NoRepetition
  <2>2. ~Woken(w)
    BY <1>3, <1>8 DEF PlaceInv, SomewhereOnce
  <2>3. \A x, u, v \in Threads : Waking(u, x)' /\ Waking(v, x)' => u = v
    BY <1>7, <2>2 DEF PlaceInv, NoRepetition, Woken
  <2> QED BY <1>1, <1>6, <2>1, <2>3 DEF PlaceInv, NoRepetition, QueuesOnce
<1>11. MessageInv'
  BY <1>1, <1>4 DEF PlaceInv, MessageInv
<1> QED BY <1>9, <1>10, <1>11 DEF PlaceInv

\* The copy changes no message that an interrupt has announced, and none that
\* another sender has copied.
LEMMA PlaceCopyMessage ==
    ASSUME BaseInv, PlaceInv, NEW t \in Threads, CopyMessage(t)
    PROVE  PlaceInv'
<1> DEFINE c == out[t].dst
<1>1. /\ pc[t] = "msg_copy" /\ pc' = [pc EXCEPT ![t] = "icr_high"]
      /\ message' = [message EXCEPT ![c] = out[t]]
      /\ UNCHANGED <<current_thread, ready, sem_waiting, out, ipi>>
  BY DEF CopyMessage, Goto, sched_vars, sem_vars
<1>2. /\ pc \in [Threads -> Steps] /\ message \in [Cpus -> Message \cup {NoMessage}]
      /\ out[t] \in Message /\ c \in Cpus
  BY <1>1, MessageFacts DEF BaseInv, TypeOK, SendSteps
<1> HIDE DEF c
<1>3. Sending(t, c) /\ ipi[c] = {} /\ \A u \in Threads : Sending(u, c) => u = t
  BY <1>1, <1>2 DEF BaseInv, MailInv, MailboxHasOneUser, Sending, c
<1>4. \A x \in Threads : Mailed(x)' <=> Mailed(x)
  BY <1>1, <1>2, <1>3, ThreadAssumption DEF Mailed
<1>5. \A x, u \in Threads : Waking(u, x)' <=> Waking(u, x)
  BY <1>1, <1>2 DEF Waking, SendSteps
<1>6. SomewhereOnce' /\ NoRepetition'
  BY <1>1, <1>4, <1>5, PlaceQuiet DEF PlaceInv
<1>7. ASSUME NEW u \in Threads, pc'[u] \in {"icr_high", "icr_low"}
      PROVE  message'[out'[u].dst] = out'[u]
  <2>1. CASE u = t
    BY <1>1, <1>2, <2>1 DEF c
  <2>2. CASE u # t
    <3>1. pc[u] \in {"icr_high", "icr_low"}
      BY <1>1, <1>2, <1>7, <2>2
    <3>2. out[u].dst # c
      BY <1>3, <2>2, <3>1 DEF Sending
    <3> QED BY <1>1, <1>2, <3>1, <3>2 DEF PlaceInv, MessageInv
  <2> QED BY <2>1, <2>2
<1>8. MessageInv'
  BY <1>1, <1>2, <1>7 DEF PlaceInv, MessageInv
<1> QED BY <1>6, <1>8 DEF PlaceInv

\* The interrupt command takes over from the sender.
LEMMA PlaceWriteIcrLow ==
    ASSUME BaseInv, PlaceInv, NEW t \in Threads, WriteIcrLow(t)
    PROVE  PlaceInv'
<1> DEFINE c == out[t].dst
<1>1. /\ pc[t] = "icr_low" /\ pc' = [pc EXCEPT ![t] = "return"]
      /\ ipi' = [ipi EXCEPT ![c] = @ \cup {exec_cpu[t]}]
      /\ UNCHANGED <<current_thread, ready, sem_waiting, out, message>>
  BY DEF WriteIcrLow, Goto, sched_vars, sem_vars, mail_vars, BaseInv, MailInv
<1>2. /\ pc \in [Threads -> Steps] /\ ipi \in [Cpus -> SUBSET Cpus]
      /\ out[t] \in Message /\ c \in Cpus
  BY <1>1, MessageFacts DEF BaseInv, TypeOK, SendSteps
<1>3. ipi[c] = {} /\ message[c] = out[t]
  BY <1>1, <1>2 DEF BaseInv, MailInv, MailboxHasOneUser, Sending, PlaceInv, MessageInv
<1> HIDE DEF c
<1>4. \A x, u \in Threads : Waking(u, x)' <=> Waking(u, x) /\ u # t
  BY <1>1, <1>2 DEF Waking, SendSteps
<1>5. \A x \in Threads : Mailed(x)' <=> Mailed(x) \/ Waking(t, x)
  <2>1. ASSUME NEW x \in Threads, exec_cpu[x] = c PROVE Mailed(x)' <=> Mailed(x) \/ Waking(t, x)
    BY <1>1, <1>2, <1>3, <2>1 DEF Mailed, Waking, SendSteps
  <2>2. ASSUME NEW x \in Threads, exec_cpu[x] # c PROVE Mailed(x)' <=> Mailed(x) \/ Waking(t, x)
    <3>1. ~Waking(t, x)
      BY <2>2 DEF Waking, BaseInv, HomeInv, c
    <3> QED BY <1>1, <1>2, <2>2, <3>1, ThreadAssumption DEF Mailed
  <2> QED BY <2>1, <2>2
<1>6. \A x \in Threads : /\ Running(x)' <=> Running(x)
                         /\ Queued(x)' <=> Queued(x)
                         /\ \A s \in Sems : Waiting(x, s)' <=> Waiting(x, s)
  BY <1>1 DEF Running, Queued, InQueues, Waiting
<1>7. \A x \in Threads : /\ OnOneList(x)' <=> OnOneList(x)
                         /\ Woken(x)' <=> Woken(x) /\ ~Waking(t, x)
                         /\ Waking(t, x) => Woken(x)
  <2>1. \A x, u \in Threads : Waking(u, x) /\ Waking(t, x) => u = t
    BY DEF PlaceInv, NoRepetition
  <2> QED BY <1>4, <1>6, <2>1 DEF OnOneList, Woken
<1>8. SomewhereOnce'
  BY <1>5, <1>6, <1>7 DEF PlaceInv, SomewhereOnce
<1>9. NoRepetition'
  BY <1>1, <1>4, <1>6 DEF PlaceInv, NoRepetition, QueuesOnce
<1>10. MessageInv'
  BY <1>1, <1>2 DEF PlaceInv, MessageInv
<1> QED BY <1>8, <1>9, <1>10 DEF PlaceInv

LEMMA PlaceThreadStep ==
    ASSUME BaseInv, PlaceInv, NEW t \in Threads, ThreadStep(t)
    PROVE  PlaceInv'
<1> USE DEF sched_vars, thread_vars, sem_vars, mail_vars, Goto
<1>b. /\ pc \in [Threads -> Steps] /\ out \in [Threads -> Message \cup {NoMessage}]
      /\ pc[t] \in {"run", "sem_acquire", "sem_body"} => out[t] = NoMessage
      /\ NoMessage \notin AwakenMessage
  BY DEF BaseInv, TypeOK, PlaceInv, MessageInv, NoMessage, AwakenMessage
<1>1. CASE CallWait(t) \/ CallSignal(t)
  BY <1>1, <1>b, PlaceOwnStep DEF CallWait, CallSignal, Enter, Waking, SendSteps
<1>2. CASE CallReschedule(t)
  <2>1. out'[t] \notin AwakenMessage
    BY <1>2, <1>b DEF CallReschedule, AwakenMessage
  <2> QED BY <1>2, <1>b, <2>1, PlaceOwnStep DEF CallReschedule, Enter, Waking
<1>3. CASE AcquireSemLock(t)
  BY <1>3, <1>b, PlaceOwnStep DEF AcquireSemLock, Waking, SendSteps
<1>4. CASE TakeUnit(t) \/ AddUnit(t)
  BY <1>4, <1>b, PlaceOwnStep DEF TakeUnit, AddUnit, Waking
<1>5. CASE AskToBlock(t)
  <2>1. out'[t] \notin AwakenMessage
    BY <1>5, <1>b DEF AskToBlock, AwakenMessage
  <2> QED BY <1>5, <1>b, <2>1, PlaceOwnStep DEF AskToBlock, Waking
<1>6. CASE ReleaseSemLock(t)
  BY <1>6, <1>b, PlaceOwnStep DEF ReleaseSemLock, Waking, SendSteps
<1>7. CASE AcquireMsgLock(t) \/ WriteIcrHigh(t)
  BY <1>7, <1>b, PlaceOwnStep DEF AcquireMsgLock, WriteIcrHigh, Waking, SendSteps
<1>8. CASE Return(t)
  BY <1>8, <1>b, PlaceOwnStep DEF Return, Waking, SendSteps
<1> QED BY <1>1, <1>2, <1>3, <1>4, <1>5, <1>6, <1>7, <1>8, PlacePopWaiter, PlaceCopyMessage,
           PlaceWriteIcrLow DEF ThreadStep

\* A handler that leaves messages, senders and lists alone moves threads between
\* the cpu and its queues.
LEMMA PlaceSchedule ==
    ASSUME BaseInv, PlaceInv, NEW c \in Cpus, NEW queues \in ReadyQueues,
           QueuesHome(queues), QueuesOnce(queues), Schedule(queues, c),
           \A x \in Threads :
              InQueues(queues, x) <=> Queued(x) \/ (exec_cpu[x] = c /\ Running(x)),
           UNCHANGED <<pc, out, sem_waiting, message, ipi>>
    PROVE  PlaceInv'
<1> DEFINE new == current_thread'[c]
<1>1. /\ QueuesOnce(ready') /\ new \in Threads /\ InQueues(queues, new)
      /\ \A x \in Threads :
            /\ Queued(x)' <=> InQueues(queues, x) /\ x # new
            /\ Running(x)' <=> x = new \/ (exec_cpu[x] # c /\ Running(x))
  BY SchedulePlaces DEF BaseInv
<1>2. exec_cpu[new] = c
  BY ScheduleHome DEF BaseInv
<1> HIDE DEF new
<1>3. \A x \in Threads : /\ Mailed(x)' <=> Mailed(x)
                         /\ OnOneList(x)' <=> OnOneList(x)
                         /\ Woken(x)' <=> Woken(x)
  BY DEF Mailed, OnOneList, Waiting, Woken, Waking
<1>4. SomewhereOnce'
  <2> SUFFICES ASSUME NEW x \in Threads PROVE SomewhereOnce!(x)'
    BY DEF SomewhereOnce
  <2>1. SomewhereOnce!(x)
    BY DEF PlaceInv, SomewhereOnce
  <2> QED BY <1>1, <1>2, <1>3, <2>1
<1>5. NoRepetition'
  BY <1>1 DEF PlaceInv, NoRepetition, Waiting, Waking
<1>6. MessageInv'
  BY DEF PlaceInv, MessageInv
<1> QED BY <1>4, <1>5, <1>6 DEF PlaceInv

\* scheduler_preempt_thread: the thread the cpu executed is in its queue.
LEMMA PreemptPlaces ==
    ASSUME BaseInv, NEW c \in Cpus, current_thread[c] \in Threads,
           NEW queues \in ReadyQueues, QueuesOnce(queues), ~InQueues(queues, current_thread[c])
    PROVE  /\ QueuesOnce(Preempt(queues, c))
           /\ \A x \in Threads : InQueues(Preempt(queues, c), x) <=>
                 InQueues(queues, x) \/ (exec_cpu[x] = c /\ Running(x))
<1>1. /\ current_thread[c] # Null /\ exec_cpu[current_thread[c]] = c
      /\ \A x \in Threads : x = current_thread[c] <=> exec_cpu[x] = c /\ Running(x)
  BY NullAssumption, ThreadAssumption DEF BaseInv, HomeInv, Running
<1> QED BY <1>1, AddReadyPlaces DEF Preempt

LEMMA PlaceTimer ==
    ASSUME BaseInv, PlaceInv, NEW c \in Cpus, TimerInterrupt(c)
    PROVE  PlaceInv'
<1> DEFINE queues == Preempt(ready, c)
<1>1. /\ mode[c] = "thread" /\ Schedule(queues, c)
      /\ UNCHANGED <<pc, out, sem_waiting, message, ipi>>
  BY DEF TimerInterrupt, Interruptible, thread_vars, sem_vars, mail_vars
<1>2. /\ current_thread[c] \in Threads /\ ready \in ReadyQueues
      /\ Running(current_thread[c]) /\ QueuesOnce(ready)
  BY <1>1 DEF BaseInv, TypeOK, ReadyQueues, HomeInv, Running, PlaceInv, NoRepetition
<1>3. queues \in ReadyQueues /\ QueuesHome(queues)
  BY <1>2, PreemptHome DEF BaseInv, HomeInv
<1>4. ~Queued(current_thread[c])
  BY <1>2 DEF PlaceInv, SomewhereOnce
<1>5. /\ QueuesOnce(queues)
      /\ \A x \in Threads : InQueues(queues, x) <=> Queued(x) \/ (exec_cpu[x] = c /\ Running(x))
  BY <1>2, <1>4, PreemptPlaces DEF Queued
<1> HIDE DEF queues
<1> QED BY <1>1, <1>3, <1>5, PlaceSchedule

\* What every handler starts with.
LEMMA ReceivePlaces ==
    ASSUME BaseInv, PlaceInv, NEW c \in Cpus, NEW func, Receive(c, func),
           func \in {"CM_RESCHEDULE", "CM_SEM_WAIT", "CM_AWAKEN_THREAD"},
           current_thread' = [current_thread EXCEPT ![c] = Null],
           UNCHANGED <<pc, out, message>>
    PROVE  /\ current_thread[c] \in Threads /\ exec_cpu[current_thread[c]] = c
           /\ Running(current_thread[c]) /\ ~Queued(current_thread[c])
           /\ ready \in ReadyQueues
           /\ \A x \in Threads :
                 /\ Running(x)' <=> Running(x) /\ x # current_thread[c]
                 /\ Mailed(x)' <=>
                       Mailed(x) /\ ~(func = "CM_AWAKEN_THREAD" /\ x = message[c].ptr)
                 /\ Woken(x)' <=> Woken(x)
           /\ func = "CM_AWAKEN_THREAD" =>
                 message[c].ptr \in Threads /\ exec_cpu[message[c].ptr] = c /\ Mailed(message[c].ptr)
           /\ MessageInv'
<1> DEFINE old == current_thread[c]
           w == message[c].ptr
<1>1. /\ old \in Threads /\ ipi' = [ipi EXCEPT ![c] = {}] /\ ipi[c] # {}
      /\ message[c] \in Message /\ message[c].func = func
  BY ReceiveFacts DEF Receive, BaseInv
<1>2. /\ exec_cpu[old] = c /\ Running(old)
      /\ ready \in ReadyQueues /\ ipi \in [Cpus -> SUBSET Cpus]
      /\ current_thread \in [Cpus -> Threads \cup {Null}]
  BY <1>1 DEF BaseInv, HomeInv, Running, TypeOK, ReadyQueues
<1>3. ~Queued(old)
  BY <1>1, <1>2 DEF PlaceInv, SomewhereOnce
<1>4. \A x \in Threads : exec_cpu[x] \in Cpus /\ x # Null
  BY ThreadAssumption, NullAssumption
<1>5. \A x \in Threads : Running(x)' <=> Running(x) /\ x # old
  BY <1>1, <1>2, <1>4 DEF Running
<1>6. \A x \in Threads : Woken(x)' <=> Woken(x)
  BY DEF Woken, Waking
<1>7. func = "CM_AWAKEN_THREAD" => w \in Threads /\ exec_cpu[w] = c /\ Mailed(w)
  <2> SUFFICES ASSUME func = "CM_AWAKEN_THREAD"
               PROVE  w \in Threads /\ exec_cpu[w] = c /\ Mailed(w)
    OBVIOUS
  <2>1. message[c] \in AwakenMessage /\ w \in Threads
    BY <1>1, MessageFacts
  <2>2. exec_cpu[w] = c
    BY <2>1 DEF BaseInv, HomeInv
  <2> QED BY <1>1, <2>1, <2>2 DEF Mailed
<1>8. ASSUME NEW x \in Threads
      PROVE  Mailed(x)' <=> Mailed(x) /\ ~(func = "CM_AWAKEN_THREAD" /\ x = w)
  <2>1. CASE exec_cpu[x] = c
    <3>1. ~Mailed(x)'
      BY <1>1, <1>2, <2>1 DEF Mailed
    <3>2. Mailed(x) => func = "CM_AWAKEN_THREAD" /\ x = w
      BY <1>1, <2>1 DEF Mailed, AwakenMessage
    <3> QED BY <3>1, <3>2
  <2>2. CASE exec_cpu[x] # c
    <3>1. Mailed(x)' <=> Mailed(x)
      BY <1>1, <1>2, <1>4, <2>2 DEF Mailed
    <3> QED BY <1>7, <2>2, <3>1
  <2> QED BY <2>1, <2>2
<1>9. MessageInv'
  BY DEF PlaceInv, MessageInv
<1> QED BY <1>1, <1>2, <1>3, <1>5, <1>6, <1>7, <1>8, <1>9

\* CM_RESCHEDULE: the running thread goes back to its queue.
LEMMA PlaceReschedule ==
    ASSUME BaseInv, PlaceInv, NEW c \in Cpus, HandleReschedule(c)
    PROVE  PlaceInv'
<1> DEFINE old == current_thread[c]
<1>1. /\ Receive(c, "CM_RESCHEDULE") /\ ready' = Preempt(ready, c)
      /\ current_thread' = [current_thread EXCEPT ![c] = Null]
      /\ UNCHANGED <<pc, out, sem_waiting, message>>
  BY DEF HandleReschedule, thread_vars, sem_vars, mail_vars
<1>2. /\ old \in Threads /\ exec_cpu[old] = c /\ Running(old) /\ ~Queued(old)
      /\ ready \in ReadyQueues /\ MessageInv'
      /\ \A x \in Threads : /\ Running(x)' <=> Running(x) /\ x # old
                            /\ Mailed(x)' <=> Mailed(x)
                            /\ Woken(x)' <=> Woken(x)
  <2>1. /\ "CM_RESCHEDULE" \in {"CM_RESCHEDULE", "CM_SEM_WAIT", "CM_AWAKEN_THREAD"}
        /\ "CM_RESCHEDULE" # "CM_AWAKEN_THREAD"
    OBVIOUS
  <2>2. \A x \in Threads :
           Mailed(x)' <=> Mailed(x) /\ ~("CM_RESCHEDULE" = "CM_AWAKEN_THREAD" /\ x = message[c].ptr)
    BY <1>1, <2>1, ReceivePlaces
  <2>3. \A x \in Threads : Mailed(x)' <=> Mailed(x)
    BY <2>1, <2>2
  <2> QED BY <1>1, <2>1, <2>3, ReceivePlaces
<1>3. /\ QueuesOnce(ready')
      /\ \A x \in Threads : Queued(x)' <=> Queued(x) \/ (exec_cpu[x] = c /\ Running(x))
  BY <1>1, <1>2, PreemptPlaces DEF Queued, InQueues, PlaceInv, NoRepetition
<1>4. \A x \in Threads : exec_cpu[x] = c /\ Running(x) <=> x = old
  BY <1>2 DEF Running
<1>5. \A x \in Threads : OnOneList(x)' <=> OnOneList(x)
  BY <1>1 DEF OnOneList, Waiting
<1>6. SomewhereOnce'
  <2> SUFFICES ASSUME NEW x \in Threads PROVE SomewhereOnce!(x)'
    BY DEF SomewhereOnce
  <2>1. SomewhereOnce!(x)
    BY DEF PlaceInv, SomewhereOnce
  <2> QED BY <1>2, <1>3, <1>4, <1>5, <2>1
<1>7. NoRepetition'
  BY <1>1, <1>3 DEF PlaceInv, NoRepetition, Waiting, Waking
<1> QED BY <1>2, <1>6, <1>7 DEF PlaceInv

\* CM_SEM_WAIT: the running thread goes to the list of the semaphore.
LEMMA PlaceSemWait ==
    ASSUME BaseInv, PlaceInv, NEW c \in Cpus, HandleSemWait(c)
    PROVE  PlaceInv'
<1> DEFINE old == current_thread[c]
           s == message[c].ptr
           list == sem_waiting[s]
<1>1. /\ Receive(c, "CM_SEM_WAIT")
      /\ sem_waiting' = [sem_waiting EXCEPT ![s] = Append(list, old)]
      /\ current_thread' = [current_thread EXCEPT ![c] = Null]
      /\ UNCHANGED <<ready, pc, out, message>>
  BY DEF HandleSemWait, thread_vars, mail_vars
<1>2. /\ old \in Threads /\ Running(old) /\ MessageInv'
      /\ \A x \in Threads : /\ Running(x)' <=> Running(x) /\ x # old
                            /\ Mailed(x)' <=> Mailed(x)
                            /\ Woken(x)' <=> Woken(x)
  <2>1. /\ "CM_SEM_WAIT" \in {"CM_RESCHEDULE", "CM_SEM_WAIT", "CM_AWAKEN_THREAD"}
        /\ "CM_SEM_WAIT" # "CM_AWAKEN_THREAD"
    OBVIOUS
  <2>2. \A x \in Threads :
           Mailed(x)' <=> Mailed(x) /\ ~("CM_SEM_WAIT" = "CM_AWAKEN_THREAD" /\ x = message[c].ptr)
    BY <1>1, <2>1, ReceivePlaces
  <2>3. \A x \in Threads : Mailed(x)' <=> Mailed(x)
    BY <2>1, <2>2
  <2> QED BY <1>1, <2>1, <2>3, ReceivePlaces
<1>3. /\ s \in Sems /\ sem_waiting \in [Sems -> Seq(Threads)]
      /\ list \in Seq(Threads) /\ IsInjective(list)
  BY <1>1, ReceiveFacts, MessageFacts DEF BaseInv, TypeOK, PlaceInv, NoRepetition
<1>4. ~OnOneList(old) /\ ~Queued(old) /\ ~Woken(old) /\ ~Mailed(old)
  BY <1>2 DEF PlaceInv, SomewhereOnce
<1>5. old \notin Range(list)
  BY <1>3, <1>4 DEF OnOneList, Waiting
<1> HIDE DEF old, s, list
<1>6. Range(Append(list, old)) = Range(list) \cup {old} /\ IsInjective(Append(list, old))
  BY <1>2, <1>3, <1>5, AppendList
<1>7. sem_waiting'[s] = Append(list, old) /\ sem_waiting[s] = list
  BY <1>1, <1>3 DEF list
<1>8. \A r \in Sems : r # s => sem_waiting'[r] = sem_waiting[r]
  BY <1>1, <1>3
<1>9. \A x \in Threads, r \in Sems : Waiting(x, r)' <=> Waiting(x, r) \/ (x = old /\ r = s)
  <2> SUFFICES ASSUME NEW x \in Threads, NEW r \in Sems
               PROVE  Waiting(x, r)' <=> Waiting(x, r) \/ (x = old /\ r = s)
    OBVIOUS
  <2>1. CASE r = s
    BY <1>6, <1>7, <2>1 DEF Waiting
  <2>2. CASE r # s
    BY <1>8, <2>2 DEF Waiting
  <2> QED BY <2>1, <2>2
<1>10. \A x \in Threads : /\ OnOneList(x)' <=> OnOneList(x) \/ x = old
                          /\ Queued(x)' <=> Queued(x)
  BY <1>1, <1>3, <1>9 DEF OnOneList, Queued, InQueues
<1>11. SomewhereOnce'
  <2> SUFFICES ASSUME NEW x \in Threads PROVE SomewhereOnce!(x)'
    BY DEF SomewhereOnce
  <2>1. SomewhereOnce!(x)
    BY DEF PlaceInv, SomewhereOnce
  <2> QED BY <1>2, <1>4, <1>10, <2>1
<1>12. NoRepetition'
  <2>1. \A r \in Sems : IsInjective(sem_waiting'[r])
    BY <1>6, <1>7, <1>8 DEF PlaceInv, NoRepetition
  <2>2. \A x \in Threads : \A q, r \in Sems : Waiting(x, q)' /\ Waiting(x, r)' => q = r
    BY <1>4, <1>9 DEF PlaceInv, NoRepetition, OnOneList
  <2>3. \A x, u, v \in Threads : Waking(u, x)' /\ Waking(v, x)' => u = v
    BY <1>1 DEF PlaceInv, NoRepetition, Waking
  <2> QED BY <1>1, <2>1, <2>2, <2>3 DEF PlaceInv, NoRepetition, QueuesOnce
<1> QED BY <1>2, <1>11, <1>12 DEF PlaceInv

\* CM_AWAKEN_THREAD: the thread named and the running thread go to their queues.
LEMMA PlaceAwaken ==
    ASSUME BaseInv, PlaceInv, NEW c \in Cpus, HandleAwaken(c)
    PROVE  PlaceInv'
<1> DEFINE old == current_thread[c]
           w == message[c].ptr
           added == AddReady(ready, w)
<1>1. /\ Receive(c, "CM_AWAKEN_THREAD") /\ ready' = Preempt(added, c)
      /\ current_thread' = [current_thread EXCEPT ![c] = Null]
      /\ UNCHANGED <<pc, out, sem_waiting, message>>
  BY DEF HandleAwaken, thread_vars, sem_vars, mail_vars
<1>2. /\ old \in Threads /\ exec_cpu[old] = c /\ Running(old) /\ ~Queued(old)
      /\ ready \in ReadyQueues /\ MessageInv'
      /\ w \in Threads /\ Mailed(w)
      /\ \A x \in Threads : /\ Running(x)' <=> Running(x) /\ x # old
                            /\ Mailed(x)' <=> Mailed(x) /\ x # w
                            /\ Woken(x)' <=> Woken(x)
  BY <1>1, ReceivePlaces
<1>3. ~Running(w) /\ ~Queued(w) /\ ~OnOneList(w) /\ ~Woken(w)
  BY <1>2 DEF PlaceInv, SomewhereOnce
<1>4. /\ QueuesOnce(added) /\ added \in ReadyQueues
      /\ \A x \in Threads : InQueues(added, x) <=> Queued(x) \/ x = w
  BY <1>2, <1>3, AddReadyPlaces, AddReadyType DEF Queued, PlaceInv, NoRepetition
<1> HIDE DEF added, w
<1>5. ~InQueues(added, old)
  BY <1>2, <1>3, <1>4
<1>6. /\ QueuesOnce(ready')
      /\ \A x \in Threads : Queued(x)' <=> InQueues(added, x) \/ (exec_cpu[x] = c /\ Running(x))
  BY <1>1, <1>2, <1>4, <1>5, PreemptPlaces DEF Queued, InQueues
<1>7. \A x \in Threads : exec_cpu[x] = c /\ Running(x) <=> x = old
  BY <1>2 DEF Running
<1>8. \A x \in Threads : OnOneList(x)' <=> OnOneList(x)
  BY <1>1 DEF OnOneList, Waiting
<1>9. SomewhereOnce'
  <2> SUFFICES ASSUME NEW x \in Threads PROVE SomewhereOnce!(x)'
    BY DEF SomewhereOnce
  <2>1. SomewhereOnce!(x)
    BY DEF PlaceInv, SomewhereOnce
  <2> QED BY <1>2, <1>3, <1>4, <1>6, <1>7, <1>8, <2>1
<1>10. NoRepetition'
  BY <1>1, <1>6 DEF PlaceInv, NoRepetition, Waiting, Waking
<1> QED BY <1>2, <1>9, <1>10 DEF PlaceInv

LEMMA PlaceInterrupts ==
    ASSUME BaseInv, PlaceInv, NEW c \in Cpus, TimerInterrupt(c) \/ MessageStep(c)
    PROVE  PlaceInv'
<1> USE DEF sched_vars, thread_vars, sem_vars, mail_vars
<1>1. CASE ReleaseForWaiter(c)
  <2>1. /\ UNCHANGED <<current_thread, ready, pc, out, sem_waiting, message, ipi>>
    BY <1>1 DEF ReleaseForWaiter
  <2>2. SomewhereOnce' /\ NoRepetition'
    BY <2>1, PlaceQuiet DEF PlaceInv, Mailed, Waking
  <2> QED BY <2>1, <2>2 DEF PlaceInv, MessageInv
<1>2. CASE FinishMessage(c)
  <2>1. /\ mode[c] = "schedule" /\ Schedule(ready, c)
        /\ UNCHANGED <<pc, out, sem_waiting, message, ipi>>
    BY <1>2 DEF FinishMessage
  <2>2. /\ current_thread[c] \notin Threads /\ ready \in ReadyQueues
        /\ QueuesHome(ready) /\ QueuesOnce(ready)
    BY <2>1 DEF BaseInv, TypeOK, ReadyQueues, HomeInv, PlaceInv, NoRepetition
  <2>3. \A x \in Threads : InQueues(ready, x) <=> Queued(x) \/ (exec_cpu[x] = c /\ Running(x))
    BY <2>2 DEF Queued, Running
  <2> QED BY <2>1, <2>2, <2>3, PlaceSchedule
<1> QED BY <1>1, <1>2, PlaceTimer, PlaceReschedule, PlaceSemWait, PlaceAwaken DEF MessageStep

LEMMA InitPlaces == Init => PlaceInv
<1> SUFFICES ASSUME Init PROVE PlaceInv
  OBVIOUS
<1> DEFINE first(c) == FirstNonEmpty(boot_ready[c])
<1>1. /\ current_thread = [c \in Cpus |-> Head(boot_ready[c][first(c)])]
      /\ ready = [c \in Cpus |-> [boot_ready[c] EXCEPT ![first(c)] = Tail(@)]]
      /\ pc = [t \in Threads |-> "run"] /\ out = [t \in Threads |-> NoMessage]
      /\ sem_waiting = [s \in Sems |-> <<>>] /\ ipi = [c \in Cpus |-> {}]
  BY DEF Init
<1>2. \A c \in Cpus : /\ boot_ready[c] \in [Priorities -> Seq(Threads)]
                      /\ first(c) \in Priorities /\ boot_ready[c][first(c)] # <<>>
  BY BootType, FirstNonEmptyWorks DEF ReadyQueues
<1> HIDE DEF first
<1>3. ASSUME NEW c \in Cpus, NEW p \in Priorities
      PROVE  /\ IsInjective(boot_ready[c][p])
             /\ \A t \in Range(boot_ready[c][p]) : exec_cpu[t] = c /\ priority[t] = p
  <2> DEFINE q == boot_ready[c][p]
  <2>1. q \in Seq(Threads) /\ DOMAIN q = 1 .. Len(q)
    BY <1>2
  <2>2. \A i, j \in 1 .. Len(q) : q[i] = q[j] => i = j
    BY BootAssumption
  <2>3. \A i \in 1 .. Len(q) : exec_cpu[q[i]] = c /\ priority[q[i]] = p
    BY BootAssumption
  <2> HIDE DEF q
  <2>4. IsInjective(q)
    BY <2>1, <2>2 DEF IsInjective
  <2>5. \A t \in Range(q) : exec_cpu[t] = c /\ priority[t] = p
    BY <2>1, <2>3 DEF Range
  <2> QED BY <2>4, <2>5 DEF q
<1>4. ASSUME NEW t \in Threads PROVE t \in Range(boot_ready[exec_cpu[t]][priority[t]])
  <2>1. exec_cpu[t] \in Cpus /\ priority[t] \in Priorities
    BY ThreadAssumption
  <2>2. boot_ready[exec_cpu[t]][priority[t]] \in Seq(Threads)
    BY <1>2, <2>1
  <2>3. PICK i \in 1 .. Len(boot_ready[exec_cpu[t]][priority[t]]) :
           boot_ready[exec_cpu[t]][priority[t]][i] = t
    BY BootAssumption
  <2> QED BY <2>2, <2>3 DEF Range
<1>5. ASSUME NEW c \in Cpus
      PROVE  LET q == boot_ready[c][first(c)] IN
             /\ current_thread[c] \in Range(q)
             /\ ready[c][first(c)] = Tail(q)
             /\ Range(Tail(q)) = Range(q) \ {current_thread[c]} /\ IsInjective(Tail(q))
             /\ \A p \in Priorities : p # first(c) => ready[c][p] = boot_ready[c][p]
  <2> DEFINE q == boot_ready[c][first(c)]
  <2>1. /\ q \in Seq(Threads) /\ q # <<>> /\ IsInjective(q)
        /\ current_thread[c] = Head(q) /\ ready[c][first(c)] = Tail(q)
        /\ \A p \in Priorities : p # first(c) => ready[c][p] = boot_ready[c][p]
    BY <1>1, <1>2, <1>3
  <2> HIDE DEF q
  <2>2. Head(q) \in Range(q) /\ Range(Tail(q)) = Range(q) \ {Head(q)} /\ IsInjective(Tail(q))
    BY <2>1, TailList
  <2> QED BY <2>1, <2>2 DEF q
<1>6. ASSUME NEW t \in Threads
      PROVE  Queued(t) <=> ~Running(t)
  <2> DEFINE c == exec_cpu[t]
  <2>1. c \in Cpus /\ priority[t] \in Priorities
    BY ThreadAssumption
  <2>2. t \in Range(boot_ready[c][priority[t]])
    BY <1>4
  <2> HIDE DEF c
  <2>3. /\ exec_cpu[current_thread[c]] = c /\ priority[current_thread[c]] = first(c)
    BY <1>2, <1>3, <1>5, <2>1
  <2>4. CASE priority[t] = first(c)
    BY <1>5, <2>1, <2>2, <2>4 DEF Queued, InQueues, Running, c
  <2>5. CASE priority[t] # first(c)
    BY <1>5, <2>1, <2>2, <2>3, <2>5 DEF Queued, InQueues, Running, c
  <2> QED BY <2>4, <2>5
<1>7. \A t, u \in Threads : ~Waking(u, t)
  BY <1>1 DEF Waking, SendSteps
<1>8. \A t \in Threads : /\ ~Mailed(t)
                         /\ \A s \in Sems : ~Waiting(t, s)
  BY <1>1, ThreadAssumption DEF Mailed, Waiting, Range
<1>9. SomewhereOnce
  BY <1>6, <1>7, <1>8 DEF SomewhereOnce, OnOneList, Woken
<1>10. NoRepetition
  <2>1. \A c \in Cpus, p \in Priorities : IsInjective(ready[c][p])
    BY <1>3, <1>5
  <2>2. \A s \in Sems : IsInjective(sem_waiting[s])
    BY <1>1 DEF IsInjective
  <2> QED BY <1>7, <1>8, <2>1, <2>2 DEF NoRepetition, QueuesOnce
<1>11. MessageInv
  BY <1>1 DEF MessageInv
<1> QED BY <1>9, <1>10, <1>11 DEF PlaceInv

LEMMA PlaceKept == IcrSafe => (Spec => [](BaseInv /\ PlaceInv))
<1> SUFFICES ASSUME IcrSafe PROVE Spec => [](BaseInv /\ PlaceInv)
  OBVIOUS
<1>1. ASSUME BaseInv, PlaceInv, [Next]_vars PROVE PlaceInv'
  <2>1. CASE \E t \in Threads : ThreadStep(t)
    BY <1>1, <2>1, PlaceThreadStep
  <2>2. CASE \E c \in Cpus : TimerInterrupt(c) \/ MessageStep(c)
    BY <1>1, <2>2, PlaceInterrupts
  <2>3. CASE UNCHANGED vars
    <3>1. UNCHANGED <<current_thread, ready, sem_waiting, message, ipi, pc, out>>
      BY <2>3 DEF vars, sched_vars, thread_vars, sem_vars, mail_vars
    <3>2. SomewhereOnce' /\ NoRepetition'
      BY <1>1, <3>1, PlaceQuiet DEF PlaceInv, Mailed, Waking
    <3> QED BY <1>1, <3>1, <3>2 DEF PlaceInv, MessageInv
  <2> QED BY <1>1, <2>1, <2>2, <2>3 DEF Next
<1>2. Spec => []BaseInv
  <2>1. TypeOK /\ HomeInv /\ MailInv => BaseInv
    BY DEF BaseInv
  <2> QED BY <2>1, TypeCorrect, HomeKept, MailKept, PTL
<1> QED BY <1>1, <1>2, InitPlaces, PTL DEF Spec

\* The five predicates say what Places(t) holds.
LEMMA OnePlace ==
    ASSUME BaseInv, PlaceInv, NEW t \in Threads
    PROVE  \E place \in Places(t) : Places(t) = {place}
<1> DEFINE running == OnCpus(t)
           at(c, p) == {<<"ready", c, p, i>> : i \in {i \in DOMAIN ready[c][p] : ready[c][p][i] = t}}
           queued == InReadyQueues(t)
           on(s) == {<<"waiting", s, i>> : i \in {i \in DOMAIN sem_waiting[s] : sem_waiting[s][i] = t}}
           waiting == InSemLists(t)
           waking == WithSignallers(t)
           mailed == InMailboxes(t)
           home == exec_cpu[t]
           queue == ready[home][priority[t]]
<1>1. Places(t) = running \cup queued \cup waiting \cup waking \cup mailed
  BY DEF Places
<1>2. home \in Cpus /\ priority[t] \in Priorities /\ queue \in Seq(Threads)
  BY ThreadAssumption DEF BaseInv, TypeOK
<1>3. running = IF Running(t) THEN {<<"running", home>>} ELSE {}
  <2>1. \A c \in Cpus : current_thread[c] = t => c = home
    BY DEF BaseInv, HomeInv
  <2>2. \A c \in Cpus : current_thread[c] = t <=> Running(t) /\ c = home
    BY <1>2, <2>1 DEF Running
  <2> QED BY <1>2, <2>2 DEF OnCpus
<1>4. /\ ~Queued(t) => queued = {}
      /\ Queued(t) => \E x : queued = {x}
  <2>1. \A c \in Cpus, p \in Priorities : \A i \in DOMAIN ready[c][p] :
           ready[c][p][i] = t => c = home /\ p = priority[t]
    BY DEF BaseInv, HomeInv, QueuesHome, Range
  <2>2. \A c \in Cpus, p \in Priorities : at(c, p) # {} => c = home /\ p = priority[t]
    BY <2>1
  <2>3. queued = at(home, priority[t])
    <3>1. queued = UNION {at(c, p) : c \in Cpus, p \in Priorities}
      BY DEF InReadyQueues
    <3> HIDE DEF queued, at, home
    <3>2. \A x : x \in queued <=> \E c \in Cpus, p \in Priorities : x \in at(c, p)
      BY <3>1
    <3> QED BY <1>2, <2>2, <3>2
  <2>4. at(home, priority[t]) =
           {<<"ready", home, priority[t], i>> : i \in {i \in DOMAIN queue : queue[i] = t}}
    OBVIOUS
  <2>5. Queued(t) <=> \E i \in DOMAIN queue : queue[i] = t
    BY DEF Queued, InQueues, Range
  <2>6. IsInjective(queue)
    BY <1>2 DEF PlaceInv, NoRepetition, QueuesOnce
  <2> HIDE DEF queued, queue, home, at
  <2>7. ASSUME Queued(t) PROVE \E x : queued = {x}
    <3>1. PICK i \in DOMAIN queue : queue[i] = t
      BY <2>5, <2>7
    <3>2. {j \in DOMAIN queue : queue[j] = t} = {i}
      BY <2>6, <3>1 DEF IsInjective
    <3>3. queued = {<<"ready", home, priority[t], i>>}
      BY <2>3, <2>4, <3>2
    <3> QED BY <3>3
  <2>8. ASSUME ~Queued(t) PROVE queued = {}
    BY <2>3, <2>4, <2>5, <2>8
  <2> QED BY <2>7, <2>8
<1>5. /\ ~OnOneList(t) => waiting = {}
      /\ OnOneList(t) => \E x : waiting = {x}
  <2>1. \A s \in Sems : Waiting(t, s) <=> \E i \in DOMAIN sem_waiting[s] : sem_waiting[s][i] = t
    BY DEF Waiting, Range
  <2>2. \A s \in Sems : on(s) # {} <=> Waiting(t, s)
    BY <2>1
  <2>3. ASSUME ~OnOneList(t) PROVE waiting = {}
    BY <2>2, <2>3 DEF OnOneList, InSemLists
  <2>4. ASSUME OnOneList(t) PROVE \E x : waiting = {x}
    <3>1. PICK s \in Sems : Waiting(t, s)
      BY <2>4 DEF OnOneList
    <3>2. \A r \in Sems : r # s => on(r) = {}
      BY <2>2, <3>1 DEF PlaceInv, NoRepetition
    <3>3. waiting = on(s)
      <4> HIDE DEF on
      <4>1. \A x : x \in waiting => x \in on(s)
        BY <3>2 DEF InSemLists, on
      <4>2. on(s) \subseteq waiting
        BY <3>1 DEF InSemLists, on
      <4> QED BY <4>1, <4>2
    <3>4. PICK i \in DOMAIN sem_waiting[s] : sem_waiting[s][i] = t
      BY <2>1, <3>1
    <3>5. IsInjective(sem_waiting[s])
      BY <3>1 DEF PlaceInv, NoRepetition
    <3>6. {j \in DOMAIN sem_waiting[s] : sem_waiting[s][j] = t} = {i}
      BY <3>4, <3>5 DEF IsInjective
    <3>7. on(s) = {<<"waiting", s, i>>}
      BY <3>6
    <3> QED BY <3>3, <3>7
  <2> QED BY <2>3, <2>4
<1>6. /\ ~Woken(t) => waking = {}
      /\ Woken(t) => \E x : waking = {x}
  <2>1. ASSUME Woken(t) PROVE \E x : waking = {x}
    <3>1. PICK u \in Threads : Waking(u, t)
      BY <2>1 DEF Woken
    <3>2. {v \in Threads : Waking(v, t)} = {u}
      BY <3>1 DEF PlaceInv, NoRepetition
    <3>3. waking = {<<"signaller", u>>}
      BY <3>2 DEF WithSignallers
    <3> QED BY <3>3
  <2> QED BY <2>1 DEF Woken, WithSignallers
<1>7. /\ ~Mailed(t) => mailed = {}
      /\ Mailed(t) => \E x : mailed = {x}
  <2>1. \A c \in Cpus : message[c] \in AwakenMessage /\ message[c].ptr = t => c = home
    BY DEF BaseInv, HomeInv
  <2>2. \A c \in Cpus :
           ipi[c] # {} /\ message[c] \in AwakenMessage /\ message[c].ptr = t <=>
              Mailed(t) /\ c = home
    BY <1>2, <2>1 DEF Mailed
  <2>3. ASSUME Mailed(t) PROVE mailed = {<<"mailbox", home>>}
    BY <1>2, <2>2, <2>3 DEF InMailboxes
  <2>4. ASSUME ~Mailed(t) PROVE mailed = {}
    BY <2>2, <2>4 DEF InMailboxes
  <2> QED BY <2>3, <2>4
<1>8. SomewhereOnce!(t)
  BY DEF PlaceInv, SomewhereOnce
<1> HIDE DEF running, queued, waiting, waking, mailed, home
<1>9. PICK x : running \cup queued \cup waiting \cup waking \cup mailed = {x}
  <2>1. CASE Running(t)
    BY <1>3, <1>4, <1>5, <1>6, <1>7, <1>8, <2>1
  <2>2. CASE Queued(t)
    BY <1>3, <1>4, <1>5, <1>6, <1>7, <1>8, <2>2
  <2>3. CASE OnOneList(t)
    BY <1>3, <1>4, <1>5, <1>6, <1>7, <1>8, <2>3
  <2>4. CASE Woken(t)
    BY <1>3, <1>4, <1>5, <1>6, <1>7, <1>8, <2>4
  <2>5. CASE Mailed(t)
    BY <1>3, <1>4, <1>5, <1>6, <1>7, <1>8, <2>5
  <2> QED BY <1>8, <2>1, <2>2, <2>3, <2>4, <2>5
<1> QED BY <1>1, <1>9

\* A thread is in exactly one place, a ready queue, a semaphore's list, a cpu or
\* a message, provided no interrupt can send a message to the wrong cpu.
THEOREM PlaceIsUnique == IcrSafe => (Spec => []ThreadInOnePlace)
<1>1. BaseInv /\ PlaceInv => ThreadInOnePlace
  BY OnePlace DEF ThreadInOnePlace
<1> QED BY <1>1, PlaceKept, PTL

\* When the timer chooses the thread it has just preempted, that thread was
\* alone in its queue and the queues are as they were.
LEMMA SameThreadSameQueues ==
    ASSUME BaseInv, PlaceInv, NEW c \in Cpus, TimerInterrupt(c),
           current_thread'[c] = current_thread[c]
    PROVE  ready'[c] = ready[c]
<1> DEFINE t == current_thread[c]
           p == priority[t]
           q == ready[c][p]
           queues == Preempt(ready, c)
<1>1. mode[c] = "thread" /\ Schedule(queues, c)
  BY DEF TimerInterrupt, Interruptible
<1>2. /\ t \in Threads /\ t # Null /\ exec_cpu[t] = c /\ p \in Priorities
      /\ ready \in ReadyQueues /\ q \in Seq(Threads) /\ Running(t)
  BY <1>1, NullAssumption, ThreadAssumption
     DEF BaseInv, TypeOK, HomeInv, ReadyQueues, Running
<1>3. t \notin Range(q)
  BY <1>2 DEF PlaceInv, SomewhereOnce, Queued, InQueues
<1>4. queues \in ReadyQueues /\ QueuesHome(queues) /\ queues = AddReady(ready, t)
  BY <1>2, PreemptHome DEF BaseInv, HomeInv, Preempt
<1>5. /\ queues[c][p] = Append(q, t)
      /\ \A r \in Priorities : r # p => queues[c][r] = ready[c][r]
  <2>1. queues = [ready EXCEPT ![c][p] = Append(@, t)]
    BY <1>2, <1>4 DEF AddReady
  <2> HIDE DEF queues, t, p
  <2> QED BY <1>2, <2>1 DEF ReadyQueues
<1>6. /\ t = Head(queues[c][p]) /\ ready'[c][p] = Tail(queues[c][p])
      /\ \A r \in Priorities : r # p => ready'[c][r] = queues[c][r]
      /\ ready' \in ReadyQueues
  BY <1>1, <1>4, ScheduleHome DEF BaseInv
<1> HIDE DEF t, p, q, queues
<1>7. q = <<>>
  <2> SUFFICES ASSUME q # <<>> PROVE FALSE
    OBVIOUS
  <2>1. Head(Append(q, t)) = Head(q)
    <3>1. Len(q) \in Nat /\ Len(q) # 0 /\ Head(q) = q[1] /\ Append(q, t)[1] = q[1]
      BY <1>2
    <3>2. Head(Append(q, t)) = Append(q, t)[1]
      OBVIOUS
    <3> QED BY <3>1, <3>2
  <2>2. Head(q) \in Range(q)
    BY <1>2, TailList
  <2> QED BY <1>3, <1>5, <1>6, <2>1, <2>2
<1>8. ready'[c][p] = ready[c][p]
  <2>1. Tail(Append(q, t)) = <<>>
    BY <1>2, <1>7
  <2> QED BY <1>5, <1>6, <1>7, <2>1 DEF q
<1>9. \A r \in Priorities : ready'[c][r] = ready[c][r]
  BY <1>5, <1>6, <1>8
<1> QED BY <1>2, <1>6, <1>9 DEF ReadyQueues

\* The queues of a cpu change only when it changes the thread it executes, so
\* that no thread is linked into them, or out of them, twice.
THEOREM QueuesAreOwn == IcrSafe => (Spec => QueuesChangeWithDispatch)
<1>1. ASSUME BaseInv, PlaceInv, [Next]_vars, NEW c \in Cpus, ready'[c] # ready[c]
      PROVE  current_thread'[c] # current_thread[c]
  <2> USE DEF sched_vars, thread_vars, sem_vars, mail_vars
  <2>n. Null \notin Threads /\ current_thread \in [Cpus -> Threads \cup {Null}]
    BY <1>1, NullAssumption DEF BaseInv, TypeOK
  <2>1. ASSUME NEW e \in Cpus, TimerInterrupt(e) \/ MessageStep(e), e # c
        PROVE  ready'[c] = ready[c]
    <3> DEFINE added == AddReady(ready, message[e].ptr)
    <3>r. ready \in ReadyQueues /\ QueuesHome(ready)
      BY <1>1 DEF BaseInv, TypeOK, ReadyQueues, HomeInv
    <3>1. CASE TimerInterrupt(e)
      <4>1. /\ Preempt(ready, e) \in ReadyQueues /\ QueuesHome(Preempt(ready, e))
            /\ Preempt(ready, e)[c] = ready[c] /\ Schedule(Preempt(ready, e), e)
        BY <1>1, <2>1, <3>1, <3>r, PreemptHome DEF TimerInterrupt, BaseInv
      <4> QED BY <1>1, <2>1, <4>1, ScheduleHome DEF BaseInv
    <3>2. CASE HandleReschedule(e)
      BY <1>1, <2>1, <3>2, <3>r, PreemptHome DEF HandleReschedule, BaseInv
    <3>3. CASE HandleAwaken(e)
      <4>1. Receive(e, "CM_AWAKEN_THREAD") /\ ready' = Preempt(added, e)
        BY <1>1, <3>3 DEF HandleAwaken
      <4>2. message[e].ptr \in Threads /\ exec_cpu[message[e].ptr] = e
        BY <1>1, <4>1, ReceiveFacts, MessageFacts DEF BaseInv, HomeInv
      <4>3. added \in ReadyQueues /\ QueuesHome(added) /\ added[c] = ready[c]
        BY <1>1, <2>1, <3>r, <4>2, AddReadyHome, AddReadyQueues
      <4> HIDE DEF added
      <4> QED BY <1>1, <2>1, <4>1, <4>3, PreemptHome DEF BaseInv
    <3>4. CASE HandleSemWait(e) \/ ReleaseForWaiter(e)
      BY <1>1, <3>4 DEF HandleSemWait, ReleaseForWaiter
    <3>5. CASE FinishMessage(e)
      BY <1>1, <2>1, <3>5, <3>r, ScheduleHome DEF FinishMessage, BaseInv
    <3> QED BY <1>1, <2>1, <3>1, <3>2, <3>3, <3>4, <3>5 DEF MessageStep
  <2>2. ASSUME NEW t \in Threads, ThreadStep(t) PROVE ready'[c] = ready[c]
    BY <1>1, <2>2 DEF ThreadStep, CallWait, CallSignal, CallReschedule, Enter, AcquireSemLock,
       TakeUnit, AskToBlock, PopWaiter, AddUnit, ReleaseSemLock, AcquireMsgLock, CopyMessage,
       WriteIcrHigh, WriteIcrLow, Return
  <2>3. CASE TimerInterrupt(c)
    BY <1>1, <2>3, SameThreadSameQueues
  <2>4. CASE HandleReschedule(c) \/ HandleSemWait(c) \/ HandleAwaken(c)
    <3>1. PICK func \in {"CM_RESCHEDULE", "CM_SEM_WAIT", "CM_AWAKEN_THREAD"} : Receive(c, func)
      BY <1>1, <2>4 DEF HandleReschedule, HandleSemWait, HandleAwaken
    <3>2. current_thread[c] \in Threads
      BY <1>1, <3>1, ReceiveFacts DEF BaseInv
    <3> QED BY <1>1, <2>n, <2>4, <3>2 DEF HandleReschedule, HandleSemWait, HandleAwaken
  <2>5. CASE ReleaseForWaiter(c)
    BY <1>1, <2>5 DEF ReleaseForWaiter
  <2>6. CASE FinishMessage(c)
    <3>1. current_thread[c] \notin Threads
      BY <1>1, <2>6 DEF FinishMessage, BaseInv, TypeOK
    <3>2. current_thread'[c] \in Threads
      BY <1>1, <2>6, ScheduleType DEF FinishMessage, BaseInv, TypeOK, ReadyQueues
    <3> QED BY <1>1, <3>1, <3>2
  <2>7. CASE UNCHANGED vars
    BY <1>1, <2>7 DEF vars
  <2> QED BY <1>1, <2>1, <2>2, <2>3, <2>4, <2>5, <2>6, <2>7 DEF Next, MessageStep
<1>2. ASSUME BaseInv, PlaceInv, [Next]_vars
      PROVE  [\A c \in Cpus : ready'[c] # ready[c] => current_thread'[c] # current_thread[c]]_vars
  BY <1>1, <1>2
<1> QED BY <1>2, PlaceKept, PTL DEF Spec, QueuesChangeWithDispatch

-----------------------------------------------------------------------------
(***************************************************************************)
(* The semaphores: who answers for a lock, who is on a list, and the       *)
(* promise of SemaphoreSpec.  The proofs need what PlaceIsUnique needs and *)
(* that a cpu takes an interrupt it sent to itself before anything else,   *)
(* which is what semaphore_wait relies on when it blocks.                  *)
(***************************************************************************)

Prompt == IcrSafe /\ ~SelfIpiLag

-----------------------------------------------------------------------------
(* What a call in progress says of its semaphore and its message.          *)

CallInv ==
    /\ \A t \in Threads :
          /\ op[t] = "none" <=> pc[t] = "run"
          /\ op[t] \in {"wait", "signal"} => sem[t] \in Sems
          /\ pc[t] \in {"sem_acquire", "sem_body", "sem_release"} => op[t] \in {"wait", "signal"}
          /\ op[t] = "wait" /\ out[t] # NoMessage =>
                out[t] = [dst |-> exec_cpu[t], func |-> "CM_SEM_WAIT", ptr |-> sem[t]]
          /\ out[t] \in SemWaitMessage => op[t] = "wait"
          /\ op[t] = "wait" /\ pc[t] = "sem_release" => out[t] = NoMessage
    /\ \A c \in Cpus : ipi[c] # {} => message[c] # NoMessage

\* The invariants the proofs about the semaphores start from.
CoreInv == BaseInv /\ PlaceInv /\ CallInv

LEMMA CallThreadStep ==
    ASSUME CoreInv, NEW t \in Threads, ThreadStep(t)
    PROVE  CallInv'
<1> USE DEF sched_vars, thread_vars, sem_vars, mail_vars, Goto
<1>b. /\ pc \in [Threads -> Steps] /\ op \in [Threads -> Ops]
      /\ sem \in [Threads -> Sems \cup {Null}]
      /\ out \in [Threads -> Message \cup {NoMessage}]
      /\ NoMessage \notin SemWaitMessage
      /\ pc[t] \in {"run", "sem_acquire", "sem_body"} => out[t] = NoMessage
  BY DEF CoreInv, BaseInv, TypeOK, NoMessage, SemWaitMessage, PlaceInv, MessageInv
<1>c. CallInv
  BY DEF CoreInv
<1>1. CASE CallWait(t) \/ CallSignal(t)
  BY <1>1, <1>b, <1>c DEF CallWait, CallSignal, Enter, CallInv
<1>2. CASE CallReschedule(t)
  <2>1. out'[t] \notin SemWaitMessage
    BY <1>2, <1>b DEF CallReschedule, SemWaitMessage
  <2> QED BY <1>2, <1>b, <1>c, <2>1 DEF CallReschedule, Enter, CallInv
<1>3. CASE AcquireSemLock(t) \/ TakeUnit(t) \/ AddUnit(t)
  BY <1>3, <1>b, <1>c DEF AcquireSemLock, TakeUnit, AddUnit, CallInv
<1>4. CASE AskToBlock(t)
  BY <1>4, <1>b, <1>c DEF AskToBlock, CallInv
<1>5. CASE PopWaiter(t)
  <2>1. out'[t] \notin SemWaitMessage
    BY <1>5, <1>b DEF PopWaiter, SemWaitMessage
  <2> QED BY <1>5, <1>b, <1>c, <2>1 DEF PopWaiter, CallInv
<1>6. CASE ReleaseSemLock(t)
  BY <1>6, <1>b, <1>c DEF ReleaseSemLock, CallInv
<1>7. CASE AcquireMsgLock(t) \/ WriteIcrHigh(t)
  BY <1>7, <1>b, <1>c DEF AcquireMsgLock, WriteIcrHigh, CallInv
<1>8. CASE CopyMessage(t)
  <2>1. out[t] # NoMessage /\ message \in [Cpus -> Message \cup {NoMessage}]
    BY <1>8, MessageFacts DEF CopyMessage, CoreInv, BaseInv, TypeOK, SendSteps
  <2>2. \A c \in Cpus : ipi'[c] # {} => message'[c] # NoMessage
    BY <1>8, <1>c, <2>1 DEF CopyMessage, CallInv
  <2> QED BY <1>8, <1>b, <1>c, <2>2 DEF CopyMessage, CallInv
<1>9. CASE WriteIcrLow(t)
  <2>1. /\ out[t] # NoMessage /\ message[out[t].dst] = out[t]
        /\ icr_high[exec_cpu[t]] = out[t].dst /\ ipi \in [Cpus -> SUBSET Cpus]
    BY <1>9, MessageFacts DEF WriteIcrLow, CoreInv, BaseInv, TypeOK, SendSteps, MailInv,
       PlaceInv, MessageInv
  <2>2. \A c \in Cpus : ipi'[c] # {} => message'[c] # NoMessage
    BY <1>9, <1>c, <2>1 DEF WriteIcrLow, CallInv
  <2> QED BY <1>9, <1>b, <1>c, <2>2 DEF WriteIcrLow, CallInv
<1>10. CASE Return(t)
  BY <1>10, <1>b, <1>c DEF Return, CallInv
<1> QED BY <1>1, <1>2, <1>3, <1>4, <1>5, <1>6, <1>7, <1>8, <1>9, <1>10 DEF ThreadStep

LEMMA CallInterrupts ==
    ASSUME CoreInv, NEW c \in Cpus, TimerInterrupt(c) \/ MessageStep(c)
    PROVE  CallInv'
<1>1. /\ UNCHANGED <<pc, op, sem, out, message>>
      /\ \A e \in Cpus : ipi'[e] # {} => ipi[e] # {}
  BY DEF TimerInterrupt, MessageStep, HandleReschedule, HandleSemWait, HandleAwaken, Receive,
         ReleaseForWaiter, FinishMessage, thread_vars, mail_vars, CoreInv, BaseInv, TypeOK
<1> QED BY <1>1 DEF CoreInv, CallInv

LEMMA CallKept == IcrSafe => (Spec => []CoreInv)
<1> SUFFICES ASSUME IcrSafe PROVE Spec => []CoreInv
  OBVIOUS
<1>1. Init => CallInv
  BY DEF Init, CallInv, SemWaitMessage, NoMessage
<1>2. ASSUME BaseInv, PlaceInv, CallInv, [Next]_vars PROVE CallInv'
  <2>1. CoreInv
    BY <1>2 DEF CoreInv
  <2>2. CASE UNCHANGED vars
    BY <1>2, <2>2 DEF CallInv, vars, thread_vars, mail_vars
  <2> QED BY <1>2, <2>1, <2>2, CallThreadStep, CallInterrupts DEF Next
<1>3. BaseInv /\ PlaceInv /\ CallInv => CoreInv
  BY DEF CoreInv
<1> QED BY <1>1, <1>2, <1>3, PlaceKept, PTL DEF Spec

-----------------------------------------------------------------------------
(* A thread that asked to block is still the one its cpu executes when the *)
(* interrupt is taken.                                                     *)

RequestInv ==
    \A c \in Cpus : ipi[c] # {} /\ message[c] \in SemWaitMessage =>
        /\ c \in ipi[c] /\ current_thread[c] \in Threads
        /\ BlockRequested(current_thread[c])

\* What a request looks like, and that it stops its cpu.
LEMMA RequestFacts ==
    ASSUME CoreInv, RequestInv, ~SelfIpiLag, NEW t \in Threads, BlockRequested(t)
    PROVE  LET c == exec_cpu[t] IN
           /\ c \in Cpus /\ current_thread[c] = t /\ mode[c] = "thread" /\ SelfIpiDue(c)
           /\ op[t] = "wait" /\ pc[t] = "return" /\ sem[t] \in Sems
           /\ ipi[c] # {} /\ message[c] = out[t]
           /\ out[t] = [dst |-> c, func |-> "CM_SEM_WAIT", ptr |-> sem[t]]
           /\ out[t] \in SemWaitMessage
<1> DEFINE c == exec_cpu[t]
<1>1. /\ c \in Cpus /\ current_thread[c] = t /\ mode[c] = "thread"
      /\ op[t] = "wait" /\ pc[t] = "return" /\ ipi[c] # {} /\ message[c] = out[t]
  BY ThreadAssumption DEF BlockRequested, CoreInv, BaseInv, TypeOK
<1>2. /\ out[t] = [dst |-> c, func |-> "CM_SEM_WAIT", ptr |-> sem[t]] /\ sem[t] \in Sems
  BY <1>1 DEF CoreInv, CallInv
<1>3. out[t] \in SemWaitMessage
  BY <1>1, <1>2 DEF SemWaitMessage
<1>4. SelfIpiDue(c)
  BY <1>1, <1>3 DEF RequestInv, SelfIpiDue
<1> QED BY <1>1, <1>2, <1>3, <1>4

\* A thread that runs has made no request, nor has another one of its cpu.
LEMMA RunnerMadeNoRequest ==
    ASSUME CoreInv, RequestInv, ~SelfIpiLag, NEW t \in Threads, Runs(t),
           NEW u \in Threads, exec_cpu[u] = exec_cpu[t]
    PROVE  ~BlockRequested(u)
BY RequestFacts DEF Runs

\* Only sending the interrupt for CM_SEM_WAIT makes a request.
LEMMA RequestThreadStep ==
    ASSUME CoreInv, RequestInv, ~SelfIpiLag, NEW t \in Threads, ThreadStep(t)
    PROVE  /\ RequestInv'
           /\ \A u \in Threads : BlockRequested(u)' <=>
                 BlockRequested(u) \/ (u = t /\ pc[t] = "icr_low" /\ op[t] = "wait")
<1> USE DEF sched_vars, thread_vars, sem_vars, mail_vars, Goto
<1>t. /\ pc \in [Threads -> Steps] /\ out \in [Threads -> Message \cup {NoMessage}]
      /\ op \in [Threads -> Ops] /\ exec_cpu \in [Threads -> Cpus]
      /\ ipi \in [Cpus -> SUBSET Cpus] /\ message \in [Cpus -> Message \cup {NoMessage}]
  BY ThreadAssumption DEF CoreInv, BaseInv, TypeOK
<1>r. Runs(t) /\ ~BlockRequested(t) /\ current_thread[exec_cpu[t]] = t
  <2>1. Runs(t)
    BY DEF ThreadStep, CallWait, CallSignal, CallReschedule, Enter, AcquireSemLock, TakeUnit,
       AskToBlock, PopWaiter, AddUnit, ReleaseSemLock, AcquireMsgLock, CopyMessage,
       WriteIcrHigh, WriteIcrLow, Return
  <2> QED BY <2>1, RunnerMadeNoRequest DEF Runs
<1>o. /\ UNCHANGED current_thread
      /\ \A u \in Threads : u # t => pc'[u] = pc[u] /\ op'[u] = op[u] /\ out'[u] = out[u]
  BY <1>t DEF ThreadStep, CallWait, CallSignal, CallReschedule, Enter, AcquireSemLock, TakeUnit,
     AskToBlock, PopWaiter, AddUnit, ReleaseSemLock, AcquireMsgLock, CopyMessage,
     WriteIcrHigh, WriteIcrLow, Return
<1>1. CASE WriteIcrLow(t)
  <2> DEFINE c == out[t].dst
  <2>1. /\ pc[t] = "icr_low" /\ pc' = [pc EXCEPT ![t] = "return"]
        /\ ipi' = [ipi EXCEPT ![c] = @ \cup {exec_cpu[t]}]
        /\ UNCHANGED <<op, out, message>>
    BY <1>1 DEF WriteIcrLow, CoreInv, BaseInv, MailInv
  <2>2. out[t] \in Message /\ c \in Cpus
    BY <2>1, MessageFacts DEF CoreInv, BaseInv, TypeOK, SendSteps
  <2>3. ipi[c] = {} /\ message[c] = out[t]
    BY <2>1, <2>2 DEF CoreInv, BaseInv, MailInv, MailboxHasOneUser, Sending, PlaceInv, MessageInv
  <2> HIDE DEF c
  <2>4. \A e \in Cpus : e # c => ipi'[e] = ipi[e]
    BY <1>t, <2>1
  <2>5. /\ ipi'[c] = {exec_cpu[t]} /\ ipi'[c] # {}
    BY <1>t, <2>1, <2>2, <2>3
  <2>w. op[t] = "wait" =>
           /\ out[t] = [dst |-> exec_cpu[t], func |-> "CM_SEM_WAIT", ptr |-> sem[t]]
           /\ sem[t] \in Sems
    BY <2>2, MessageFacts DEF CoreInv, CallInv
  <2>6. op[t] = "wait" <=> out[t] \in SemWaitMessage
    BY <1>t, <2>w DEF CoreInv, CallInv, SemWaitMessage
  <2>7. op[t] = "wait" => c = exec_cpu[t]
    BY <2>w DEF c
  <2>8. BlockRequested(t)' <=> op[t] = "wait"
    <3>1. ASSUME op[t] = "wait" PROVE BlockRequested(t)'
      BY <1>t, <1>o, <1>r, <2>1, <2>3, <2>5, <2>7, <3>1 DEF BlockRequested
    <3> QED BY <2>1, <3>1 DEF BlockRequested
  <2>9. ASSUME NEW u \in Threads, u # t PROVE BlockRequested(u)' <=> BlockRequested(u)
    <3>1. CASE exec_cpu[u] = c
      <4>1. ~BlockRequested(u)
        BY <2>3, <3>1 DEF BlockRequested
      <4>2. ASSUME BlockRequested(u)' PROVE FALSE
        <5>1. /\ op[u] = "wait" /\ current_thread[c] = u /\ out[u] = out[t]
          BY <1>o, <2>1, <2>3, <2>9, <3>1, <4>2 DEF BlockRequested
        <5>2. out[u] \in SemWaitMessage
          BY <1>t, <2>2, <5>1, MessageFacts DEF CoreInv, CallInv, SemWaitMessage
        <5> QED BY <1>r, <2>6, <2>7, <2>9, <5>1, <5>2
      <4> QED BY <4>1, <4>2
    <3>2. CASE exec_cpu[u] # c
      BY <1>o, <1>t, <2>1, <2>4, <2>9, <3>2 DEF BlockRequested
    <3> QED BY <3>1, <3>2
  <2>10. RequestInv'
    <3> SUFFICES ASSUME NEW e \in Cpus, ipi'[e] # {}, message'[e] \in SemWaitMessage
                 PROVE  /\ e \in ipi'[e] /\ current_thread'[e] \in Threads
                        /\ BlockRequested(current_thread[e])'
      BY <1>o DEF RequestInv
    <3>1. CASE e = c
      BY <1>o, <1>r, <1>t, <2>1, <2>3, <2>5, <2>6, <2>7, <2>8, <3>1
    <3>2. CASE e # c
      <4>1. e \in ipi[e] /\ current_thread[e] \in Threads /\ BlockRequested(current_thread[e])
        BY <2>1, <2>4, <3>2 DEF RequestInv
      <4>2. current_thread[e] # t
        BY <1>r, <4>1
      <4> QED BY <1>o, <2>4, <2>9, <3>2, <4>1, <4>2
    <3> QED BY <3>1, <3>2
  <2> QED BY <1>r, <2>1, <2>8, <2>9, <2>10
<1>2. CASE CopyMessage(t)
  <2> DEFINE c == out[t].dst
  <2>1. /\ pc[t] = "msg_copy" /\ pc' = [pc EXCEPT ![t] = "icr_high"]
        /\ message' = [message EXCEPT ![c] = out[t]]
        /\ UNCHANGED <<op, out, ipi>>
    BY <1>2 DEF CopyMessage
  <2>2. c \in Cpus /\ ipi[c] = {}
    BY <2>1, MessageFacts
       DEF CoreInv, BaseInv, TypeOK, SendSteps, MailInv, MailboxHasOneUser, Sending
  <2> HIDE DEF c
  <2>3. \A e \in Cpus : ipi[e] # {} => message'[e] = message[e]
    BY <1>t, <2>1, <2>2
  <2>4. \A u \in Threads : BlockRequested(u)' <=> BlockRequested(u)
    BY <1>o, <1>r, <1>t, <2>1, <2>3 DEF BlockRequested
  <2>5. RequestInv'
    BY <1>o, <2>1, <2>3, <2>4 DEF RequestInv
  <2> QED BY <2>1, <2>4, <2>5
<1>3. ASSUME UNCHANGED <<ipi, message>>, pc[t] # "icr_low",
             ~(op'[t] = "wait" /\ pc'[t] = "return" /\ out'[t] # NoMessage)
      PROVE  /\ RequestInv'
             /\ \A u \in Threads : BlockRequested(u)' <=> BlockRequested(u)
  <2>1. ~BlockRequested(t)'
    BY <1>3, <1>t DEF BlockRequested, CoreInv, CallInv
  <2>2. \A u \in Threads : BlockRequested(u)' <=> BlockRequested(u)
    BY <1>3, <1>o, <1>r, <2>1 DEF BlockRequested
  <2>3. RequestInv'
    BY <1>3, <1>o, <2>2 DEF RequestInv
  <2> QED BY <2>2, <2>3
<1>4. CASE ~WriteIcrLow(t) /\ ~CopyMessage(t)
  <2>1. /\ UNCHANGED <<ipi, message>> /\ pc[t] # "icr_low"
        /\ ~(op'[t] = "wait" /\ pc'[t] = "return" /\ out'[t] # NoMessage)
    BY <1>4, <1>t DEF ThreadStep, CallWait, CallSignal, CallReschedule, Enter, AcquireSemLock,
       TakeUnit, AskToBlock, PopWaiter, AddUnit, ReleaseSemLock, AcquireMsgLock, WriteIcrHigh,
       Return
  <2> QED BY <1>3, <2>1
<1> QED BY <1>1, <1>2, <1>4

\* Only handle_sem_wait ends a request, and it evicts the thread that made it.
LEMMA RequestInterrupts ==
    ASSUME CoreInv, RequestInv, ~SelfIpiLag, NEW c \in Cpus, TimerInterrupt(c) \/ MessageStep(c)
    PROVE  /\ RequestInv'
           /\ HandleSemWait(c) => BlockRequested(current_thread[c])
           /\ \A u \in Threads : BlockRequested(u)' <=>
                 BlockRequested(u) /\ ~(HandleSemWait(c) /\ u = current_thread[c])
<1> USE DEF sched_vars, thread_vars, sem_vars, mail_vars
<1>t. /\ ipi \in [Cpus -> SUBSET Cpus] /\ exec_cpu \in [Threads -> Cpus]
      /\ current_thread \in [Cpus -> Threads \cup {Null}] /\ ready \in ReadyQueues
      /\ UNCHANGED <<pc, op, out, message>>
  BY ThreadAssumption DEF CoreInv, BaseInv, TypeOK, ReadyQueues, TimerInterrupt, MessageStep,
     HandleReschedule, HandleSemWait, HandleAwaken, ReleaseForWaiter, FinishMessage
<1>1. ASSUME \A e \in Cpus : e # c => ipi'[e] = ipi[e] /\ current_thread'[e] = current_thread[e],
             ipi'[c] = {} \/ message[c] \notin SemWaitMessage
      PROVE  /\ RequestInv'
             /\ \A u \in Threads : BlockRequested(u)' <=> BlockRequested(u) /\ exec_cpu[u] # c
  <2>1. \A u \in Threads : exec_cpu[u] # c => (BlockRequested(u)' <=> BlockRequested(u))
    BY <1>1, <1>t DEF BlockRequested
  <2>2. ASSUME NEW u \in Threads, exec_cpu[u] = c PROVE ~BlockRequested(u)'
    <3> SUFFICES ASSUME BlockRequested(u)' PROVE FALSE
      OBVIOUS
    <3>1. op[u] = "wait" /\ ipi'[c] # {} /\ message[c] = out[u]
      BY <1>t, <2>2 DEF BlockRequested
    <3>2. ipi'[c] # {} => ipi[c] # {}
      BY <1>t DEF TimerInterrupt, MessageStep, HandleReschedule, HandleSemWait, HandleAwaken,
         Receive, ReleaseForWaiter, FinishMessage
    <3>3. out[u] \in SemWaitMessage
      <4>1. out[u] # NoMessage
        BY <3>1, <3>2 DEF CoreInv, CallInv
      <4>2. /\ out[u] = [dst |-> exec_cpu[u], func |-> "CM_SEM_WAIT", ptr |-> sem[u]]
            /\ sem[u] \in Sems
        BY <3>1, <4>1 DEF CoreInv, CallInv
      <4> QED BY <1>t, <4>2 DEF SemWaitMessage
    <3> QED BY <1>1, <3>1, <3>3
  <2>3. RequestInv'
    <3> SUFFICES ASSUME NEW e \in Cpus, ipi'[e] # {}, message'[e] \in SemWaitMessage
                 PROVE  /\ e \in ipi'[e] /\ current_thread'[e] \in Threads
                        /\ BlockRequested(current_thread[e])'
      BY DEF RequestInv
    <3>1. e # c
      BY <1>1, <1>t
    <3>2. e \in ipi[e] /\ current_thread[e] \in Threads /\ BlockRequested(current_thread[e])
      BY <1>1, <1>t, <3>1 DEF RequestInv
    <3>3. exec_cpu[current_thread[e]] = e
      BY <3>2 DEF CoreInv, BaseInv, HomeInv
    <3>4. BlockRequested(current_thread[e])'
      BY <1>1, <1>t, <3>1, <3>2, <3>3 DEF BlockRequested
    <3> QED BY <1>1, <3>1, <3>2, <3>4
  <2> QED BY <2>1, <2>2, <2>3
<1>2. HandleSemWait(c) => ipi'[c] = {} /\ BlockRequested(current_thread[c])
  <2> SUFFICES ASSUME HandleSemWait(c) PROVE ipi'[c] = {} /\ BlockRequested(current_thread[c])
    OBVIOUS
  <2>1. Receive(c, "CM_SEM_WAIT")
    BY DEF HandleSemWait
  <2>2. ipi[c] # {} /\ message[c] \in SemWaitMessage /\ ipi'[c] = {}
    BY <1>t, <2>1, ReceiveFacts, MessageFacts DEF Receive, CoreInv, BaseInv
  <2> QED BY <2>2 DEF RequestInv
<1>3. \A u \in Threads : BlockRequested(u) => (exec_cpu[u] = c <=> u = current_thread[c])
  BY <1>t DEF BlockRequested, CoreInv, BaseInv, HomeInv
<1>4. CASE TimerInterrupt(c)
  <2>1. /\ ~SelfIpiDue(c) /\ UNCHANGED ipi /\ Schedule(Preempt(ready, c), c)
        /\ Preempt(ready, c) \in ReadyQueues
    BY <1>t, <1>4, PreemptType DEF TimerInterrupt, CoreInv, BaseInv
  <2>2. \A e \in Cpus : e # c => current_thread'[e] = current_thread[e]
    BY <2>1, ScheduleType DEF CoreInv, BaseInv
  <2>3. ipi'[c] = {} \/ message[c] \notin SemWaitMessage
    BY <2>1 DEF RequestInv, SelfIpiDue
  <2>4. ASSUME NEW u \in Threads, BlockRequested(u) PROVE exec_cpu[u] # c
    <3>1. SelfIpiDue(exec_cpu[u])
      BY <2>4, RequestFacts
    <3> QED BY <2>1, <3>1
  <2>5. /\ RequestInv'
        /\ \A u \in Threads : BlockRequested(u)' <=> BlockRequested(u) /\ exec_cpu[u] # c
    BY <2>1, <2>2, <2>3, <1>1, Zenon
  <2>6. \A u \in Threads : BlockRequested(u) => u # current_thread[c]
    BY <1>3, <2>4, Zenon
  <2> QED BY <1>2, <2>4, <2>5, <2>6, Zenon
<1>5. CASE HandleSemWait(c)
  <2>1. /\ \A e \in Cpus : e # c => ipi'[e] = ipi[e] /\ current_thread'[e] = current_thread[e]
    BY <1>5, <1>t DEF HandleSemWait, Receive
  <2> QED BY <1>1, <1>2, <1>3, <1>5, <2>1
<1>6. CASE HandleReschedule(c) \/ HandleAwaken(c)
  <2>1. PICK func \in {"CM_RESCHEDULE", "CM_AWAKEN_THREAD"} : Receive(c, func)
    BY <1>6 DEF HandleReschedule, HandleAwaken
  <2>2. /\ \A e \in Cpus : e # c => ipi'[e] = ipi[e] /\ current_thread'[e] = current_thread[e]
        /\ ipi'[c] = {} /\ message[c].func = func
    BY <1>6, <1>t, <2>1 DEF HandleReschedule, HandleAwaken, Receive
  <2>3. ASSUME NEW u \in Threads, BlockRequested(u) PROVE exec_cpu[u] # c
    <3>1. message[exec_cpu[u]] = [dst |-> exec_cpu[u], func |-> "CM_SEM_WAIT", ptr |-> sem[u]]
      BY <2>3, RequestFacts
    <3> QED BY <2>2, <3>1
  <2> QED BY <1>1, <1>2, <1>3, <2>2, <2>3
<1>7. CASE ReleaseForWaiter(c) \/ FinishMessage(c)
  <2>1. hmsg[c] # NoMessage
    BY <1>7 DEF ReleaseForWaiter, FinishMessage, CoreInv, BaseInv, TypeOK
  <2>2. ipi[c] = {} /\ UNCHANGED ipi
    BY <1>7, <2>1 DEF ReleaseForWaiter, FinishMessage, CoreInv, BaseInv, MailInv, MailboxHasOneUser
  <2>3. \A e \in Cpus : e # c => current_thread'[e] = current_thread[e]
    BY <1>7, <1>t, ScheduleType DEF ReleaseForWaiter, FinishMessage, CoreInv, BaseInv
  <2>4. \A u \in Threads : BlockRequested(u) => exec_cpu[u] # c
    BY <2>2 DEF BlockRequested
  <2> QED BY <1>1, <1>2, <1>3, <2>2, <2>3, <2>4
<1> QED BY <1>4, <1>5, <1>6, <1>7 DEF MessageStep

-----------------------------------------------------------------------------
(* The lock of a semaphore.                                                *)

\* What a step of a thread leaves alone.
LEMMA ThreadStepFrame ==
    ASSUME CoreInv, NEW t \in Threads, ThreadStep(t)
    PROVE  /\ Runs(t) /\ UNCHANGED <<current_thread, ready, mode, hmsg>>
           /\ \A u \in Threads : u # t =>
                 pc'[u] = pc[u] /\ op'[u] = op[u] /\ sem'[u] = sem[u] /\ out'[u] = out[u]
<1>1. /\ pc \in [Threads -> Steps] /\ out \in [Threads -> Message \cup {NoMessage}]
      /\ op \in [Threads -> Ops] /\ sem \in [Threads -> Sems \cup {Null}]
  BY DEF CoreInv, BaseInv, TypeOK
<1> QED BY <1>1 DEF ThreadStep, CallWait, CallSignal, CallReschedule, Enter, AcquireSemLock,
     TakeUnit, AskToBlock, PopWaiter, AddUnit, ReleaseSemLock, AcquireMsgLock, CopyMessage,
     WriteIcrHigh, WriteIcrLow, Return, Goto, sched_vars, thread_vars

\* Who answers for a lock after a step of thread t.
LEMMA HoldsThreadStep ==
    ASSUME CoreInv, RequestInv, ~SelfIpiLag, NEW t \in Threads, ThreadStep(t)
    PROVE  /\ \A u \in Threads, s \in Sems : u # t => (Holds(u, s)' <=> Holds(u, s))
           /\ AcquireSemLock(t) => \A s \in Sems : ~Holds(t, s) /\ (Holds(t, s)' <=> s = sem[t])
           /\ ReleaseSemLock(t) => \A s \in Sems : ~Holds(t, s)' /\ (Holds(t, s) <=> s = sem[t])
           /\ ~AcquireSemLock(t) /\ ~ReleaseSemLock(t) =>
                 \A s \in Sems : Holds(t, s)' <=> Holds(t, s)
<1> USE DEF sched_vars, thread_vars, sem_vars, mail_vars, Goto
<1>b. /\ pc \in [Threads -> Steps] /\ op \in [Threads -> Ops]
      /\ sem \in [Threads -> Sems \cup {Null}]
  BY DEF CoreInv, BaseInv, TypeOK
<1>r. /\ ~BlockRequested(t)
      /\ BlockRequested(t)' <=> pc[t] = "icr_low" /\ op[t] = "wait"
      /\ \A u \in Threads : u # t => (BlockRequested(u)' <=> BlockRequested(u))
  BY ThreadStepFrame, RunnerMadeNoRequest, RequestThreadStep
<1>1. \A u \in Threads, s \in Sems : u # t => (Holds(u, s)' <=> Holds(u, s))
  BY <1>r, ThreadStepFrame DEF Holds
<1>2. CASE CallWait(t) \/ CallSignal(t) \/ CallReschedule(t)
  BY <1>1, <1>2, <1>b, <1>r DEF CallWait, CallSignal, CallReschedule, Enter, Holds, SendSteps,
     AcquireSemLock, ReleaseSemLock
<1>3. CASE AcquireSemLock(t)
  BY <1>1, <1>3, <1>b, <1>r DEF AcquireSemLock, ReleaseSemLock, Holds, SendSteps
<1>4. CASE ReleaseSemLock(t)
  <2>1. op[t] = "wait" => out[t] = NoMessage
    BY <1>4 DEF ReleaseSemLock, CoreInv, CallInv
  <2> QED BY <1>1, <1>4, <1>b, <1>r, <2>1 DEF AcquireSemLock, ReleaseSemLock, Holds, SendSteps
<1>5. CASE TakeUnit(t) \/ AskToBlock(t) \/ PopWaiter(t) \/ AddUnit(t)
  BY <1>1, <1>5, <1>b, <1>r DEF TakeUnit, AskToBlock, PopWaiter, AddUnit, Holds, SendSteps,
     AcquireSemLock, ReleaseSemLock
<1>6. CASE AcquireMsgLock(t) \/ CopyMessage(t) \/ WriteIcrHigh(t)
  BY <1>1, <1>6, <1>b, <1>r DEF AcquireMsgLock, CopyMessage, WriteIcrHigh, Holds, SendSteps,
     AcquireSemLock, ReleaseSemLock
<1>7. CASE WriteIcrLow(t) \/ Return(t)
  BY <1>1, <1>7, <1>b, <1>r DEF WriteIcrLow, Return, Holds, SendSteps,
     AcquireSemLock, ReleaseSemLock
<1> QED BY <1>2, <1>3, <1>4, <1>5, <1>6, <1>7 DEF ThreadStep

LEMMA LockThreadStep ==
    ASSUME CoreInv, RequestInv, SemLockHasOneHolder, ~SelfIpiLag, NEW t \in Threads, ThreadStep(t)
    PROVE  SemLockHasOneHolder'
<1>h. \A c \in Cpus, s \in Sems : HandlerHolds(c, s)' <=> HandlerHolds(c, s)
  BY ThreadStepFrame DEF HandlerHolds
<1>l. sem_lock \in [Sems -> BOOLEAN]
  BY DEF CoreInv, BaseInv, TypeOK
<1>o. \A u \in Threads, s \in Sems : u # t => (Holds(u, s)' <=> Holds(u, s))
  BY HoldsThreadStep
<1> SUFFICES ASSUME NEW s \in Sems PROVE SemLockHasOneHolder!(s)'
  BY DEF SemLockHasOneHolder
<1>s. SemLockHasOneHolder!(s)
  BY DEF SemLockHasOneHolder
<1>1. CASE AcquireSemLock(t)
  <2>1. /\ ~sem_lock[sem[t]] /\ sem_lock' = [sem_lock EXCEPT ![sem[t]] = TRUE]
    BY <1>1 DEF AcquireSemLock
  <2>2. ~Holds(t, s) /\ (Holds(t, s)' <=> s = sem[t])
    BY <1>1, HoldsThreadStep
  <2>3. CASE s = sem[t]
    <3>1. sem_lock'[s] /\ ~sem_lock[s]
      BY <1>l, <2>1, <2>3
    <3> QED BY <1>h, <1>o, <1>s, <2>2, <2>3, <3>1
  <2>4. CASE s # sem[t]
    <3>1. sem_lock'[s] <=> sem_lock[s]
      BY <1>l, <2>1, <2>4
    <3> QED BY <1>h, <1>o, <1>s, <2>2, <2>4, <3>1
  <2> QED BY <2>3, <2>4
<1>2. CASE ReleaseSemLock(t)
  <2>1. sem_lock' = [sem_lock EXCEPT ![sem[t]] = FALSE]
    BY <1>2 DEF ReleaseSemLock
  <2>2. ~Holds(t, s)' /\ (Holds(t, s) <=> s = sem[t])
    BY <1>2, HoldsThreadStep
  <2>3. CASE s = sem[t]
    <3>1. ~sem_lock'[s]
      BY <1>l, <2>1, <2>3
    <3> QED BY <1>h, <1>o, <1>s, <2>2, <2>3, <3>1
  <2>4. CASE s # sem[t]
    <3>1. sem_lock'[s] <=> sem_lock[s]
      BY <1>l, <2>1, <2>4
    <3> QED BY <1>h, <1>o, <1>s, <2>2, <2>4, <3>1
  <2> QED BY <2>3, <2>4
<1>3. CASE ~AcquireSemLock(t) /\ ~ReleaseSemLock(t)
  <2>1. UNCHANGED sem_lock
    BY <1>3 DEF ThreadStep, CallWait, CallSignal, CallReschedule, Enter, TakeUnit, AskToBlock,
       PopWaiter, AddUnit, AcquireMsgLock, CopyMessage, WriteIcrHigh, WriteIcrLow, Return, sem_vars
  <2>2. Holds(t, s)' <=> Holds(t, s)
    BY <1>3, HoldsThreadStep
  <2>3. sem_lock'[s] <=> sem_lock[s]
    BY <2>1
  <2> QED BY <1>h, <1>o, <1>s, <2>2, <2>3
<1> QED BY <1>1, <1>2, <1>3

\* The handler takes the lock over from the thread it evicts, and releases it.
LEMMA LockInterrupts ==
    ASSUME CoreInv, RequestInv, SemLockHasOneHolder, ~SelfIpiLag, NEW c \in Cpus,
           TimerInterrupt(c) \/ MessageStep(c)
    PROVE  SemLockHasOneHolder'
<1> USE DEF sched_vars, thread_vars, sem_vars, mail_vars
<1>t. /\ mode \in [Cpus -> Modes] /\ hmsg \in [Cpus -> Message \cup {NoMessage}]
      /\ sem_lock \in [Sems -> BOOLEAN]
      /\ UNCHANGED <<pc, op, sem>>
  BY DEF CoreInv, BaseInv, TypeOK, TimerInterrupt, MessageStep, HandleReschedule, HandleSemWait,
     HandleAwaken, ReleaseForWaiter, FinishMessage
<1>r. /\ HandleSemWait(c) => BlockRequested(current_thread[c])
      /\ \A u \in Threads : BlockRequested(u)' <=>
            BlockRequested(u) /\ ~(HandleSemWait(c) /\ u = current_thread[c])
  BY RequestInterrupts
<1>1. CASE HandleSemWait(c)
  <2>1. /\ mode[c] = "thread" /\ current_thread[c] \in Threads
        /\ hmsg' = [hmsg EXCEPT ![c] = message[c]] /\ mode' = [mode EXCEPT ![c] = "sem_unlock"]
        /\ UNCHANGED sem_lock
    BY <1>1, ReceiveFacts DEF HandleSemWait, CoreInv, BaseInv
  <2>o. PICK old \in Threads : old = current_thread[c]
    BY <2>1
  <2>2. BlockRequested(old) /\ exec_cpu[old] = c /\ pc[old] = "return" /\ message[c].ptr = sem[old]
        /\ op[old] = "wait"
    <3>1. exec_cpu[old] = c /\ BlockRequested(old)
      BY <1>1, <1>r, <2>1, <2>o DEF CoreInv, BaseInv, HomeInv
    <3>2. message[c] = [dst |-> c, func |-> "CM_SEM_WAIT", ptr |-> sem[old]] /\ pc[old] = "return"
          /\ op[old] = "wait"
      BY <2>1, <3>1, RequestFacts
    <3> QED BY <3>1, <3>2
  <2>3. \A u \in Threads, s \in Sems : Holds(u, s)' <=> Holds(u, s) /\ u # old
    <3>1. \A u \in Threads, s \in Sems : u # old => (Holds(u, s)' <=> Holds(u, s))
      BY <1>r, <1>t, <2>o DEF Holds
    <3>2. \A s \in Sems : ~Holds(old, s)'
      BY <1>1, <1>r, <1>t, <2>o, <2>2 DEF Holds, SendSteps
    <3> QED BY <3>1, <3>2
  <2>4. \A s \in Sems : Holds(old, s) <=> s = sem[old]
    BY <2>2 DEF Holds
  <2>5. \A e \in Cpus, s \in Sems :
           HandlerHolds(e, s)' <=> HandlerHolds(e, s) \/ (e = c /\ s = sem[old])
    <3>1. ~ \E s \in Sems : HandlerHolds(c, s)
      BY <2>1 DEF HandlerHolds
    <3>2. \A s \in Sems : HandlerHolds(c, s)' <=> s = sem[old]
      BY <1>t, <2>1, <2>2 DEF HandlerHolds
    <3>3. \A e \in Cpus, s \in Sems : e # c => (HandlerHolds(e, s)' <=> HandlerHolds(e, s))
      BY <1>t, <2>1 DEF HandlerHolds
    <3> QED BY <3>1, <3>2, <3>3
  <2> SUFFICES ASSUME NEW s \in Sems PROVE SemLockHasOneHolder!(s)'
    BY DEF SemLockHasOneHolder
  <2>s. SemLockHasOneHolder!(s)
    BY DEF SemLockHasOneHolder
  <2>6. sem_lock'[s] <=> sem_lock[s]
    BY <2>1
  <2>7. CASE s = sem[old]
    BY <2>1, <2>3, <2>4, <2>5, <2>6, <2>7, <2>s
  <2>8. CASE s # sem[old]
    BY <2>1, <2>3, <2>4, <2>5, <2>6, <2>8, <2>s
  <2> QED BY <2>7, <2>8
<1>h. CASE ~HandleSemWait(c)
  <2>1. \A u \in Threads, s \in Sems : Holds(u, s)' <=> Holds(u, s)
    BY <1>h, <1>r, <1>t DEF Holds
  <2>2. CASE ReleaseForWaiter(c)
    <3>1. /\ mode[c] = "sem_unlock" /\ mode' = [mode EXCEPT ![c] = "schedule"]
          /\ sem_lock' = [sem_lock EXCEPT ![hmsg[c].ptr] = FALSE] /\ UNCHANGED hmsg
      BY <2>2 DEF ReleaseForWaiter
    <3>2. \A e \in Cpus, s \in Sems : HandlerHolds(e, s)' <=> HandlerHolds(e, s) /\ e # c
      BY <1>t, <3>1 DEF HandlerHolds
    <3>3. \A s \in Sems : HandlerHolds(c, s) <=> s = hmsg[c].ptr
      BY <3>1 DEF HandlerHolds
    <3> SUFFICES ASSUME NEW s \in Sems PROVE SemLockHasOneHolder!(s)'
      BY DEF SemLockHasOneHolder
    <3>s. SemLockHasOneHolder!(s)
      BY DEF SemLockHasOneHolder
    <3>4. CASE s = hmsg[c].ptr
      <4>1. ~sem_lock'[s]
        BY <1>t, <3>1, <3>4
      <4> QED BY <2>1, <3>2, <3>3, <3>4, <3>s, <4>1
    <3>5. CASE s # hmsg[c].ptr
      <4>1. sem_lock'[s] <=> sem_lock[s]
        BY <1>t, <3>1, <3>5
      <4> QED BY <2>1, <3>2, <3>3, <3>5, <3>s, <4>1
    <3> QED BY <3>4, <3>5
  <2>3. CASE ~ReleaseForWaiter(c)
    <3>1. UNCHANGED sem_lock
      BY <1>h, <2>3 DEF TimerInterrupt, MessageStep, HandleReschedule, HandleAwaken, FinishMessage
    <3>2. \A e \in Cpus, s \in Sems : HandlerHolds(e, s)' <=> HandlerHolds(e, s)
      <4>1. CASE TimerInterrupt(c)
        BY <4>1 DEF TimerInterrupt, HandlerHolds
      <4>2. CASE HandleReschedule(c) \/ HandleAwaken(c)
        BY <1>t, <4>2 DEF HandleReschedule, HandleAwaken, Receive, Interruptible, HandlerHolds
      <4>3. CASE FinishMessage(c)
        BY <1>t, <4>3 DEF FinishMessage, HandlerHolds
      <4> QED BY <1>h, <2>3, <4>1, <4>2, <4>3 DEF MessageStep
    <3> QED BY <2>1, <3>1, <3>2 DEF SemLockHasOneHolder
  <2> QED BY <2>2, <2>3
<1> QED BY <1>1, <1>h

-----------------------------------------------------------------------------
(* The count, the list, and the idle threads.                              *)

\* A thread on its way to the list found no unit, and keeps the lock until it is
\* there.
NothingToTake ==
    \A t \in Threads :
        op[t] = "wait" /\ (pc[t] \in SendSteps \/ BlockRequested(t)) => sem_count[sem[t]] = 0

\* An idle thread never blocks.
IdleInv == \A t \in Idle : Running(t) \/ Queued(t)

SemInv ==
    /\ RequestInv /\ SemLockHasOneHolder /\ NothingToTake /\ NoLostWakeup
    /\ WaitersCalledWait /\ IdleInv

\* A thread on a list does not run, nor does its call move.
LEMMA WaiterSleeps ==
    ASSUME CoreInv, NEW t \in Threads, NEW s \in Sems, NEW i \in DOMAIN sem_waiting[s], Runs(t)
    PROVE  sem_waiting[s][i] # t
<1>1. Running(t)
  BY DEF Runs, Running
<1>2. ~Waiting(t, s)
  BY <1>1 DEF CoreInv, PlaceInv, SomewhereOnce, OnOneList
<1> QED BY <1>2 DEF Waiting, Range

\* A step of a thread that leaves the lists and the counts alone and keeps, or
\* leaves, the way to the list.
LEMMA CountQuiet ==
    ASSUME CoreInv, SemInv, ~SelfIpiLag, NEW t \in Threads, ThreadStep(t),
           UNCHANGED <<sem_count, sem_waiting>>,
           op'[t] = "wait" /\ pc'[t] \in SendSteps =>
              sem_count[sem'[t]] = 0
    PROVE  NothingToTake' /\ NoLostWakeup'
<1>1. /\ Runs(t)
      /\ \A u \in Threads : u # t =>
            pc'[u] = pc[u] /\ op'[u] = op[u] /\ sem'[u] = sem[u] /\ out'[u] = out[u]
  BY ThreadStepFrame
<1>2. \A u \in Threads : BlockRequested(u)' <=>
         BlockRequested(u) \/ (u = t /\ pc[t] = "icr_low" /\ op[t] = "wait")
  BY RequestThreadStep DEF SemInv
<1>3. ~BlockRequested(t)
  BY <1>1, RunnerMadeNoRequest DEF SemInv
<1>4. ASSUME NEW u \in Threads, op'[u] = "wait", pc'[u] \in SendSteps \/ BlockRequested(u)'
      PROVE  sem_count'[sem'[u]] = 0
  <2>1. CASE u # t
    BY <1>1, <1>2, <1>4, <2>1 DEF SemInv, NothingToTake
  <2>2. CASE u = t /\ pc'[u] \in SendSteps
    BY <1>4, <2>2
  <2>3. CASE u = t /\ BlockRequested(u)'
    <3>1. pc[t] = "icr_low" /\ op[t] = "wait"
      BY <1>2, <1>3, <2>3
    <3>2. sem_count[sem[t]] = 0
      BY <3>1 DEF SemInv, NothingToTake, SendSteps
    <3>3. sem'[t] = sem[t]
      BY <3>1 DEF ThreadStep, CallWait, CallSignal, CallReschedule, Enter, AcquireSemLock,
         TakeUnit, AskToBlock, PopWaiter, AddUnit, ReleaseSemLock, AcquireMsgLock, CopyMessage,
         WriteIcrHigh, WriteIcrLow, Return
    <3> QED BY <2>3, <3>2, <3>3
  <2> QED BY <1>4, <2>1, <2>2, <2>3
<1>5. NothingToTake'
  BY <1>4 DEF NothingToTake
<1>6. NoLostWakeup'
  BY DEF SemInv, NoLostWakeup
<1> QED BY <1>5, <1>6

\* A unit taken or added: nobody else is between its test and the list.
LEMMA CountChanges ==
    ASSUME CoreInv, SemInv, ~SelfIpiLag, NEW t \in Threads, TakeUnit(t) \/ AddUnit(t)
    PROVE  NothingToTake' /\ NoLostWakeup'
<1> DEFINE s == sem[t]
<1>1. /\ Runs(t) /\ pc[t] = "sem_body" /\ pc' = [pc EXCEPT ![t] = "sem_release"]
      /\ UNCHANGED <<op, sem, sem_waiting>>
      /\ \A r \in Sems : r # s => sem_count'[r] = sem_count[r]
      /\ sem_waiting[s] = <<>> \/ sem_count[s] # 0
      /\ ThreadStep(t)
  BY DEF TakeUnit, AddUnit, Goto, CoreInv, BaseInv, TypeOK, ThreadStep, thread_vars
<1>2. s \in Sems /\ Holds(t, s)
  BY <1>1 DEF CoreInv, BaseInv, TypeOK, Holds
<1>3. pc \in [Threads -> Steps]
  BY DEF CoreInv, BaseInv, TypeOK
<1>4. \A u \in Threads : BlockRequested(u)' <=> BlockRequested(u)
  BY <1>1, RequestThreadStep DEF SemInv
<1>5. ASSUME NEW u \in Threads, op'[u] = "wait", pc'[u] \in SendSteps \/ BlockRequested(u)'
      PROVE  sem_count'[sem'[u]] = 0
  <2>1. op[u] = "wait" /\ (pc[u] \in SendSteps \/ BlockRequested(u)) /\ u # t
    <3>1. ~BlockRequested(t)
      BY <1>1, RunnerMadeNoRequest DEF SemInv
    <3> QED BY <1>1, <1>3, <1>4, <1>5, <3>1 DEF SendSteps
  <2>2. sem[u] \in Sems /\ Holds(u, sem[u])
    BY <2>1 DEF CoreInv, CallInv, Holds
  <2>3. sem[u] # s
    BY <1>2, <2>1, <2>2 DEF SemInv, SemLockHasOneHolder
  <2>4. sem_count[sem[u]] = 0
    BY <2>1 DEF SemInv, NothingToTake
  <2> QED BY <1>1, <2>2, <2>3, <2>4
<1>6. sem_waiting[s] = <<>>
  BY <1>1, <1>2 DEF SemInv, NoLostWakeup
<1>7. NoLostWakeup'
  BY <1>1, <1>6 DEF SemInv, NoLostWakeup
<1> QED BY <1>5, <1>7 DEF NothingToTake

LEMMA CountThreadStep ==
    ASSUME CoreInv, SemInv, ~SelfIpiLag, NEW t \in Threads, ThreadStep(t)
    PROVE  NothingToTake' /\ NoLostWakeup'
<1> USE DEF sem_vars, Goto
<1>b. /\ pc \in [Threads -> Steps] /\ op \in [Threads -> Ops]
      /\ sem \in [Threads -> Sems \cup {Null}] /\ sem_waiting \in [Sems -> Seq(Threads)]
  BY DEF CoreInv, BaseInv, TypeOK
<1>n. op[t] = "wait" /\ pc[t] \in SendSteps => sem_count[sem[t]] = 0
  BY DEF SemInv, NothingToTake
<1>1. CASE CallWait(t) \/ CallSignal(t) \/ CallReschedule(t)
  <2>1. /\ UNCHANGED <<sem_count, sem_waiting>>
        /\ ~(op'[t] = "wait" /\ pc'[t] \in SendSteps)
    BY <1>1, <1>b DEF CallWait, CallSignal, CallReschedule, Enter, SendSteps
  <2> QED BY <2>1, CountQuiet
<1>2. CASE TakeUnit(t) \/ AddUnit(t)
  BY <1>2, CountChanges
<1>3. CASE AskToBlock(t)
  <2>1. UNCHANGED <<sem_count, sem_waiting, sem>> /\ sem_count[sem[t]] = 0
    BY <1>3 DEF AskToBlock
  <2> QED BY <2>1, CountQuiet
<1>4. CASE PopWaiter(t)
  <2> DEFINE s == sem[t]
  <2>1. /\ s \in Sems /\ sem_waiting[s] # <<>>
        /\ sem_waiting' = [sem_waiting EXCEPT ![s] = Tail(@)]
        /\ op[t] = "signal" /\ UNCHANGED <<op, sem, sem_count>>
        /\ pc[t] = "sem_body" /\ pc' = [pc EXCEPT ![t] = "sem_release"]
    BY <1>4 DEF PopWaiter, CoreInv, BaseInv, TypeOK
  <2>2. \A u \in Threads : BlockRequested(u)' <=> BlockRequested(u)
    BY <2>1, RequestThreadStep DEF SemInv
  <2>3. NothingToTake'
    BY <1>b, <2>1, <2>2 DEF SemInv, NothingToTake, SendSteps
  <2>4. NoLostWakeup'
    BY <1>b, <2>1 DEF SemInv, NoLostWakeup
  <2> QED BY <2>3, <2>4
<1>5. CASE AcquireSemLock(t) \/ Return(t)
  <2>1. /\ UNCHANGED <<sem_count, sem_waiting>>
        /\ ~(op'[t] = "wait" /\ pc'[t] \in SendSteps)
    BY <1>5, <1>b DEF AcquireSemLock, Return, SendSteps
  <2> QED BY <2>1, CountQuiet
<1>6. CASE ReleaseSemLock(t)
  <2>1. op[t] = "wait" => out[t] = NoMessage
    BY <1>6 DEF ReleaseSemLock, CoreInv, CallInv
  <2>2. /\ UNCHANGED <<sem_count, sem_waiting>>
        /\ ~(op'[t] = "wait" /\ pc'[t] \in SendSteps)
    BY <1>6, <1>b, <2>1 DEF ReleaseSemLock, SendSteps
  <2> QED BY <2>2, CountQuiet
<1>7. CASE AcquireMsgLock(t) \/ CopyMessage(t) \/ WriteIcrHigh(t) \/ WriteIcrLow(t)
  <2>1. /\ UNCHANGED <<sem_count, sem_waiting, op, sem>> /\ pc[t] \in SendSteps
    BY <1>7 DEF AcquireMsgLock, CopyMessage, WriteIcrHigh, WriteIcrLow, SendSteps
  <2> QED BY <1>n, <2>1, CountQuiet
<1> QED BY <1>1, <1>2, <1>3, <1>4, <1>5, <1>6, <1>7 DEF ThreadStep

\* handle_sem_wait puts the thread on the list while there is still no unit.
LEMMA CountInterrupts ==
    ASSUME CoreInv, SemInv, ~SelfIpiLag, NEW c \in Cpus, TimerInterrupt(c) \/ MessageStep(c)
    PROVE  NothingToTake' /\ NoLostWakeup'
<1>1. UNCHANGED <<pc, op, sem, sem_count>>
  BY DEF TimerInterrupt, MessageStep, HandleReschedule, HandleSemWait, HandleAwaken,
     ReleaseForWaiter, FinishMessage, thread_vars, sem_vars
<1>2. /\ HandleSemWait(c) => BlockRequested(current_thread[c])
      /\ \A u \in Threads : BlockRequested(u)' => BlockRequested(u)
  BY RequestInterrupts DEF SemInv
<1>3. NothingToTake'
  BY <1>1, <1>2 DEF SemInv, NothingToTake
<1>4. CASE HandleSemWait(c)
  <2> DEFINE old == current_thread[c]
             s == message[c].ptr
  <2>1. /\ Receive(c, "CM_SEM_WAIT")
        /\ sem_waiting' = [sem_waiting EXCEPT ![s] = Append(@, old)]
    BY <1>4 DEF HandleSemWait
  <2>2. old \in Threads /\ BlockRequested(old) /\ exec_cpu[old] = c
    BY <1>2, <1>4, <2>1, ReceiveFacts DEF CoreInv, BaseInv, HomeInv
  <2>3. s = sem[old] /\ op[old] = "wait"
    <3>1. /\ message[c] = [dst |-> c, func |-> "CM_SEM_WAIT", ptr |-> sem[old]]
          /\ op[old] = "wait"
      BY <2>2, RequestFacts DEF SemInv
    <3> QED BY <3>1
  <2>4. sem_count[s] = 0
    BY <2>2, <2>3 DEF SemInv, NothingToTake
  <2>5. sem_waiting \in [Sems -> Seq(Threads)]
    BY DEF CoreInv, BaseInv, TypeOK
  <2>6. NoLostWakeup'
    BY <1>1, <2>1, <2>4, <2>5 DEF SemInv, NoLostWakeup
  <2> QED BY <1>3, <2>6
<1>5. CASE ~HandleSemWait(c)
  <2>1. UNCHANGED sem_waiting
    BY <1>5 DEF TimerInterrupt, MessageStep, HandleReschedule, HandleAwaken,
       ReleaseForWaiter, FinishMessage, sem_vars
  <2> QED BY <1>1, <1>3, <2>1 DEF SemInv, NoLostWakeup
<1> QED BY <1>4, <1>5

\* Those on a list sleep; the one put there called semaphore_wait.
LEMMA WaitersThreadStep ==
    ASSUME CoreInv, SemInv, ~SelfIpiLag, NEW t \in Threads, ThreadStep(t)
    PROVE  WaitersCalledWait'
<1> USE DEF sem_vars
<1>b. sem_waiting \in [Sems -> Seq(Threads)]
  BY DEF CoreInv, BaseInv, TypeOK
<1>1. ASSUME NEW s \in Sems, NEW i \in DOMAIN sem_waiting[s]
      PROVE  LET u == sem_waiting[s][i] IN
             u # t /\ op'[u] = "wait" /\ sem'[u] = s /\ pc'[u] = "return"
  <2> DEFINE u == sem_waiting[s][i]
  <2>1. u \in Threads /\ op[u] = "wait" /\ sem[u] = s /\ pc[u] = "return"
    BY <1>b DEF SemInv, WaitersCalledWait
  <2>2. u # t
    BY ThreadStepFrame, WaiterSleeps
  <2> HIDE DEF u
  <2>3. op'[u] = op[u] /\ sem'[u] = sem[u] /\ pc'[u] = pc[u]
    BY <2>1, <2>2, ThreadStepFrame
  <2> QED BY <2>1, <2>2, <2>3 DEF u
<1>2. CASE PopWaiter(t)
  <2> DEFINE list == sem_waiting[sem[t]]
  <2>1. /\ sem[t] \in Sems /\ list \in Seq(Threads) /\ list # <<>>
        /\ sem_waiting' = [sem_waiting EXCEPT ![sem[t]] = Tail(list)]
    BY <1>2, <1>b DEF PopWaiter, CoreInv, BaseInv, TypeOK
  <2> SUFFICES ASSUME NEW s \in Sems, NEW i \in DOMAIN sem_waiting'[s]
               PROVE  LET u == sem_waiting'[s][i] IN
                      op'[u] = "wait" /\ sem'[u] = s /\ pc'[u] = "return"
    BY DEF WaitersCalledWait
  <2>2. CASE s = sem[t]
    <3>1. sem_waiting'[s] = Tail(list)
      BY <1>b, <2>1, <2>2
    <3> HIDE DEF list
    <3>2. i + 1 \in DOMAIN list /\ Tail(list)[i] = list[i + 1]
      BY <2>1, <3>1
    <3> QED BY <1>1, <2>2, <3>1, <3>2 DEF list
  <2>3. CASE s # sem[t]
    <3>1. sem_waiting'[s] = sem_waiting[s]
      BY <1>b, <2>1, <2>3
    <3> QED BY <1>1, <3>1
  <2> QED BY <2>2, <2>3
<1>3. CASE ~PopWaiter(t)
  <2>1. UNCHANGED sem_waiting
    BY <1>3 DEF ThreadStep, CallWait, CallSignal, CallReschedule, Enter, AcquireSemLock, TakeUnit,
       AskToBlock, AddUnit, ReleaseSemLock, AcquireMsgLock, CopyMessage, WriteIcrHigh,
       WriteIcrLow, Return
  <2> QED BY <1>1, <2>1 DEF WaitersCalledWait
<1> QED BY <1>2, <1>3

LEMMA WaitersInterrupts ==
    ASSUME CoreInv, SemInv, ~SelfIpiLag, NEW c \in Cpus, TimerInterrupt(c) \/ MessageStep(c)
    PROVE  WaitersCalledWait'
<1>1. UNCHANGED <<pc, op, sem>>
  BY DEF TimerInterrupt, MessageStep, HandleReschedule, HandleSemWait, HandleAwaken,
     ReleaseForWaiter, FinishMessage, thread_vars
<1>2. CASE HandleSemWait(c)
  <2> DEFINE old == current_thread[c]
             s == message[c].ptr
             list == sem_waiting[s]
  <2>1. /\ Receive(c, "CM_SEM_WAIT")
        /\ sem_waiting' = [sem_waiting EXCEPT ![s] = Append(list, old)]
    BY <1>2 DEF HandleSemWait
  <2>2. old \in Threads /\ BlockRequested(old) /\ exec_cpu[old] = c
    BY <1>2, <2>1, ReceiveFacts, RequestInterrupts DEF SemInv, CoreInv, BaseInv, HomeInv
  <2>3. /\ message[c] = [dst |-> c, func |-> "CM_SEM_WAIT", ptr |-> sem[old]]
        /\ op[old] = "wait" /\ pc[old] = "return" /\ sem[old] \in Sems
    BY <2>2, RequestFacts DEF SemInv
  <2>4. s = sem[old]
    BY <2>3
  <2>5. sem_waiting \in [Sems -> Seq(Threads)] /\ list \in Seq(Threads)
    BY <2>3, <2>4 DEF CoreInv, BaseInv, TypeOK
  <2> HIDE DEF old, s
  <2> SUFFICES ASSUME NEW r \in Sems, NEW i \in DOMAIN sem_waiting'[r]
               PROVE  LET u == sem_waiting'[r][i] IN
                      op[u] = "wait" /\ sem[u] = r /\ pc[u] = "return"
    BY <1>1 DEF WaitersCalledWait
  <2>6. CASE r = s
    <3>1. sem_waiting'[r] = Append(list, old) /\ list = sem_waiting[r]
      BY <2>1, <2>5, <2>6
    <3> HIDE DEF list
    <3>2. \/ i \in DOMAIN list /\ Append(list, old)[i] = list[i]
          \/ Append(list, old)[i] = old
      BY <2>5, <3>1
    <3> QED BY <2>3, <2>4, <2>6, <3>1, <3>2 DEF SemInv, WaitersCalledWait
  <2>7. CASE r # s
    <3>1. sem_waiting'[r] = sem_waiting[r]
      BY <2>1, <2>5, <2>7
    <3> QED BY <3>1 DEF SemInv, WaitersCalledWait
  <2> QED BY <2>6, <2>7
<1>3. CASE ~HandleSemWait(c)
  <2>1. UNCHANGED sem_waiting
    BY <1>3 DEF TimerInterrupt, MessageStep, HandleReschedule, HandleAwaken,
       ReleaseForWaiter, FinishMessage, sem_vars
  <2> QED BY <1>1, <2>1 DEF SemInv, WaitersCalledWait
<1> QED BY <1>2, <1>3

\* An idle thread is evicted into its queue: the one that blocks is in a call.
LEMMA IdleStays ==
    ASSUME CoreInv, SemInv, ~SelfIpiLag, NEW c \in Cpus, TimerInterrupt(c) \/ MessageStep(c)
    PROVE  IdleInv'
<1> SUFFICES ASSUME NEW t \in Idle PROVE Running(t)' \/ Queued(t)'
  BY DEF IdleInv
<1>1. /\ t \in Threads /\ pc[t] = "run" /\ op[t] # "wait"
      /\ Running(t) \/ Queued(t)
      /\ exec_cpu[t] \in Cpus
  BY ThreadAssumption DEF SemInv, IdleInv, CoreInv, BaseInv, MailInv, CallInv
<1>r. /\ ready \in ReadyQueues /\ QueuesHome(ready) /\ QueuesOnce(ready)
      /\ current_thread \in [Cpus -> Threads \cup {Null}]
      /\ \A x \in Threads : Running(x) => ~Queued(x)
  BY DEF CoreInv, BaseInv, TypeOK, ReadyQueues, HomeInv, PlaceInv, NoRepetition, SomewhereOnce
<1>2. CASE TimerInterrupt(c)
  <2> DEFINE queues == Preempt(ready, c)
  <2>1. /\ Schedule(queues, c) /\ mode[c] = "thread" /\ current_thread[c] \in Threads
    BY <1>2 DEF TimerInterrupt, Interruptible, CoreInv, BaseInv, TypeOK
  <2>2. Running(current_thread[c])
    BY <2>1 DEF Running, CoreInv, BaseInv, HomeInv
  <2>3. /\ queues \in ReadyQueues /\ QueuesHome(queues) /\ QueuesOnce(queues)
        /\ \A x \in Threads : InQueues(queues, x) <=> Queued(x) \/ (exec_cpu[x] = c /\ Running(x))
    BY <1>r, <2>1, <2>2, PreemptHome, PreemptPlaces DEF Queued, CoreInv, BaseInv
  <2> HIDE DEF queues
  <2>4. \A x \in Threads :
           /\ Queued(x)' <=> InQueues(queues, x) /\ x # current_thread'[c]
           /\ Running(x)' <=> x = current_thread'[c] \/ (exec_cpu[x] # c /\ Running(x))
    BY <2>1, <2>3, SchedulePlaces DEF CoreInv, BaseInv
  <2> QED BY <1>1, <2>3, <2>4
<1>3. CASE HandleReschedule(c) \/ HandleAwaken(c)
  <2>1. PICK queues \in ReadyQueues :
           /\ QueuesOnce(queues) /\ ready' = Preempt(queues, c)
           /\ current_thread[c] \in Threads /\ ~InQueues(queues, current_thread[c])
           /\ \A x \in Threads : Queued(x) => InQueues(queues, x)
    <3>1. CASE HandleReschedule(c)
      <4>1. ready' = Preempt(ready, c) /\ Receive(c, "CM_RESCHEDULE")
        BY <3>1 DEF HandleReschedule
      <4>2. current_thread[c] \in Threads
        BY <4>1, ReceiveFacts DEF CoreInv, BaseInv
      <4>3. Running(current_thread[c])
        BY <4>2 DEF Running, CoreInv, BaseInv, HomeInv
      <4> QED BY <1>r, <4>1, <4>2, <4>3 DEF Queued
    <3>2. CASE HandleAwaken(c)
      <4> DEFINE w == message[c].ptr
                 added == AddReady(ready, w)
      <4>1. ready' = Preempt(added, c) /\ Receive(c, "CM_AWAKEN_THREAD")
        BY <3>2 DEF HandleAwaken
      <4>2. /\ current_thread[c] \in Threads /\ w \in Threads /\ exec_cpu[w] = c
            /\ message[c] \in AwakenMessage /\ ipi[c] # {}
        BY <4>1, ReceiveFacts, MessageFacts DEF CoreInv, BaseInv, HomeInv, Receive
      <4>3. Running(current_thread[c]) /\ Mailed(w)
        BY <4>2 DEF Running, Mailed, CoreInv, BaseInv, HomeInv
      <4>4. ~Queued(w) /\ w # current_thread[c] /\ ~Queued(current_thread[c])
        BY <1>r, <4>2, <4>3 DEF CoreInv, PlaceInv, SomewhereOnce
      <4>5. /\ added \in ReadyQueues /\ QueuesOnce(added)
            /\ \A x \in Threads : InQueues(added, x) <=> Queued(x) \/ x = w
        BY <1>r, <4>2, <4>4, AddReadyType, AddReadyPlaces DEF Queued
      <4> HIDE DEF added, w
      <4> QED BY <4>1, <4>2, <4>4, <4>5
    <3> QED BY <1>3, <3>1, <3>2
  <2>2. \A x \in Threads : Queued(x)' <=> InQueues(queues, x) \/ (exec_cpu[x] = c /\ Running(x))
    BY <2>1, PreemptPlaces DEF Queued, InQueues, CoreInv
  <2>3. \A e \in Cpus : e # c => current_thread'[e] = current_thread[e]
    BY <1>3, <1>r DEF HandleReschedule, HandleAwaken
  <2>4. exec_cpu[t] # c => (Running(t)' <=> Running(t))
    BY <1>1, <2>3 DEF Running
  <2> QED BY <1>1, <2>1, <2>2, <2>4
<1>4. CASE HandleSemWait(c)
  <2>1. BlockRequested(current_thread[c]) /\ UNCHANGED ready
        /\ current_thread' = [current_thread EXCEPT ![c] = Null]
    BY <1>4, RequestInterrupts DEF HandleSemWait, SemInv
  <2>2. current_thread[c] # t
    BY <1>1, <2>1 DEF BlockRequested
  <2> QED BY <1>1, <1>r, <2>1, <2>2 DEF Running, Queued, InQueues
<1>5. CASE ReleaseForWaiter(c)
  BY <1>1, <1>5 DEF ReleaseForWaiter, Running, Queued, InQueues, sched_vars
<1>6. CASE FinishMessage(c)
  <2>1. Schedule(ready, c)
    BY <1>6 DEF FinishMessage
  <2>2. \A x \in Threads :
           /\ Queued(x)' <=> Queued(x) /\ x # current_thread'[c]
           /\ Running(x)' <=> x = current_thread'[c] \/ (exec_cpu[x] # c /\ Running(x))
    BY <1>r, <2>1, SchedulePlaces DEF Queued, CoreInv, BaseInv
  <2>3. current_thread[c] \notin Threads
    BY <1>6 DEF FinishMessage, CoreInv, BaseInv, TypeOK
  <2> QED BY <1>1, <2>2, <2>3 DEF Running
<1> QED BY <1>2, <1>3, <1>4, <1>5, <1>6 DEF MessageStep

LEMMA InitSem == Init => SemInv
<1> SUFFICES ASSUME Init PROVE SemInv
  OBVIOUS
<1>1. /\ \A t \in Threads : pc[t] = "run" /\ op[t] = "none"
      /\ \A c \in Cpus : ipi[c] = {} /\ mode[c] = "thread"
      /\ \A s \in Sems : ~sem_lock[s] /\ sem_waiting[s] = <<>>
  BY DEF Init
<1>2. RequestInv /\ NothingToTake /\ NoLostWakeup
  BY <1>1 DEF RequestInv, NothingToTake, NoLostWakeup
<1>3. SemLockHasOneHolder
  BY <1>1 DEF SemLockHasOneHolder, Holds, HandlerHolds, BlockRequested
<1>4. WaitersCalledWait
  BY <1>1 DEF WaitersCalledWait
<1>5. IdleInv
  <2>1. PlaceInv
    BY InitPlaces
  <2>2. \A t \in Threads : ~OnOneList(t) /\ ~Woken(t) /\ ~Mailed(t)
    BY <1>1, ThreadAssumption DEF OnOneList, Waiting, Range, Woken, Waking, SendSteps, Mailed
  <2> QED BY <2>1, <2>2, ThreadAssumption DEF IdleInv, PlaceInv, SomewhereOnce
<1> QED BY <1>2, <1>3, <1>4, <1>5 DEF SemInv

LEMMA SemKept == Prompt => (Spec => [](CoreInv /\ SemInv))
<1> SUFFICES ASSUME Prompt PROVE Spec => [](CoreInv /\ SemInv)
  OBVIOUS
<1>p. IcrSafe /\ ~SelfIpiLag
  BY DEF Prompt
<1>1. ASSUME CoreInv, SemInv, [Next]_vars PROVE SemInv'
  <2>1. CASE \E t \in Threads : ThreadStep(t)
    <3>1. PICK t \in Threads : ThreadStep(t)
      BY <2>1
    <3>2. RequestInv' /\ SemLockHasOneHolder' /\ NothingToTake' /\ NoLostWakeup' /\ WaitersCalledWait'
      BY <1>p, <1>1, <3>1, RequestThreadStep, LockThreadStep, CountThreadStep, WaitersThreadStep
         DEF SemInv
    <3>3. IdleInv'
      BY <1>1, <3>1, ThreadStepFrame DEF SemInv, IdleInv, Running, Queued, InQueues
    <3> QED BY <3>2, <3>3 DEF SemInv
  <2>2. CASE \E c \in Cpus : TimerInterrupt(c) \/ MessageStep(c)
    BY <1>p, <1>1, <2>2, RequestInterrupts, LockInterrupts, CountInterrupts, WaitersInterrupts,
       IdleStays DEF SemInv
  <2>3. CASE UNCHANGED vars
    <3>1. UNCHANGED <<current_thread, ready, mode, hmsg, pc, op, sem, out, sem_count, sem_lock,
                      sem_waiting, message, ipi>>
      BY <2>3 DEF vars, sched_vars, thread_vars, sem_vars, mail_vars
    <3>2. \A t \in Threads : /\ BlockRequested(t)' <=> BlockRequested(t)
                             /\ Running(t)' <=> Running(t)
                             /\ Queued(t)' <=> Queued(t)
      BY <3>1 DEF BlockRequested, Running, Queued, InQueues
    <3>3. RequestInv' /\ NothingToTake' /\ NoLostWakeup' /\ WaitersCalledWait'
      BY <1>1, <3>1, <3>2 DEF SemInv, RequestInv, NothingToTake, NoLostWakeup, WaitersCalledWait
    <3>4. SemLockHasOneHolder'
      BY <1>1, <3>1, <3>2 DEF SemInv, SemLockHasOneHolder, Holds, HandlerHolds
    <3>5. IdleInv'
      BY <1>1, <3>2, ThreadAssumption DEF SemInv, IdleInv
    <3> QED BY <3>3, <3>4, <3>5 DEF SemInv
  <2> QED BY <1>1, <2>1, <2>2, <2>3 DEF Next
<1> QED BY <1>p, <1>1, InitSem, CallKept, PTL DEF Spec

\* A semaphore's lock always has the holder that will release it.
THEOREM LockHasHolder == Prompt => (Spec => []SemLockHasOneHolder)
<1>1. SemInv => SemLockHasOneHolder
  BY DEF SemInv
<1> QED BY <1>1, SemKept, PTL

\* No thread sleeps on a semaphore that has a unit to give.
THEOREM NoWakeupIsLost == Prompt => (Spec => []NoLostWakeup)
<1>1. SemInv => NoLostWakeup
  BY DEF SemInv
<1> QED BY <1>1, SemKept, PTL

\* scheduler_schedule_thread never reaches its PANIC: a cpu that evicted its
\* thread has its idle thread to run.
THEOREM SchedulerNeverPanics == Prompt => (Spec => []SchedulerFindsThread)
<1>1. ASSUME CoreInv, SemInv, NEW c \in Cpus, mode[c] = "schedule" PROVE HasReady(ready[c])
  <2>1. PICK t \in Idle : exec_cpu[t] = c
    BY BootAssumption
  <2>2. t \in Threads /\ priority[t] \in Priorities /\ current_thread[c] \notin Threads
    BY <1>1, ThreadAssumption DEF CoreInv, BaseInv, TypeOK
  <2>3. Queued(t)
    BY <1>1, <2>1, <2>2 DEF SemInv, IdleInv, Running
  <2>4. ready[c][priority[t]] # <<>>
    BY <2>1, <2>3 DEF Queued, InQueues, Range
  <2> QED BY <2>2, <2>4 DEF HasReady
<1>2. CoreInv /\ SemInv => SchedulerFindsThread
  BY <1>1 DEF SchedulerFindsThread
<1> QED BY <1>2, SemKept, PTL

-----------------------------------------------------------------------------
(* KernelCore implements SemaphoreSpec.                                    *)

Target(t) == IF op[t] = "wait" THEN sem[t] ELSE Null

\* Where a call of semaphore_wait stands, from what the thread remembers.
LEMMA PhaseTable ==
    ASSUME NEW t \in Threads
    PROVE  /\ op[t] # "wait" => WaitPhase(t) = "outside"
           /\ op[t] = "wait" /\ Parked(t) => WaitPhase(t) = "parked"
           /\ op[t] = "wait" /\ ~Parked(t) =>
                 /\ pc[t] = "sem_release" => WaitPhase(t) = "granted"
                 /\ pc[t] = "return" /\ ~BlockRequested(t) => WaitPhase(t) = "granted"
                 /\ pc[t] \notin {"sem_release", "return"} => WaitPhase(t) = "calling"
                 /\ pc[t] # "sem_release" /\ BlockRequested(t) => WaitPhase(t) = "calling"
BY DEF WaitPhase

LEMMA PhaseTableNext ==
    ASSUME NEW t \in Threads
    PROVE  /\ op'[t] # "wait" => WaitPhase(t)' = "outside"
           /\ op'[t] = "wait" /\ Parked(t)' => WaitPhase(t)' = "parked"
           /\ op'[t] = "wait" /\ ~Parked(t)' =>
                 /\ pc'[t] = "sem_release" => WaitPhase(t)' = "granted"
                 /\ pc'[t] = "return" /\ ~BlockRequested(t)' => WaitPhase(t)' = "granted"
                 /\ pc'[t] \notin {"sem_release", "return"} => WaitPhase(t)' = "calling"
                 /\ pc'[t] # "sem_release" /\ BlockRequested(t)' => WaitPhase(t)' = "calling"
BY DEF WaitPhase

\* A thread whose call does not move is where it was.
LEMMA SamePhase ==
    ASSUME NEW t \in Threads, op'[t] = op[t], pc'[t] = pc[t],
           Parked(t)' <=> Parked(t), BlockRequested(t)' <=> BlockRequested(t)
    PROVE  WaitPhase(t)' = WaitPhase(t)
BY DEF WaitPhase

\* Only handle_sem_wait and PopWaiter park a thread or end that.
LEMMA ParkedSame ==
    ASSUME UNCHANGED sem_waiting
    PROVE  \A t \in Threads : Parked(t)' <=> Parked(t)
BY DEF Parked

LEMMA ParkedListed ==
    ASSUME CoreInv, NEW t \in Threads
    PROVE  /\ Parked(t) <=> OnOneList(t)
           /\ Running(t) => ~Parked(t)
<1>1. Parked(t) <=> OnOneList(t)
  BY DEF Parked, OnOneList, Waiting, Range
<1> QED BY <1>1 DEF CoreInv, PlaceInv, SomewhereOnce

\* A step after which everybody is where it was.
LEMMA Stutters ==
    ASSUME UNCHANGED <<sem_count, sem_waiting>>,
           \A t \in Threads : WaitPhase(t)' = WaitPhase(t) /\ Target(t)' = Target(t)
    PROVE  UNCHANGED Promise!vars
BY DEF Promise!vars, Target

\* A step that changes one thread's phase.
LEMMA PhaseMoves ==
    ASSUME NEW t \in Threads, NEW v, WaitPhase(t)' = v,
           \A u \in Threads : u # t => WaitPhase(u)' = WaitPhase(u)
    PROVE  [u \in Threads |-> WaitPhase(u)]' = [[u \in Threads |-> WaitPhase(u)] EXCEPT ![t] = v]
OBVIOUS

LEMMA TargetMoves ==
    ASSUME NEW t \in Threads, NEW v, Target(t)' = v,
           \A u \in Threads : u # t => Target(u)' = Target(u)
    PROVE  [u \in Threads |-> IF op[u] = "wait" THEN sem[u] ELSE Null]' =
              [[u \in Threads |-> IF op[u] = "wait" THEN sem[u] ELSE Null] EXCEPT ![t] = v]
BY DEF Target

LEMMA ThreadStepRefines ==
    ASSUME CoreInv, SemInv, ~SelfIpiLag, NEW t \in Threads, ThreadStep(t)
    PROVE  Promise!Next \/ UNCHANGED Promise!vars
<1> USE DEF sem_vars, Goto
<1>b. /\ pc \in [Threads -> Steps] /\ op \in [Threads -> Ops]
      /\ sem \in [Threads -> Sems \cup {Null}] /\ sem_waiting \in [Sems -> Seq(Threads)]
      /\ sem_count \in [Sems -> Nat] /\ Null \notin Sems
  BY NullAssumption DEF CoreInv, BaseInv, TypeOK
<1>r. /\ ~BlockRequested(t) /\ ~Parked(t) /\ Running(t)
      /\ BlockRequested(t)' <=> pc[t] = "icr_low" /\ op[t] = "wait"
      /\ \A u \in Threads : u # t => (BlockRequested(u)' <=> BlockRequested(u))
  BY ThreadStepFrame, RunnerMadeNoRequest, RequestThreadStep, ParkedListed
     DEF SemInv, Runs, Running
<1>o. \A u \in Threads : u # t =>
         /\ pc'[u] = pc[u] /\ op'[u] = op[u] /\ Target(u)' = Target(u)
         /\ (Parked(u)' <=> Parked(u)) => WaitPhase(u)' = WaitPhase(u)
  BY <1>r, ThreadStepFrame, SamePhase DEF Target
<1>p. UNCHANGED sem_waiting =>
         /\ ~Parked(t)' /\ \A u \in Threads : u # t => WaitPhase(u)' = WaitPhase(u)
  BY <1>o, <1>r, ParkedSame
<1>q. \A s \in Sems : t \in Threads /\ (op[t] = "wait" => sem[t] \in Sems)
  BY DEF CoreInv, CallInv
\* A step of the call that its caller cannot see.
<1>s. ASSUME UNCHANGED <<sem_count, sem_waiting>>, WaitPhase(t)' = WaitPhase(t),
             Target(t)' = Target(t)
      PROVE  UNCHANGED Promise!vars
  BY <1>o, <1>p, <1>s, Stutters
<1>1. CASE CallWait(t)
  <2>1. PICK s \in Sems : /\ op' = [op EXCEPT ![t] = "wait"] /\ sem' = [sem EXCEPT ![t] = s]
                          /\ pc[t] = "run" /\ pc' = [pc EXCEPT ![t] = "sem_acquire"]
                          /\ UNCHANGED <<sem_count, sem_waiting>>
    BY <1>1 DEF CallWait, Enter
  <2>2. WaitPhase(t) = "outside" /\ WaitPhase(t)' = "calling" /\ Target(t)' = s
    <3>1. op[t] # "wait"
      BY <2>1 DEF CoreInv, CallInv
    <3> QED BY <1>b, <1>p, <2>1, <3>1, PhaseTable, PhaseTableNext DEF Target
  <2>3. Promise!Call(t, s)
    BY <1>o, <1>p, <2>1, <2>2, PhaseMoves, TargetMoves DEF Promise!Call
  <2> QED BY <2>3 DEF Promise!Next
<1>2. CASE CallSignal(t) \/ CallReschedule(t)
  <2>1. /\ op[t] # "wait" /\ op'[t] # "wait" /\ UNCHANGED <<sem_count, sem_waiting>>
    BY <1>2, <1>b DEF CallSignal, CallReschedule, Enter, CoreInv, CallInv
  <2> QED BY <1>s, <2>1, PhaseTable, PhaseTableNext DEF Target
<1>3. CASE AcquireSemLock(t) \/ AskToBlock(t) \/ AcquireMsgLock(t) \/ CopyMessage(t) \/ WriteIcrHigh(t)
  <2>1. /\ UNCHANGED <<op, sem, sem_count, sem_waiting>>
        /\ pc[t] \notin {"sem_release", "return"} /\ pc'[t] \notin {"sem_release", "return"}
    BY <1>3, <1>b DEF AcquireSemLock, AskToBlock, AcquireMsgLock, CopyMessage, WriteIcrHigh
  <2> QED BY <1>p, <1>r, <1>s, <2>1, PhaseTable, PhaseTableNext DEF Target
<1>4. CASE TakeUnit(t)
  <2> DEFINE s == sem[t]
  <2>1. /\ UNCHANGED <<op, sem, sem_waiting>> /\ op[t] = "wait" /\ s \in Sems /\ sem_count[s] > 0
        /\ sem_count' = [sem_count EXCEPT ![s] = @ - 1]
        /\ pc[t] = "sem_body" /\ pc' = [pc EXCEPT ![t] = "sem_release"]
    BY <1>4, <1>b DEF TakeUnit, CoreInv, CallInv
  <2>2. WaitPhase(t) = "calling" /\ WaitPhase(t)' = "granted" /\ Target(t) = s
    BY <1>b, <1>p, <1>r, <2>1, PhaseTable, PhaseTableNext DEF Target
  <2>3. \A u \in Threads : Target(u)' = Target(u)
    BY <2>1 DEF Target
  <2>4. Promise!Take(t)
    BY <1>o, <1>p, <2>1, <2>2, <2>3, PhaseMoves DEF Promise!Take, Target
  <2> QED BY <2>4 DEF Promise!Next
<1>5. CASE PopWaiter(t)
  <2> DEFINE s == sem[t]
             list == sem_waiting[s]
  <2>1. /\ UNCHANGED <<op, sem, sem_count>> /\ op[t] = "signal" /\ s \in Sems /\ list # <<>>
        /\ sem_waiting' = [sem_waiting EXCEPT ![s] = Tail(list)] /\ list \in Seq(Threads)
    BY <1>5, <1>b DEF PopWaiter, CoreInv, CallInv
  <2>2. PICK w \in Threads : w = Head(list) /\ w \in Range(list)
    BY <2>1, TailList
  <2>3. PlaceInv'
    BY <1>5, PlacePopWaiter DEF CoreInv
  <2>4. IsInjective(list) /\ Range(Tail(list)) = Range(list) \ {w}
    <3>1. IsInjective(list)
      BY <2>1 DEF CoreInv, PlaceInv, NoRepetition
    <3> HIDE DEF list
    <3> QED BY <2>1, <2>2, <3>1, TailList
  <2>5. /\ Waiting(w, s) /\ \A r \in Sems : Waiting(w, r) => r = s
    BY <2>1, <2>2 DEF Waiting, CoreInv, PlaceInv, NoRepetition
  <2>6. \A u \in Threads : Parked(u)' <=> Parked(u) /\ u # w
    <3>1. sem_waiting'[s] = Tail(list) /\ \A r \in Sems : r # s => sem_waiting'[r] = sem_waiting[r]
      BY <1>b, <2>1
    <3>2. \A u \in Threads, r \in Sems :
             (u \in Range(sem_waiting'[r])) <=> u \in Range(sem_waiting[r]) /\ u # w
      <4> SUFFICES ASSUME NEW u \in Threads, NEW r \in Sems
                   PROVE  u \in Range(sem_waiting'[r]) <=> u \in Range(sem_waiting[r]) /\ u # w
        OBVIOUS
      <4>1. CASE r = s
        BY <2>4, <3>1, <4>1
      <4>2. CASE r # s
        BY <2>5, <3>1, <4>2 DEF Waiting
      <4> QED BY <4>1, <4>2
    <3>3. \A u \in Threads : Parked(u) <=> \E r \in Sems : u \in Range(sem_waiting[r])
      BY DEF Parked, Range
    <3>4. \A u \in Threads : Parked(u)' <=> \E r \in Sems : u \in Range(sem_waiting'[r])
      BY DEF Parked, Range
    <3> QED BY <3>2, <3>3, <3>4
  <2>7. /\ op[w] = "wait" /\ pc[w] = "return" /\ w # t
    <3>1. PICK i \in DOMAIN list : list[i] = w
      BY <2>2 DEF Range
    <3>2. op[w] = "wait" /\ pc[w] = "return"
      BY <2>1, <3>1 DEF SemInv, WaitersCalledWait
    <3> QED BY <2>1, <3>2
  <2>8. ~BlockRequested(w)
    <3>1. ~Running(w)
      BY <2>1, <2>5 DEF CoreInv, PlaceInv, SomewhereOnce, OnOneList
    <3> QED BY <3>1 DEF BlockRequested, Running
  <2>9. WaitPhase(w)' = "granted"
    BY <1>o, <1>r, <2>6, <2>7, <2>8, PhaseTableNext
  <2>10. WaitPhase(t)' = WaitPhase(t)
    BY <2>1, PhaseTable, PhaseTableNext
  <2>11. \A u \in Threads : u # w => WaitPhase(u)' = WaitPhase(u)
    BY <1>o, <2>6, <2>10
  <2>12. \A u \in Threads : Target(u)' = Target(u)
    BY <2>1 DEF Target
  <2> HIDE DEF s
  <2>13. Promise!PostToWaiter(s)
    <3>1. [u \in Threads |-> WaitPhase(u)]' =
             [[u \in Threads |-> WaitPhase(u)] EXCEPT ![Head(sem_waiting[s])] = "granted"]
      BY <2>2, <2>9, <2>11, PhaseMoves
    <3> QED BY <1>b, <2>1, <2>12, <3>1 DEF Promise!PostToWaiter, Target
  <2> QED BY <2>1, <2>13 DEF Promise!Next
<1>6. CASE AddUnit(t)
  <2> DEFINE s == sem[t]
  <2>1. /\ UNCHANGED <<op, sem, sem_waiting>> /\ op[t] = "signal" /\ s \in Sems
        /\ sem_waiting[s] = <<>> /\ sem_count' = [sem_count EXCEPT ![s] = @ + 1]
    BY <1>6, <1>b DEF AddUnit, CoreInv, CallInv
  <2>2. \A u \in Threads : WaitPhase(u)' = WaitPhase(u) /\ Target(u)' = Target(u)
    BY <1>o, <1>p, <2>1, PhaseTable, PhaseTableNext DEF Target
  <2>3. Promise!PostToCount(s)
    BY <2>1, <2>2 DEF Promise!PostToCount, Target
  <2> QED BY <2>1, <2>3 DEF Promise!Next
<1>7. CASE ReleaseSemLock(t)
  <2>1. op[t] = "wait" => out[t] = NoMessage
    BY <1>7 DEF ReleaseSemLock, CoreInv, CallInv
  <2>2. /\ UNCHANGED <<op, sem, sem_count, sem_waiting>> /\ pc[t] = "sem_release"
        /\ op[t] = "wait" => pc'[t] = "return"
    BY <1>7, <1>b, <2>1 DEF ReleaseSemLock
  <2> QED BY <1>p, <1>r, <1>s, <2>2, PhaseTable, PhaseTableNext DEF Target
<1>8. CASE WriteIcrLow(t)
  <2>1. /\ UNCHANGED <<op, sem, sem_count, sem_waiting>>
        /\ pc[t] = "icr_low" /\ pc'[t] = "return"
    BY <1>8, <1>b DEF WriteIcrLow
  <2> QED BY <1>p, <1>r, <1>s, <2>1, PhaseTable, PhaseTableNext DEF Target
<1>9. CASE Return(t)
  <2>1. /\ UNCHANGED <<sem_count, sem_waiting>> /\ pc[t] = "return"
        /\ op' = [op EXCEPT ![t] = "none"]
    BY <1>9 DEF Return
  <2>2. WaitPhase(t)' = "outside" /\ Target(t)' = Null
    BY <1>b, <2>1, PhaseTableNext DEF Target
  <2>3. CASE op[t] = "wait"
    <3>1. WaitPhase(t) = "granted"
      BY <1>r, <2>1, <2>3, PhaseTable
    <3>2. Promise!Return(t)
      BY ZenonT(30), <1>o, <1>p, <2>1, <2>2, <3>1, PhaseMoves, TargetMoves DEF Promise!Return
    <3> QED BY <3>2 DEF Promise!Next
  <2>4. CASE op[t] # "wait"
    BY <1>s, <2>1, <2>2, <2>4, PhaseTable DEF Target
  <2> QED BY <2>3, <2>4
<1> QED BY <1>1, <1>2, <1>3, <1>4, <1>5, <1>6, <1>7, <1>8, <1>9 DEF ThreadStep

LEMMA InterruptRefines ==
    ASSUME CoreInv, SemInv, ~SelfIpiLag, NEW c \in Cpus, TimerInterrupt(c) \/ MessageStep(c)
    PROVE  Promise!Next \/ UNCHANGED Promise!vars
<1>1. /\ UNCHANGED <<pc, op, sem, sem_count>>
      /\ ~HandleSemWait(c) => UNCHANGED sem_waiting
  BY DEF TimerInterrupt, MessageStep, HandleReschedule, HandleSemWait, HandleAwaken,
     ReleaseForWaiter, FinishMessage, thread_vars, sem_vars
<1>2. \A u \in Threads : Target(u)' = Target(u)
  BY <1>1 DEF Target
<1>r. /\ HandleSemWait(c) => BlockRequested(current_thread[c])
      /\ \A u \in Threads : BlockRequested(u)' <=>
            BlockRequested(u) /\ ~(HandleSemWait(c) /\ u = current_thread[c])
  BY RequestInterrupts DEF SemInv
<1>3. CASE HandleSemWait(c)
  <2>1. /\ Receive(c, "CM_SEM_WAIT")
        /\ sem_waiting' = [sem_waiting EXCEPT ![message[c].ptr] = Append(@, current_thread[c])]
    BY <1>3 DEF HandleSemWait
  <2>2. PICK old \in Threads : old = current_thread[c]
    BY <2>1, ReceiveFacts DEF CoreInv, BaseInv
  <2>3. BlockRequested(old) /\ exec_cpu[old] = c /\ Running(old) /\ ~BlockRequested(old)'
    BY <1>3, <1>r, <2>2 DEF CoreInv, BaseInv, HomeInv, Running
  <2>4. /\ message[c] = [dst |-> c, func |-> "CM_SEM_WAIT", ptr |-> sem[old]]
        /\ op[old] = "wait" /\ pc[old] = "return" /\ sem[old] \in Sems
    BY <2>3, RequestFacts DEF SemInv
  <2> DEFINE s == sem[old]
             list == sem_waiting[s]
  <2>5. /\ sem_waiting' = [sem_waiting EXCEPT ![s] = Append(list, old)]
        /\ sem_waiting \in [Sems -> Seq(Threads)] /\ list \in Seq(Threads)
        /\ sem_count[s] = 0
    <3>1. message[c].ptr = s
      BY <2>4
    <3>2. sem_count[s] = 0
      BY <2>3, <2>4 DEF SemInv, NothingToTake
    <3> QED BY <2>1, <2>2, <2>4, <3>1, <3>2 DEF CoreInv, BaseInv, TypeOK
  <2>6. \A u \in Threads : Parked(u)' <=> Parked(u) \/ u = old
    <3>1. sem_waiting'[s] = Append(list, old)
          /\ \A r \in Sems : r # s => sem_waiting'[r] = sem_waiting[r]
      BY <2>4, <2>5
    <3>2. Range(Append(list, old)) = Range(list) \cup {old}
      <4> HIDE DEF list
      <4> QED BY <2>5, AppendList
    <3>3. \A u \in Threads : Parked(u) <=> \E r \in Sems : u \in Range(sem_waiting[r])
      BY DEF Parked, Range
    <3>4. \A u \in Threads : Parked(u)' <=> \E r \in Sems : u \in Range(sem_waiting'[r])
      BY DEF Parked, Range
    <3>5. \A u \in Threads : (\E r \in Sems : u \in Range(sem_waiting'[r])) <=>
                             (\E r \in Sems : u \in Range(sem_waiting[r])) \/ u = old
      BY Zenon, <2>4, <3>1, <3>2
    <3> QED BY <3>3, <3>4, <3>5
  <2>7. ~Parked(old)
    BY <2>3, ParkedListed
  <2>8. WaitPhase(old) = "calling" /\ WaitPhase(old)' = "parked" /\ Target(old) = s
    <3>1. op'[old] = "wait" /\ Parked(old)'
      BY <1>1, <2>4, <2>6
    <3> QED BY <2>3, <2>4, <2>7, <3>1, PhaseTable, PhaseTableNext DEF Target
  <2>9. \A u \in Threads : u # old => WaitPhase(u)' = WaitPhase(u)
    BY <1>1, <1>r, <2>2, <2>6, SamePhase
  <2>10. Promise!Park(old)
    BY <1>1, <1>2, <2>4, <2>5, <2>8, <2>9, PhaseMoves DEF Promise!Park, Target
  <2> QED BY <2>10 DEF Promise!Next
<1>4. CASE ~HandleSemWait(c)
  <2>1. \A u \in Threads : WaitPhase(u)' = WaitPhase(u)
    BY <1>1, <1>4, <1>r, ParkedSame, SamePhase
  <2> QED BY <1>1, <1>2, <1>4, <2>1, Stutters
<1> QED BY <1>3, <1>4

\* The scheduler, the messages and the handlers together do what a counting
\* semaphore does: a wait returns with a unit of its own, waiters are served in
\* order, and no signal is lost between two cpus.
THEOREM SemaphoresKeepPromise == Prompt => (Spec => KeepsPromise)
<1> SUFFICES ASSUME Prompt PROVE Spec => KeepsPromise
  OBVIOUS
<1>p. ~SelfIpiLag
  BY DEF Prompt
<1>1. Init => Promise!Init
  <2> SUFFICES ASSUME Init PROVE Promise!Init
    OBVIOUS
  <2>1. \A t \in Threads : op[t] = "none"
    BY DEF Init
  <2>2. \A t \in Threads : WaitPhase(t) = "outside" /\ Target(t) = Null
    BY <2>1, PhaseTable DEF Target
  <2> QED BY <2>2 DEF Init, Promise!Init, Target
<1>2. CoreInv /\ SemInv /\ [Next]_vars => [Promise!Next]_Promise!vars
  <2> SUFFICES ASSUME CoreInv, SemInv, [Next]_vars
               PROVE  Promise!Next \/ UNCHANGED Promise!vars
    OBVIOUS
  <2>1. CASE \E t \in Threads : ThreadStep(t)
    BY <1>p, <2>1, ThreadStepRefines
  <2>2. CASE \E c \in Cpus : TimerInterrupt(c) \/ MessageStep(c)
    BY <1>p, <2>2, InterruptRefines
  <2>3. CASE UNCHANGED vars
    <3>1. UNCHANGED <<current_thread, pc, op, sem, out, sem_count, sem_waiting, message, ipi>>
      BY <2>3 DEF vars, sched_vars, thread_vars, sem_vars, mail_vars
    <3>2. \A t \in Threads : BlockRequested(t)' <=> BlockRequested(t)
      BY <3>1 DEF BlockRequested
    <3>3. \A t \in Threads : WaitPhase(t)' = WaitPhase(t) /\ Target(t)' = Target(t)
      BY <3>1, <3>2, ParkedSame, SamePhase DEF Target
    <3> QED BY <3>1, <3>3, Stutters
  <2> QED BY <2>1, <2>2, <2>3 DEF Next
<1> QED BY <1>1, <1>2, SemKept, PTL DEF Spec, KeepsPromise, Promise!Spec
=============================================================================
