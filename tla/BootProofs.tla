----------------------------- MODULE BootProofs -----------------------------
(***************************************************************************)
(* Proofs about Boot, for every number of processors and of thread slots,  *)
(* whichever processors are enabled.                                       *)
(***************************************************************************)
EXTENDS Boot, FiniteSetTheorems, TLAPS

Starting == {"read_stack", "read_ss", "calibrate", "give_ready"}
Building == {"setup_cpu", "ts_acquire", "ts_test", "ts_mark", "ts_fields"}
Searching == {"ts_test", "ts_mark"}
AfterSetup == (SetupSteps \ {"setup_cpu"}) \cup ClockSteps
InUse == {"final_release"} \cup SetupSteps \cup ClockSteps
APs == Enabled \ {BSP}
CountedSteps == {"await_all", "register", "loop", "loop_release"}
Counted == {c \in Enabled : pc[c] \in CountedSteps}

\* One processor starts at a time: the one processor 0 waits for, which holds the
\* lock "ready" until it is done with its arguments.
ReadyInv ==
    /\ pc[BSP] \notin TrampolineSteps
    /\ \A c \in APs :
          /\ pc[c] \notin BootSteps
          /\ pc[c] # "off" => c <= next_ap
          /\ pc[c] \in Starting => c = next_ap /\ pc[BSP] = "await_ap" /\ lock["ready"]
    /\ pc[BSP] \in {"start", "hold_ready"} => next_ap = 0
    /\ pc[BSP] \in {"next", "write_ss", "write_stack", "sipi"} => lock["ready"]
    /\ pc[BSP] \in {"write_ss", "write_stack", "sipi"} =>
          next_ap \in APs /\ pc[next_ap] = "off"
    /\ pc[BSP] \in {"write_stack", "sipi", "await_ap"} => args.ss = next_ap
    /\ pc[BSP] \in {"sipi", "await_ap"} => args.stack = next_ap
    /\ pc[BSP] = "await_ap" => next_ap \in APs

\* Until processor 0 publishes the tables nobody passes process_ready.
TablesInv ==
    /\ pc[BSP] \in BootSteps \ {"start"} => lock["process_ready"]
    /\ pc[BSP] \in BootSteps => \A c \in Enabled : pc[c] \notin InUse
    /\ pc[BSP] \in {"mailbox_init", "process_create"} => "threads" \in tables
    /\ pc[BSP] = "process_create" => "mailboxes" \in tables
    /\ pc[BSP] = "publish" \/ pc[BSP] \notin BootSteps =>
          tables = {"threads", "mailboxes", "kernel_process"}

\* Who searches the slots holds ts_lock, alone; ts_mark claims a free one.
SearchInv ==
    \A c \in Enabled :
       /\ pc[c] \in Searching =>
             lock["ts_lock"] /\ \A d \in Enabled : pc[d] \in Searching => c = d
       /\ pc[c] = "ts_mark" => ~used[scan[c]]

\* A slot that is claimed but not yet filled in is nobody else's.
ClaimInv ==
    \A c \in Enabled : pc[c] = "ts_fields" =>
       /\ used[scan[c]]
       /\ \A d \in Enabled :
             /\ \A r \in Roles : slot[d][r] # scan[c]
             /\ pc[d] = "ts_fields" /\ scan[d] = scan[c] => c = d

\* A slot that thread_create returned holds that thread.
OwnerInv ==
    \A c \in Enabled : \A r \in Roles : slot[c][r] # Null =>
       used[slot[c][r]] /\ tcb[slot[c][r]] = [cpu |-> c, role |-> r]

\* Which of its threads a processor has made.
MadeInv ==
    \A c \in Enabled :
       /\ pc[c] \notin InUse => slot[c] = [r \in Roles |-> Null] /\ making[c] = "clock"
       /\ pc[c] \in {"add_ready", "current_start"} \cup ClockSteps =>
             slot[c]["clock"] # Null /\ slot[c]["idle"] # Null
       /\ making[c] = "idle" => slot[c]["clock"] # Null

SlotInv == SearchInv /\ ClaimInv /\ OwnerInv /\ MadeInv

\* The queues of a processor with no thread, with both, with the idle thread.
NoneReady == [p \in Priorities |-> <<>>]
IdleReady(c) == [p \in Priorities |-> IF p = 5 THEN <<slot[c]["idle"]>> ELSE <<>>]
BothReady(c) == [IdleReady(c) EXCEPT ![0] = <<slot[c]["clock"]>>]

\* What a processor has set up when it gets to a step.
SetupOf(c) ==
    /\ pc[c] \in AfterSetup => mailbox[c] = c
    /\ pc[c] \notin AfterSetup
       /\ (pc[BSP] \in {"process_create", "publish"} \/ pc[BSP] \notin BootSteps) =>
          mailbox[c] = Null
    /\ pc[c] \in (Building \ {"setup_cpu"}) \cup {"add_ready"} => ready[c] = NoneReady
    /\ pc[c] = "current_start" => ready[c] = BothReady(c)
    /\ pc[c] \in ClockSteps =>
          current_thread[c] = slot[c]["clock"] /\ ready[c] = IdleReady(c)

SetupInv == \A c \in Enabled : SetupOf(c)

\* clk_entered may lose increments but never runs ahead of the processors that
\* made one, nor does a value that is about to be stored.
CountInv ==
    /\ clk_entered <= Cardinality(Counted)
    /\ \A c \in Enabled : pc[c] = "count_store" => register[c] <= Cardinality(Counted)
    /\ pc[BSP] = "register" \/ timer_isr = "preempt" => Counted = Enabled

BootInv ==
    TypeOK /\ OwnArguments /\ ReadyInv /\ TablesInv /\ SlotInv
       /\ SetupInv /\ CountInv

-----------------------------------------------------------------------------
(* Types.                                                                  *)

LEMMA Basics ==
    /\ processor_count \in Nat /\ Cpus = 0 .. processor_count - 1 /\ Cpus \subseteq Nat
    /\ Enabled \subseteq Cpus /\ BSP = 0 /\ BSP \in Enabled
    /\ MaxSlots \in Nat /\ Slots = 0 .. MaxSlots - 1 /\ 0 \in Slots
    /\ MailboxIds = 0 .. 2 * processor_count - 1
    /\ \A c \in Cpus : c \in MailboxIds /\ processor_count + c \in MailboxIds
    /\ Null \notin Int /\ Null \notin Slots /\ Null \notin Cpus
BY ProcessorAssumption, NullAssumption DEF Cpus, BSP, Slots, MailboxIds

LEMMA ReadyTypes ==
    ASSUME NEW c \in Enabled, slot[c]["clock"] \in Slots, slot[c]["idle"] \in Slots
    PROVE  /\ IdleReady(c) \in [Priorities -> Seq(Slots)]
           /\ BothReady(c) \in [Priorities -> Seq(Slots)]
<1>1. <<>> \in Seq(Slots) /\ <<slot[c]["idle"]>> \in Seq(Slots)
      /\ <<slot[c]["clock"]>> \in Seq(Slots)
  OBVIOUS
<1>2. IdleReady(c) \in [Priorities -> Seq(Slots)]
  BY <1>1 DEF IdleReady
<1> QED BY <1>1, <1>2 DEF BothReady

\* What the loops over the queues come to for a processor with two threads.
LEMMA AddThreadsEffect ==
    ASSUME TypeOK, SlotInv, SetupInv, NEW c \in Enabled, AddThreads(c)
    PROVE  ready' = [ready EXCEPT ![c] = BothReady(c)]
<1> DEFINE k == slot[c]["clock"]
           i == slot[c]["idle"]
<1>1. /\ pc[c] = "add_ready" /\ ready[c] = NoneReady
      /\ ready' = AddReady(AddReady(ready, k), i)
  BY DEF AddThreads, Goto, SetupInv, SetupOf
<1>2. tcb[k] = [cpu |-> c, role |-> "clock"] /\ tcb[i] = [cpu |-> c, role |-> "idle"]
  BY <1>1 DEF SlotInv, OwnerInv, MadeInv, Roles
<1>3. priority["clock"] = 0 /\ priority["idle"] = 5 /\ 0 \in Priorities /\ 5 \in Priorities
  BY DEF priority, Roles, Priorities
<1>4. ready \in [Enabled -> [Priorities -> Seq(Slots)]]
  BY DEF TypeOK
<1>5. AddReady(ready, k) = [ready EXCEPT ![c] = [NoneReady EXCEPT ![0] = <<k>>]]
  <2> tcb[k].cpu = c /\ priority[tcb[k].role] = 0
    BY <1>2, <1>3
  <2>1. AddReady(ready, k) = [ready EXCEPT ![c][0] = Append(@, k)]
    BY DEF AddReady
  <2>2. Append(NoneReady[0], k) = <<k>>
    BY <1>3 DEF NoneReady
  <2> QED BY <1>1, <1>4, <2>1, <2>2
<1>6. AddReady(AddReady(ready, k), i)
        = [ready EXCEPT ![c] = [NoneReady EXCEPT ![0] = <<k>>, ![5] = <<i>>]]
  <2> DEFINE q == [ready EXCEPT ![c] = [NoneReady EXCEPT ![0] = <<k>>]]
  <2> tcb[i].cpu = c /\ priority[tcb[i].role] = 5
    BY <1>2, <1>3
  <2>1. AddReady(q, i) = [q EXCEPT ![c][5] = Append(@, i)]
    BY DEF AddReady
  <2>2. q[c] = [NoneReady EXCEPT ![0] = <<k>>]
    BY <1>4
  <2>3. q[c][5] = <<>>
    BY <1>3, <2>2 DEF NoneReady
  <2>4. Append(<<>>, i) = <<i>>
    OBVIOUS
  <2> QED BY <1>4, <1>5, <2>1, <2>2, <2>3, <2>4
<1>7. [NoneReady EXCEPT ![0] = <<k>>, ![5] = <<i>>] = BothReady(c)
  BY <1>3 DEF NoneReady, BothReady, IdleReady
<1> QED BY <1>1, <1>6, <1>7

LEMMA CurrentStartEffect ==
    ASSUME TypeOK, SetupInv, NEW c \in Enabled, scheduler_current_start(c)
    PROVE  /\ current_thread' = [current_thread EXCEPT ![c] = slot[c]["clock"]]
           /\ ready' = [ready EXCEPT ![c] = IdleReady(c)]
<1>1. ready[c] = BothReady(c) /\ ready \in [Enabled -> [Priorities -> Seq(Slots)]]
  BY DEF scheduler_current_start, Goto, SetupInv, SetupOf, TypeOK
<1>2. 0 \in Priorities /\ \A p \in Priorities : p \in Nat
  BY DEF Priorities
<1>3. BothReady(c)[0] = <<slot[c]["clock"]>> /\ BothReady(c)[0] # <<>>
  BY <1>2 DEF BothReady, IdleReady
<1>4. PICK p \in Priorities :
         /\ \A q \in Priorities : q < p => ready[c][q] = <<>>
         /\ current_thread' = [current_thread EXCEPT ![c] = Head(ready[c][p])]
         /\ ready' = [ready EXCEPT ![c][p] = Tail(@)]
  BY DEF scheduler_current_start
<1>5. p = 0
  <2> SUFFICES ASSUME 0 < p PROVE FALSE
    BY <1>2
  <2>1. ready[c][0] = <<>>
    BY <1>2, <1>4
  <2> QED BY <1>1, <1>3, <2>1
<1>6. [BothReady(c) EXCEPT ![0] = <<>>] = IdleReady(c)
  BY <1>2 DEF BothReady, IdleReady
<1>7. Head(<<slot[c]["clock"]>>) = slot[c]["clock"] /\ Tail(<<slot[c]["clock"]>>) = <<>>
  OBVIOUS
<1> QED BY <1>1, <1>3, <1>4, <1>5, <1>6, <1>7

-----------------------------------------------------------------------------
(* Counting the processors.                                                *)

LEMMA CountedFacts ==
    /\ Cardinality(Counted) \in 0 .. processor_count
    /\ \A c \in Enabled \ Counted :
          /\ Cardinality(Counted \cup {c}) = Cardinality(Counted) + 1
          /\ Cardinality(Counted) + 1 <= processor_count
    /\ Cardinality(Counted) = processor_count => Counted = Enabled
<1> USE Basics
<1>1. IsFiniteSet(Cpus) /\ Cardinality(Cpus) = processor_count
  BY FS_Interval
<1>2. Counted \subseteq Cpus /\ Counted \subseteq Enabled
  BY DEF Counted
<1>3. IsFiniteSet(Counted) /\ Cardinality(Counted) \in Nat
      /\ Cardinality(Counted) <= processor_count
  BY <1>1, <1>2, FS_Subset, FS_CardinalityType
<1>4. ASSUME NEW c \in Enabled \ Counted
      PROVE  /\ Cardinality(Counted \cup {c}) = Cardinality(Counted) + 1
             /\ Cardinality(Counted) + 1 <= processor_count
  <2>1. Cardinality(Counted \cup {c}) = Cardinality(Counted) + 1
    BY <1>3, FS_AddElement
  <2>2. Counted \cup {c} \subseteq Cpus
    BY <1>2
  <2>3. Cardinality(Counted \cup {c}) <= processor_count
    BY <1>1, <2>2, FS_Subset
  <2> QED BY <2>1, <2>3
<1>5. ASSUME Cardinality(Counted) = processor_count PROVE Counted = Enabled
  BY <1>1, <1>2, <1>5, FS_Subset
<1> QED BY <1>3, <1>4, <1>5

\* Every step keeps the types.
LEMMA TypeStep ==
    ASSUME TypeOK, SlotInv, SetupInv, CountInv, Next
    PROVE  TypeOK'
<1> USE Basics DEF Goto, boot_vars, slot_vars, sched_vars, clock_vars, TypeOK, Steps,
     BootSteps, TrampolineSteps, SetupSteps, ClockSteps, Locks
<1>1. ASSUME BootStep PROVE TypeOK'
  <2>1. CASE Acquire(BSP, "process_ready", "start", "hold_ready")
    BY <2>1 DEF Acquire
  <2>2. CASE Acquire(BSP, "ready", "hold_ready", "next")
    BY <2>2 DEF Acquire
  <2>3. CASE NextAP
    BY <2>3 DEF NextAP
  <2>4. CASE AllStarted
    BY <2>4 DEF AllStarted
  <2>5. CASE WriteArgument("ss", "write_ss", "write_stack")
    BY <2>5 DEF WriteArgument
  <2>6. CASE WriteArgument("stack", "write_stack", "sipi")
    BY <2>6 DEF WriteArgument
  <2>7. CASE processor_startup
    BY <2>7 DEF processor_startup
  <2>8. CASE Acquire(BSP, "ready", "await_ap", "next")
    BY <2>8 DEF Acquire
  <2>9. CASE process_init
    BY <2>9 DEF process_init
  <2>10. CASE mailbox_init
    BY <2>10 DEF mailbox_init
  <2>11. CASE process_create_static
    BY <2>11 DEF process_create_static
  <2>12. CASE Release(BSP, "process_ready", "publish", "final_acquire")
    BY <2>12 DEF Release
  <2> QED BY <1>1, <2>1, <2>2, <2>3, <2>4, <2>5, <2>6, <2>7, <2>8, <2>9, <2>10, <2>11,
       <2>12 DEF BootStep
<1>2. ASSUME NEW c \in Enabled, c # BSP, TrampolineStep(c) PROVE TypeOK'
  <2>1. CASE ReadStack(c)
    BY <2>1 DEF ReadStack
  <2>2. CASE ReadSegment(c)
    BY <2>2 DEF ReadSegment
  <2>3. CASE Calibrate(c)
    BY <2>3 DEF Calibrate
  <2>4. CASE Release(c, "ready", "give_ready", "final_acquire")
    BY <2>4 DEF Release
  <2> QED BY <1>2, <2>1, <2>2, <2>3, <2>4 DEF TrampolineStep
<1>3. ASSUME NEW c \in Enabled, final_processor_setup(c) PROVE TypeOK'
  <2>1. CASE Acquire(c, "process_ready", "final_acquire", "final_release")
    BY <2>1 DEF Acquire
  <2>2. CASE Release(c, "process_ready", "final_release", "setup_cpu")
    BY <2>2 DEF Release
  <2>3. CASE Acquire(c, "ts_lock", "ts_acquire", "ts_test")
    BY <2>3 DEF Acquire
  <2>4. CASE SkipSlot(c)
    BY <2>4 DEF SkipSlot
  <2>5. CASE FindSlot(c)
    BY <2>5 DEF FindSlot
  <2>6. CASE MarkSlot(c)
    BY <2>6 DEF MarkSlot
  <2>7. CASE SetUpCpu(c)
    <3>1. pc' \in [Enabled -> Steps]
      BY <2>7 DEF SetUpCpu, Goto, TypeOK, Steps, SetupSteps
    <3>2. mailbox' \in [MailboxIds -> Slots \cup Cpus \cup {Null}]
      BY <2>7 DEF SetUpCpu, CreateMailbox, TypeOK
    <3>3. ready' \in [Enabled -> [Priorities -> Seq(Slots)]]
      BY <2>7 DEF SetUpCpu, TypeOK
    <3>4. current_thread' \in [Enabled -> Slots \cup {Null}]
      BY <2>7 DEF SetUpCpu, TypeOK
    <3> QED
      BY <2>7, <3>1, <3>2, <3>3, <3>4
         DEF SetUpCpu, TypeOK, boot_vars, slot_vars, clock_vars
  <2>8. CASE FillSlot(c)
    <3>1. pc' \in [Enabled -> Steps]
      BY <2>8 DEF FillSlot, Goto, TypeOK, Steps, SetupSteps
    <3>2. making[c] \in Roles /\ scan[c] \in Slots /\ "idle" \in Roles
      BY DEF TypeOK, Roles
    <3>3. tcb' \in [Slots -> [cpu : Enabled, role : Roles] \cup {NoThread}]
      BY <2>8, <3>2 DEF FillSlot, TypeOK
    <3>4. slot' \in [Enabled -> [Roles -> Slots \cup {Null}]]
      BY <2>8, <3>2 DEF FillSlot, TypeOK
    <3>5. making' \in [Enabled -> Roles] /\ scan' \in [Enabled -> Slots]
      BY <2>8, <3>2 DEF FillSlot, TypeOK
    <3> QED
      BY <2>8, <3>1, <3>3, <3>4, <3>5 DEF FillSlot, TypeOK, boot_vars, sched_vars, clock_vars
  <2>9. CASE AddThreads(c)
    <3>1. pc' \in [Enabled -> Steps]
      BY <2>9 DEF AddThreads, Goto, TypeOK, Steps, SetupSteps
    <3>2. slot[c]["clock"] \in Slots /\ slot[c]["idle"] \in Slots
      BY <2>9 DEF AddThreads, Goto, SlotInv, MadeInv, TypeOK, Roles
    <3>3. mailbox' \in [MailboxIds -> Slots \cup Cpus \cup {Null}]
      BY <2>9, <3>2 DEF AddThreads, CreateMailbox, TypeOK
    <3>4. BothReady(c) \in [Priorities -> Seq(Slots)]
      BY <3>2, ReadyTypes
    <3>5. ready' = [ready EXCEPT ![c] = BothReady(c)]
      BY <2>9, AddThreadsEffect
    <3>6. ready' \in [Enabled -> [Priorities -> Seq(Slots)]]
      BY <3>4, <3>5 DEF TypeOK
    <3> QED
      BY <2>9, <3>1, <3>3, <3>6 DEF AddThreads, TypeOK, boot_vars, slot_vars, clock_vars
  <2>10. CASE scheduler_current_start(c)
    <3>1. pc' \in [Enabled -> Steps]
      BY <2>10 DEF scheduler_current_start, Goto, TypeOK, Steps, ClockSteps
    <3>2. slot[c]["clock"] \in Slots /\ slot[c]["idle"] \in Slots
      BY <2>10 DEF scheduler_current_start, Goto, SlotInv, MadeInv, TypeOK, Roles
    <3>3. IdleReady(c) \in [Priorities -> Seq(Slots)]
      BY <3>2, ReadyTypes
    <3>4. /\ current_thread' = [current_thread EXCEPT ![c] = slot[c]["clock"]]
          /\ ready' = [ready EXCEPT ![c] = IdleReady(c)]
      BY <2>10, CurrentStartEffect
    <3>5. /\ current_thread' \in [Enabled -> Slots \cup {Null}]
          /\ ready' \in [Enabled -> [Priorities -> Seq(Slots)]]
      BY <3>2, <3>3, <3>4 DEF TypeOK
    <3> QED
      BY <2>10, <3>1, <3>5
         DEF scheduler_current_start, TypeOK, boot_vars, slot_vars, clock_vars
  <2> QED BY <1>3, <2>1, <2>2, <2>3, <2>4, <2>5, <2>6, <2>7, <2>8, <2>9, <2>10 DEF
       final_processor_setup, thread_create
<1>4. ASSUME NEW c \in Enabled, clock_task_entry_point(c) PROVE TypeOK'
  <2>1. CASE Acquire(c, "print", "print_acquire", "print_release")
    BY <2>1 DEF Acquire
  <2>2. CASE Release(c, "print", "print_release", "count_load")
    BY <2>2 DEF Release
  <2>3. CASE LoadCount(c)
    BY <2>3 DEF LoadCount
  <2>4. CASE c = BSP /\ AwaitAll
    BY <2>4 DEF AwaitAll
  <2>5. CASE c = BSP /\ RegisterTimer
    BY <2>5 DEF RegisterTimer
  <2>6. CASE Acquire(c, "print", "loop", "loop_release")
    BY <2>6 DEF Acquire
  <2>7. CASE Release(c, "print", "loop_release", "loop")
    BY <2>7 DEF Release
  <2>8. CASE StoreCount(c)
    <3>1. pc' \in [Enabled -> Steps]
      BY <2>8 DEF StoreCount, Goto, TypeOK, Steps, ClockSteps
    <3>2. c \in Enabled \ Counted /\ register[c] <= Cardinality(Counted)
      BY <2>8 DEF StoreCount, Goto, Counted, CountedSteps, CountInv
    <3>3. register[c] \in Nat /\ register[c] + 1 <= processor_count
      BY <3>2, CountedFacts DEF TypeOK
    <3>4. clk_entered' \in 0 .. processor_count
      BY <2>8, <3>3 DEF StoreCount
    <3> QED
      BY <2>8, <3>1, <3>4 DEF StoreCount, TypeOK, boot_vars, slot_vars, sched_vars
  <2> QED BY <1>4, <2>1, <2>2, <2>3, <2>4, <2>5, <2>6, <2>7, <2>8 DEF
       clock_task_entry_point
<1> QED BY <1>1, <1>2, <1>3, <1>4 DEF Next, CpuStep

\* Every step keeps the arguments of each processor its own.
LEMMA ArgumentsStep ==
    ASSUME TypeOK, OwnArguments, ReadyInv, Next
    PROVE  OwnArguments'
<1> USE Basics DEF Goto, boot_vars, slot_vars, sched_vars, clock_vars, TypeOK, OwnArguments
<1>1. ASSUME BootStep PROVE OwnArguments'
  <2>1. CASE Acquire(BSP, "process_ready", "start", "hold_ready")
    BY <2>1 DEF Acquire
  <2>2. CASE Acquire(BSP, "ready", "hold_ready", "next")
    BY <2>2 DEF Acquire
  <2>3. CASE NextAP
    BY <2>3 DEF NextAP
  <2>4. CASE AllStarted
    BY <2>4 DEF AllStarted
  <2>5. CASE WriteArgument("ss", "write_ss", "write_stack")
    BY <2>5 DEF WriteArgument
  <2>6. CASE WriteArgument("stack", "write_stack", "sipi")
    BY <2>6 DEF WriteArgument
  <2>7. CASE processor_startup
    BY <2>7 DEF processor_startup
  <2>8. CASE Acquire(BSP, "ready", "await_ap", "next")
    BY <2>8 DEF Acquire
  <2>9. CASE process_init
    BY <2>9 DEF process_init
  <2>10. CASE mailbox_init
    BY <2>10 DEF mailbox_init
  <2>11. CASE process_create_static
    BY <2>11 DEF process_create_static
  <2>12. CASE Release(BSP, "process_ready", "publish", "final_acquire")
    BY <2>12 DEF Release
  <2> QED BY <1>1, <2>1, <2>2, <2>3, <2>4, <2>5, <2>6, <2>7, <2>8, <2>9, <2>10, <2>11,
       <2>12 DEF BootStep
<1>2. ASSUME NEW c \in Enabled, c # BSP, TrampolineStep(c) PROVE OwnArguments'
  <2>1. CASE Calibrate(c)
    BY <2>1 DEF Calibrate
  <2>2. CASE Release(c, "ready", "give_ready", "final_acquire")
    BY <2>2 DEF Release
  <2>3. CASE ReadStack(c)
    BY <1>2, <2>3 DEF ReadStack, Goto, TypeOK, OwnArguments, ReadyInv, APs, Starting
  <2>4. CASE ReadSegment(c)
    BY <1>2, <2>4 DEF ReadSegment, Goto, TypeOK, OwnArguments, ReadyInv, APs, Starting
  <2> QED BY <1>2, <2>1, <2>2, <2>3, <2>4 DEF TrampolineStep
<1>3. ASSUME NEW c \in Enabled, final_processor_setup(c) PROVE OwnArguments'
  <2>1. CASE Acquire(c, "process_ready", "final_acquire", "final_release")
    BY <2>1, ZenonT(30) DEF Acquire
  <2>2. CASE Release(c, "process_ready", "final_release", "setup_cpu")
    BY <2>2, ZenonT(30) DEF Release
  <2>3. CASE SetUpCpu(c)
    BY <2>3, ZenonT(30) DEF SetUpCpu, CreateMailbox
  <2>4. CASE Acquire(c, "ts_lock", "ts_acquire", "ts_test")
    BY <2>4, ZenonT(30) DEF Acquire
  <2>5. CASE SkipSlot(c) \/ FindSlot(c) \/ MarkSlot(c) \/ FillSlot(c)
    BY <2>5, ZenonT(30) DEF SkipSlot, FindSlot, MarkSlot, FillSlot
  <2>6. CASE AddThreads(c)
    BY <2>6, ZenonT(30) DEF AddThreads, CreateMailbox
  <2>7. CASE scheduler_current_start(c)
    BY <2>7, ZenonT(30) DEF scheduler_current_start
  <2> QED BY <1>3, <2>1, <2>2, <2>3, <2>4, <2>5, <2>6, <2>7 DEF
       final_processor_setup, thread_create
<1>4. ASSUME NEW c \in Enabled, clock_task_entry_point(c) PROVE OwnArguments'
  <2>1. CASE \/ Acquire(c, "print", "print_acquire", "print_release")
             \/ Acquire(c, "print", "loop", "loop_release")
    BY <2>1, ZenonT(30) DEF Acquire
  <2>2. CASE \/ Release(c, "print", "print_release", "count_load")
             \/ Release(c, "print", "loop_release", "loop")
    BY <2>2, ZenonT(30) DEF Release
  <2>3. CASE LoadCount(c)
    BY <2>3, ZenonT(30) DEF LoadCount
  <2>4. CASE StoreCount(c)
    BY <2>4, ZenonT(30) DEF StoreCount
  <2>5. CASE AwaitAll \/ RegisterTimer
    BY <2>5, ZenonT(30) DEF AwaitAll, RegisterTimer
  <2> QED BY <1>4, <2>1, <2>2, <2>3, <2>4, <2>5 DEF clock_task_entry_point
<1> QED BY <1>1, <1>2, <1>3, <1>4 DEF Next, CpuStep

\* Every step keeps who holds the lock "ready" and which processors are off.
LEMMA ReadyStep ==
    ASSUME TypeOK, ReadyInv, Next
    PROVE  ReadyInv'
<1> USE Basics DEF Goto, boot_vars, slot_vars, sched_vars, clock_vars, TypeOK, ReadyInv,
     APs, Locks, Starting, BootSteps, TrampolineSteps
<1>1. ASSUME BootStep PROVE ReadyInv'
  <2>1. CASE Acquire(BSP, "process_ready", "start", "hold_ready")
    BY <2>1 DEF Acquire
  <2>2. CASE Acquire(BSP, "ready", "hold_ready", "next")
    BY <2>2 DEF Acquire
  <2>3. CASE NextAP
    BY <2>3 DEF NextAP
  <2>4. CASE AllStarted
    BY <2>4 DEF AllStarted
  <2>5. CASE WriteArgument("ss", "write_ss", "write_stack")
    BY <2>5 DEF WriteArgument
  <2>6. CASE WriteArgument("stack", "write_stack", "sipi")
    BY <2>6 DEF WriteArgument
  <2>7. CASE processor_startup
    BY <2>7 DEF processor_startup
  <2>8. CASE Acquire(BSP, "ready", "await_ap", "next")
    BY <2>8 DEF Acquire
  <2>9. CASE process_init
    BY <2>9 DEF process_init
  <2>10. CASE mailbox_init
    BY <2>10 DEF mailbox_init
  <2>11. CASE process_create_static
    BY <2>11 DEF process_create_static
  <2>12. CASE Release(BSP, "process_ready", "publish", "final_acquire")
    BY <2>12 DEF Release
  <2> QED BY <1>1, <2>1, <2>2, <2>3, <2>4, <2>5, <2>6, <2>7, <2>8, <2>9, <2>10, <2>11,
       <2>12 DEF BootStep
<1>2. ASSUME NEW c \in Enabled, c # BSP, TrampolineStep(c) PROVE ReadyInv'
  <2>1. CASE ReadStack(c)
    BY <2>1 DEF ReadStack
  <2>2. CASE ReadSegment(c)
    BY <2>2 DEF ReadSegment
  <2>3. CASE Calibrate(c)
    BY <2>3 DEF Calibrate
  <2>4. CASE Release(c, "ready", "give_ready", "final_acquire")
    BY <2>4 DEF Release
  <2> QED BY <1>2, <2>1, <2>2, <2>3, <2>4 DEF TrampolineStep
<1>3. ASSUME NEW c \in Enabled, final_processor_setup(c) PROVE ReadyInv'
  <2>1. CASE Acquire(c, "process_ready", "final_acquire", "final_release")
    BY ZenonT(30), <2>1 DEF Acquire
  <2>2. CASE Release(c, "process_ready", "final_release", "setup_cpu")
    BY ZenonT(30), <2>2 DEF Release
  <2>3. CASE SetUpCpu(c)
    BY ZenonT(30), <2>3 DEF SetUpCpu, CreateMailbox
  <2>4. CASE Acquire(c, "ts_lock", "ts_acquire", "ts_test")
    BY ZenonT(30), <2>4 DEF Acquire
  <2>5. CASE SkipSlot(c)
    BY ZenonT(30), <2>5 DEF SkipSlot
  <2>6. CASE FindSlot(c)
    BY ZenonT(30), <2>6 DEF FindSlot
  <2>7. CASE MarkSlot(c)
    BY ZenonT(30), <2>7 DEF MarkSlot
  <2>8. CASE FillSlot(c)
    BY ZenonT(30), <2>8 DEF FillSlot
  <2>9. CASE AddThreads(c)
    BY ZenonT(30), <2>9 DEF AddThreads, CreateMailbox, AddReady
  <2>10. CASE scheduler_current_start(c)
    BY ZenonT(30), <2>10 DEF scheduler_current_start
  <2> QED BY <1>3, <2>1, <2>2, <2>3, <2>4, <2>5, <2>6, <2>7, <2>8, <2>9, <2>10 DEF
       final_processor_setup, thread_create
<1>4. ASSUME NEW c \in Enabled, clock_task_entry_point(c) PROVE ReadyInv'
  <2>1. CASE Acquire(c, "print", "print_acquire", "print_release")
    BY ZenonT(30), <2>1 DEF Acquire
  <2>2. CASE Release(c, "print", "print_release", "count_load")
    BY ZenonT(30), <2>2 DEF Release
  <2>3. CASE LoadCount(c)
    BY ZenonT(30), <2>3 DEF LoadCount
  <2>4. CASE StoreCount(c)
    BY ZenonT(30), <2>4 DEF StoreCount
  <2>5. CASE c = BSP /\ AwaitAll
    BY ZenonT(30), <2>5 DEF AwaitAll
  <2>6. CASE c = BSP /\ RegisterTimer
    BY ZenonT(30), <2>6 DEF RegisterTimer
  <2>7. CASE Acquire(c, "print", "loop", "loop_release")
    BY ZenonT(30), <2>7 DEF Acquire
  <2>8. CASE Release(c, "print", "loop_release", "loop")
    BY ZenonT(30), <2>8 DEF Release
  <2> QED BY <1>4, <2>1, <2>2, <2>3, <2>4, <2>5, <2>6, <2>7, <2>8 DEF
       clock_task_entry_point
<1> QED BY <1>1, <1>2, <1>3, <1>4 DEF Next, CpuStep

\* Every step keeps the tables closed until they are complete.
LEMMA TablesStep ==
    ASSUME TypeOK, ReadyInv, TablesInv, Next
    PROVE  TablesInv'
<1> USE Basics DEF Goto, boot_vars, slot_vars, sched_vars, clock_vars
<1>1. ASSUME BootStep PROVE TablesInv'
  <2>1. CASE Acquire(BSP, "process_ready", "start", "hold_ready")
    BY <2>1 DEF Acquire, TypeOK, ReadyInv, TablesInv, APs, Locks, InUse, BootSteps,
         SetupSteps, ClockSteps, TrampolineSteps
  <2>2. CASE Acquire(BSP, "ready", "hold_ready", "next")
    BY <2>2 DEF Acquire, TypeOK, ReadyInv, TablesInv, APs, Locks, InUse, BootSteps,
         SetupSteps, ClockSteps, TrampolineSteps
  <2>3. CASE NextAP
    BY <2>3 DEF NextAP, TypeOK, ReadyInv, TablesInv, APs, Locks, InUse, BootSteps,
         SetupSteps, ClockSteps, TrampolineSteps
  <2>4. CASE AllStarted
    BY <2>4 DEF AllStarted, TypeOK, ReadyInv, TablesInv, APs, Locks, InUse, BootSteps,
         SetupSteps, ClockSteps, TrampolineSteps
  <2>5. CASE WriteArgument("ss", "write_ss", "write_stack")
    BY <2>5 DEF WriteArgument, TypeOK, ReadyInv, TablesInv, APs, Locks, InUse,
         BootSteps, SetupSteps, ClockSteps, TrampolineSteps
  <2>6. CASE WriteArgument("stack", "write_stack", "sipi")
    BY <2>6 DEF WriteArgument, TypeOK, ReadyInv, TablesInv, APs, Locks, InUse,
         BootSteps, SetupSteps, ClockSteps, TrampolineSteps
  <2>7. CASE processor_startup
    BY <2>7 DEF processor_startup, TypeOK, ReadyInv, TablesInv, APs, Locks, InUse,
         BootSteps, SetupSteps, ClockSteps, TrampolineSteps
  <2>8. CASE Acquire(BSP, "ready", "await_ap", "next")
    BY <2>8 DEF Acquire, TypeOK, ReadyInv, TablesInv, APs, Locks, InUse, BootSteps,
         SetupSteps, ClockSteps, TrampolineSteps
  <2>9. CASE process_init
    BY <2>9 DEF process_init, TypeOK, ReadyInv, TablesInv, APs, Locks, InUse, BootSteps,
         SetupSteps, ClockSteps, TrampolineSteps
  <2>10. CASE mailbox_init
    BY <2>10 DEF mailbox_init, TypeOK, ReadyInv, TablesInv, APs, Locks, InUse,
         BootSteps, SetupSteps, ClockSteps, TrampolineSteps
  <2>11. CASE Release(BSP, "process_ready", "publish", "final_acquire")
    BY <2>11 DEF Release, TypeOK, ReadyInv, TablesInv, APs, Locks, InUse, BootSteps,
         SetupSteps, ClockSteps, TrampolineSteps
  <2>12. CASE process_create_static
    <3>1. tables' = {"threads", "mailboxes", "kernel_process"}
      BY ZenonT(30), <2>12 DEF process_create_static, Goto, TypeOK, TablesInv
    <3>2. pc' = [pc EXCEPT ![BSP] = "publish"] /\ pc[BSP] = "process_create" /\ lock' = lock
      BY <2>12 DEF process_create_static, Goto
    <3> QED
      BY <3>1, <3>2 DEF TypeOK, TablesInv, BootSteps, InUse, SetupSteps, ClockSteps
  <2> QED BY <1>1, <2>1, <2>2, <2>3, <2>4, <2>5, <2>6, <2>7, <2>8, <2>9, <2>10, <2>11,
       <2>12 DEF BootStep
<1>2. ASSUME NEW c \in Enabled, c # BSP, TrampolineStep(c) PROVE TablesInv'
  <2>1. CASE ReadStack(c)
    BY <2>1 DEF ReadStack, TypeOK, ReadyInv, TablesInv, APs, Locks, InUse, BootSteps,
         SetupSteps, ClockSteps, TrampolineSteps
  <2>2. CASE ReadSegment(c)
    BY <2>2 DEF ReadSegment, TypeOK, ReadyInv, TablesInv, APs, Locks, InUse, BootSteps,
         SetupSteps, ClockSteps, TrampolineSteps
  <2>3. CASE Calibrate(c)
    BY <2>3 DEF Calibrate, TypeOK, ReadyInv, TablesInv, APs, Locks, InUse, BootSteps,
         SetupSteps, ClockSteps, TrampolineSteps
  <2>4. CASE Release(c, "ready", "give_ready", "final_acquire")
    BY <2>4 DEF Release, TypeOK, ReadyInv, TablesInv, APs, Locks, InUse, BootSteps,
         SetupSteps, ClockSteps, TrampolineSteps
  <2> QED BY <1>2, <2>1, <2>2, <2>3, <2>4 DEF TrampolineStep
<1>3. ASSUME NEW c \in Enabled, final_processor_setup(c) PROVE TablesInv'
  <2>1. CASE Acquire(c, "process_ready", "final_acquire", "final_release")
    BY <2>1 DEF Acquire, TypeOK, ReadyInv, TablesInv, APs, Locks, InUse, BootSteps,
         SetupSteps, ClockSteps, TrampolineSteps
  <2>2. CASE Release(c, "process_ready", "final_release", "setup_cpu")
    BY <2>2 DEF Release, TypeOK, ReadyInv, TablesInv, APs, Locks, InUse, BootSteps,
         SetupSteps, ClockSteps, TrampolineSteps
  <2>3. CASE SetUpCpu(c)
    BY <2>3 DEF SetUpCpu, CreateMailbox, TypeOK, ReadyInv, TablesInv, APs, Locks, InUse,
         BootSteps, SetupSteps, ClockSteps, TrampolineSteps
  <2>4. CASE Acquire(c, "ts_lock", "ts_acquire", "ts_test")
    BY <2>4 DEF Acquire, TypeOK, ReadyInv, TablesInv, APs, Locks, InUse, BootSteps,
         SetupSteps, ClockSteps, TrampolineSteps
  <2>5. CASE SkipSlot(c)
    BY <2>5 DEF SkipSlot, TypeOK, ReadyInv, TablesInv, APs, Locks, InUse, BootSteps,
         SetupSteps, ClockSteps, TrampolineSteps
  <2>6. CASE FindSlot(c)
    BY <2>6 DEF FindSlot, TypeOK, ReadyInv, TablesInv, APs, Locks, InUse, BootSteps,
         SetupSteps, ClockSteps, TrampolineSteps
  <2>7. CASE MarkSlot(c)
    BY <2>7 DEF MarkSlot, TypeOK, ReadyInv, TablesInv, APs, Locks, InUse, BootSteps,
         SetupSteps, ClockSteps, TrampolineSteps
  <2>8. CASE FillSlot(c)
    BY <2>8 DEF FillSlot, TypeOK, ReadyInv, TablesInv, APs, Locks, InUse, BootSteps,
         SetupSteps, ClockSteps, TrampolineSteps
  <2>9. CASE AddThreads(c)
    BY <2>9 DEF AddThreads, CreateMailbox, AddReady, TypeOK, ReadyInv, TablesInv, APs,
         Locks, InUse, BootSteps, SetupSteps, ClockSteps, TrampolineSteps
  <2>10. CASE scheduler_current_start(c)
    BY <2>10 DEF scheduler_current_start, TypeOK, ReadyInv, TablesInv, APs, Locks,
         InUse, BootSteps, SetupSteps, ClockSteps, TrampolineSteps
  <2> QED BY <1>3, <2>1, <2>2, <2>3, <2>4, <2>5, <2>6, <2>7, <2>8, <2>9, <2>10 DEF
       final_processor_setup, thread_create
<1>4. ASSUME NEW c \in Enabled, clock_task_entry_point(c) PROVE TablesInv'
  BY SMTT(30), <1>4 DEF clock_task_entry_point, Acquire, Release, LoadCount, StoreCount, AwaitAll,
       RegisterTimer, TypeOK, ReadyInv, TablesInv, APs, Locks, InUse, BootSteps,
       SetupSteps, ClockSteps, TrampolineSteps
<1> QED BY <1>1, <1>2, <1>3, <1>4 DEF Next, CpuStep

\* Every step keeps the slots of each processor its own.
LEMMA SlotStep ==
    ASSUME TypeOK, ReadyInv, TablesInv, SlotInv, Next
    PROVE  SlotInv'
<1> USE Basics DEF Goto, boot_vars, slot_vars, sched_vars, clock_vars
<1>1. ASSUME BootStep PROVE SlotInv'
  <2>1. CASE Acquire(BSP, "process_ready", "start", "hold_ready")
    BY <2>1 DEF Acquire, TypeOK, SlotInv, SearchInv, ClaimInv, OwnerInv, MadeInv, Locks,
         InUse, Searching, SetupSteps, ClockSteps, Roles
  <2>2. CASE Acquire(BSP, "ready", "hold_ready", "next")
    BY <2>2 DEF Acquire, TypeOK, SlotInv, SearchInv, ClaimInv, OwnerInv, MadeInv, Locks,
         InUse, Searching, SetupSteps, ClockSteps, Roles
  <2>3. CASE NextAP
    BY <2>3 DEF NextAP, TypeOK, SlotInv, SearchInv, ClaimInv, OwnerInv, MadeInv, Locks,
         InUse, Searching, SetupSteps, ClockSteps, Roles
  <2>4. CASE AllStarted
    BY <2>4 DEF AllStarted, TypeOK, SlotInv, SearchInv, ClaimInv, OwnerInv, MadeInv,
         Locks, InUse, Searching, SetupSteps, ClockSteps, Roles
  <2>5. CASE WriteArgument("ss", "write_ss", "write_stack")
    BY <2>5 DEF WriteArgument, TypeOK, SlotInv, SearchInv, ClaimInv, OwnerInv, MadeInv,
         Locks, InUse, Searching, SetupSteps, ClockSteps, Roles
  <2>6. CASE WriteArgument("stack", "write_stack", "sipi")
    BY <2>6 DEF WriteArgument, TypeOK, SlotInv, SearchInv, ClaimInv, OwnerInv, MadeInv,
         Locks, InUse, Searching, SetupSteps, ClockSteps, Roles
  <2>7. CASE Acquire(BSP, "ready", "await_ap", "next")
    BY <2>7 DEF Acquire, TypeOK, SlotInv, SearchInv, ClaimInv, OwnerInv, MadeInv, Locks,
         InUse, Searching, SetupSteps, ClockSteps, Roles
  <2>8. CASE mailbox_init
    BY <2>8 DEF mailbox_init, TypeOK, SlotInv, SearchInv, ClaimInv, OwnerInv, MadeInv,
         Locks, InUse, Searching, SetupSteps, ClockSteps, Roles
  <2>9. CASE process_create_static
    BY <2>9 DEF process_create_static, TypeOK, SlotInv, SearchInv, ClaimInv, OwnerInv,
         MadeInv, Locks, InUse, Searching, SetupSteps, ClockSteps, Roles
  <2>10. CASE processor_startup
    <3> next_ap \in APs /\ pc[next_ap] = "off"
      BY <2>10 DEF processor_startup, ReadyInv
    <3>1. \A d \in Enabled :
             pc'[d] = pc[d] \/ {pc[d], pc'[d]} \subseteq Steps \ (InUse \cup Searching)
      BY <2>10 DEF processor_startup, APs, TypeOK, Steps, BootSteps, TrampolineSteps, InUse,
           Searching, SetupSteps, ClockSteps
    <3>2. UNCHANGED <<lock, making, scan, used, tcb, slot>>
      BY <2>10 DEF processor_startup, slot_vars
    <3>3. {"ts_mark", "ts_fields", "add_ready", "current_start"} \cup ClockSteps
             \subseteq InUse \cup Searching
      BY DEF InUse, Searching, SetupSteps
    <3>4. SearchInv' /\ ClaimInv'
      BY <3>1, <3>2, <3>3 DEF SlotInv, SearchInv, ClaimInv
    <3>5. OwnerInv' /\ MadeInv'
      BY <3>1, <3>2, <3>3 DEF SlotInv, OwnerInv, MadeInv
    <3> QED BY <3>4, <3>5 DEF SlotInv
  <2>11. CASE process_init
    <3>1. pc[BSP] = "process_init" /\ \A c \in Enabled : pc[c] \notin InUse
      BY <2>11 DEF process_init, Goto, TablesInv, BootSteps
    <3>2. \A c \in Enabled : \A r \in Roles : slot[c][r] = Null
      BY <3>1 DEF SlotInv, MadeInv
    <3>3. /\ pc' = [pc EXCEPT ![BSP] = "mailbox_init"]
          /\ UNCHANGED <<lock, making, scan, tcb, slot>>
      BY <2>11 DEF process_init, Goto
    <3>4. \A c \in Enabled : pc'[c] \notin InUse /\ pc'[c] \notin Searching
      BY <3>1, <3>3 DEF TypeOK, InUse, Searching, SetupSteps, ClockSteps
    <3> QED
      BY <3>1, <3>2, <3>3, <3>4 DEF SlotInv, SearchInv, ClaimInv, OwnerInv, MadeInv, InUse,
           SetupSteps
  <2>12. CASE Release(BSP, "process_ready", "publish", "final_acquire")
    <3> /\ pc[BSP] = "publish" /\ pc' = [pc EXCEPT ![BSP] = "final_acquire"]
        /\ lock' = [lock EXCEPT !["process_ready"] = FALSE]
        /\ UNCHANGED <<making, scan, used, tcb, slot>>
      BY <2>12 DEF Release
    <3> QED
      BY SMTT(30) DEF TypeOK, SlotInv, SearchInv, ClaimInv, OwnerInv, MadeInv, InUse, Searching,
         SetupSteps, ClockSteps
  <2> QED BY <1>1, <2>1, <2>2, <2>3, <2>4, <2>5, <2>6, <2>7, <2>8, <2>9, <2>10, <2>11,
       <2>12 DEF BootStep
<1>2. ASSUME NEW c \in Enabled, c # BSP, TrampolineStep(c) PROVE SlotInv'
  <2>1. CASE ReadStack(c)
    BY SMTT(30), <2>1 DEF ReadStack, TypeOK, SlotInv, SearchInv, ClaimInv, OwnerInv, MadeInv,
         Locks, InUse, Searching, SetupSteps, ClockSteps, Roles
  <2>2. CASE ReadSegment(c)
    BY <2>2 DEF ReadSegment, TypeOK, SlotInv, SearchInv, ClaimInv, OwnerInv, MadeInv,
         Locks, InUse, Searching, SetupSteps, ClockSteps, Roles
  <2>3. CASE Calibrate(c)
    BY SMTT(30), <2>3 DEF Calibrate, TypeOK, SlotInv, SearchInv, ClaimInv, OwnerInv, MadeInv,
         Locks, InUse, Searching, SetupSteps, ClockSteps, Roles
  <2>4. CASE Release(c, "ready", "give_ready", "final_acquire")
    BY SMTT(30), <2>4 DEF Release, TypeOK, SlotInv, SearchInv, ClaimInv, OwnerInv, MadeInv, Locks,
         InUse, Searching, SetupSteps, ClockSteps, Roles
  <2> QED BY <1>2, <2>1, <2>2, <2>3, <2>4 DEF TrampolineStep
<1>3. ASSUME NEW c \in Enabled, final_processor_setup(c) PROVE SlotInv'
  <2>1. CASE Acquire(c, "process_ready", "final_acquire", "final_release")
    BY <2>1 DEF Acquire, TypeOK, SlotInv, SearchInv, ClaimInv, OwnerInv, MadeInv, Locks,
         InUse, Searching, SetupSteps, ClockSteps, Roles
  <2>2. CASE Release(c, "process_ready", "final_release", "setup_cpu")
    BY <2>2 DEF Release, TypeOK, SlotInv, SearchInv, ClaimInv, OwnerInv, MadeInv, Locks,
         InUse, Searching, SetupSteps, ClockSteps, Roles
  <2>3. CASE SetUpCpu(c)
    BY <2>3 DEF SetUpCpu, CreateMailbox, TypeOK, SlotInv, SearchInv, ClaimInv, OwnerInv,
         MadeInv, Locks, InUse, Searching, SetupSteps, ClockSteps, Roles
  <2>4. CASE Acquire(c, "ts_lock", "ts_acquire", "ts_test")
    BY <2>4 DEF Acquire, TypeOK, SlotInv, SearchInv, ClaimInv, OwnerInv, MadeInv, Locks,
         InUse, Searching, SetupSteps, ClockSteps, Roles
  <2>5. CASE SkipSlot(c)
    BY SMTT(30), <2>5 DEF SkipSlot, TypeOK, SlotInv, SearchInv, ClaimInv, OwnerInv, MadeInv,
         Locks, InUse, Searching, SetupSteps, ClockSteps, Roles
  <2>6. CASE FindSlot(c)
    BY <2>6 DEF FindSlot, TypeOK, SlotInv, SearchInv, ClaimInv, OwnerInv, MadeInv,
         Locks, InUse, Searching, SetupSteps, ClockSteps, Roles
  <2>7. CASE MarkSlot(c)
    <3>1. /\ pc[c] = "ts_mark" /\ pc' = [pc EXCEPT ![c] = "ts_fields"]
          /\ used' = [used EXCEPT ![scan[c]] = TRUE]
          /\ lock' = [lock EXCEPT !["ts_lock"] = FALSE]
          /\ UNCHANGED <<making, scan, tcb, slot>>
      BY <2>7 DEF MarkSlot, Goto
    <3>2. ~used[scan[c]] /\ \A d \in Enabled : pc[d] \in Searching => c = d
      BY <3>1 DEF SlotInv, SearchInv, Searching
    <3>3. ASSUME NEW d \in Enabled
          PROVE  /\ pc[d] = "ts_fields" => scan[d] # scan[c]
                 /\ \A r \in Roles : slot[d][r] # scan[c]
      <4>1. scan[c] # Null
        BY DEF TypeOK
      <4> QED BY <3>2, <4>1 DEF SlotInv, ClaimInv, OwnerInv
    <3>4. SearchInv'
      BY <3>1, <3>2 DEF TypeOK, SlotInv, SearchInv, Searching
    <3>5. ClaimInv'
      BY <3>1, <3>3 DEF TypeOK, SlotInv, ClaimInv
    <3>6. OwnerInv'
      BY <3>1 DEF TypeOK, SlotInv, OwnerInv
    <3>7. MadeInv'
      BY <3>1 DEF TypeOK, SlotInv, MadeInv, InUse, SetupSteps, ClockSteps
    <3> QED BY <3>4, <3>5, <3>6, <3>7 DEF SlotInv
  <2>8. CASE FillSlot(c)
    <3> DEFINE new == [cpu |-> c, role |-> making[c]]
    <3>1. /\ pc[c] = "ts_fields"
          /\ pc' = [pc EXCEPT ![c] =
                       IF making[c] = "clock" THEN "ts_acquire" ELSE "add_ready"]
          /\ tcb' = [tcb EXCEPT ![scan[c]] = new]
          /\ slot' = [slot EXCEPT ![c][making[c]] = scan[c]]
          /\ scan' = [scan EXCEPT ![c] = 0]
          /\ making' = [making EXCEPT ![c] = "idle"]
          /\ UNCHANGED <<lock, used>>
      BY <2>8 DEF FillSlot, Goto
    <3>2. /\ used[scan[c]] /\ scan[c] \in Slots /\ making[c] \in {"clock", "idle"}
          /\ \A d \in Enabled :
                /\ \A r \in Roles : slot[d][r] # scan[c]
                /\ pc[d] = "ts_fields" /\ scan[d] = scan[c] => c = d
      BY <3>1 DEF SlotInv, ClaimInv, TypeOK, Roles
    <3>3. slot \in [Enabled -> [Roles -> Slots \cup {Null}]] /\ making[c] \in Roles
      BY DEF TypeOK
    <3>4. \A d \in Enabled : \A r \in Roles :
             slot'[d][r] = IF d = c /\ r = making[c] THEN scan[c] ELSE slot[d][r]
      BY <3>1, <3>3
    <3>5. SearchInv'
      BY <3>1 DEF TypeOK, SlotInv, SearchInv, Searching
    <3>6. ClaimInv'
      BY <3>1, <3>2, <3>4 DEF TypeOK, SlotInv, ClaimInv
    <3>7. ASSUME NEW d \in Enabled, NEW r \in Roles, slot'[d][r] # Null
          PROVE  used'[slot'[d][r]] /\ tcb'[slot'[d][r]] = [cpu |-> d, role |-> r]
      <4>1. CASE d = c /\ r = making[c]
        <5>1. slot'[d][r] = scan[c] /\ tcb'[scan[c]] = new /\ new = [cpu |-> d, role |-> r]
          BY <3>1, <3>2, <3>4, <4>1 DEF TypeOK
        <5> QED BY <3>1, <3>2, <5>1
      <4>2. CASE ~(d = c /\ r = making[c])
        <5>1. slot'[d][r] = slot[d][r] /\ slot[d][r] # Null
          BY <3>4, <3>7, <4>2
        <5> slot[d][r] # scan[c]
          BY <3>2
        <5> slot[d][r] \in Slots
          BY ZenonT(30), <3>3, <5>1
        <5>2. tcb'[slot[d][r]] = tcb[slot[d][r]]
          BY <3>1, <5>1 DEF TypeOK
        <5> QED BY <3>1, <3>7, <5>1, <5>2 DEF SlotInv, OwnerInv
      <4> QED BY <4>1, <4>2
    <3>8. OwnerInv'
      BY <3>7 DEF OwnerInv
    <3>9. MadeInv'
      BY <3>1, <3>2, <3>4 DEF TypeOK, SlotInv, MadeInv, InUse, SetupSteps, ClockSteps, Roles
    <3> QED BY <3>5, <3>6, <3>8, <3>9 DEF SlotInv
  <2>9. CASE AddThreads(c)
    <3> /\ pc[c] = "add_ready" /\ pc' = [pc EXCEPT ![c] = "current_start"]
        /\ UNCHANGED <<lock, making, scan, used, tcb, slot>>
      BY <2>9 DEF AddThreads, Goto, slot_vars
    <3> QED
      BY SMTT(30) DEF TypeOK, SlotInv, SearchInv, ClaimInv, OwnerInv, MadeInv, InUse, Searching,
         SetupSteps, ClockSteps
  <2>10. CASE scheduler_current_start(c)
    <3> /\ pc[c] = "current_start" /\ pc' = [pc EXCEPT ![c] = "print_acquire"]
        /\ UNCHANGED <<lock, making, scan, used, tcb, slot>>
      BY <2>10 DEF scheduler_current_start, Goto, slot_vars
    <3> QED
      BY SMTT(30) DEF TypeOK, SlotInv, SearchInv, ClaimInv, OwnerInv, MadeInv, InUse, Searching,
         SetupSteps, ClockSteps
  <2> QED BY <1>3, <2>1, <2>2, <2>3, <2>4, <2>5, <2>6, <2>7, <2>8, <2>9, <2>10 DEF
       final_processor_setup, thread_create
<1>4. ASSUME NEW c \in Enabled, clock_task_entry_point(c) PROVE SlotInv'
  <2>1. CASE Acquire(c, "print", "print_acquire", "print_release")
    BY <2>1 DEF Acquire, TypeOK, SlotInv, SearchInv, ClaimInv, OwnerInv, MadeInv, Locks,
         InUse, Searching, SetupSteps, ClockSteps, Roles
  <2>2. CASE Release(c, "print", "print_release", "count_load")
    BY <2>2 DEF Release, TypeOK, SlotInv, SearchInv, ClaimInv, OwnerInv, MadeInv, Locks,
         InUse, Searching, SetupSteps, ClockSteps, Roles
  <2>3. CASE LoadCount(c)
    BY <2>3 DEF LoadCount, TypeOK, SlotInv, SearchInv, ClaimInv, OwnerInv, MadeInv,
         Locks, InUse, Searching, SetupSteps, ClockSteps, Roles
  <2>4. CASE StoreCount(c)
    BY <2>4 DEF StoreCount, TypeOK, SlotInv, SearchInv, ClaimInv, OwnerInv, MadeInv,
         Locks, InUse, Searching, SetupSteps, ClockSteps, Roles
  <2>5. CASE c = BSP /\ AwaitAll
    BY <2>5 DEF AwaitAll, TypeOK, SlotInv, SearchInv, ClaimInv, OwnerInv, MadeInv,
         Locks, InUse, Searching, SetupSteps, ClockSteps, Roles
  <2>6. CASE c = BSP /\ RegisterTimer
    BY <2>6 DEF RegisterTimer, TypeOK, SlotInv, SearchInv, ClaimInv, OwnerInv, MadeInv,
         Locks, InUse, Searching, SetupSteps, ClockSteps, Roles
  <2>7. CASE Acquire(c, "print", "loop", "loop_release")
    BY <2>7 DEF Acquire, TypeOK, SlotInv, SearchInv, ClaimInv, OwnerInv, MadeInv, Locks,
         InUse, Searching, SetupSteps, ClockSteps, Roles
  <2>8. CASE Release(c, "print", "loop_release", "loop")
    BY <2>8 DEF Release, TypeOK, SlotInv, SearchInv, ClaimInv, OwnerInv, MadeInv, Locks,
         InUse, Searching, SetupSteps, ClockSteps, Roles
  <2> QED BY <1>4, <2>1, <2>2, <2>3, <2>4, <2>5, <2>6, <2>7, <2>8 DEF
       clock_task_entry_point
<1> QED BY <1>1, <1>2, <1>3, <1>4 DEF Next, CpuStep

\* A slot holds one thread.
LEMMA SlotsAreOwn == OwnerInv => SlotsHaveOneOwner
<1> SUFFICES ASSUME OwnerInv, NEW c \in Enabled, NEW d \in Enabled,
                    NEW r \in Roles, NEW q \in Roles,
                    slot[c][r] # Null, slot[c][r] = slot[d][q]
             PROVE  c = d /\ r = q
  BY DEF SlotsHaveOneOwner
<1> [cpu |-> c, role |-> r] = [cpu |-> d, role |-> q]
  BY DEF OwnerInv
<1> [cpu |-> c, role |-> r].cpu = [cpu |-> d, role |-> q].cpu
    /\ [cpu |-> c, role |-> r].role = [cpu |-> d, role |-> q].role
  OBVIOUS
<1> QED OBVIOUS

\* Every step keeps what the processors have set up.
LEMMA SetupStep ==
    ASSUME TypeOK, TablesInv, SlotInv, SetupInv, Next
    PROVE  SetupInv'
<1> USE Basics DEF Goto, boot_vars, slot_vars, sched_vars, clock_vars
<1>1. ASSUME BootStep PROVE SetupInv'
  <2>1. CASE Acquire(BSP, "process_ready", "start", "hold_ready")
    BY <2>1 DEF Acquire, TypeOK, SetupInv, SetupOf, AfterSetup, Building, IdleReady, BothReady,
         BootSteps, SetupSteps, ClockSteps
  <2>2. CASE Acquire(BSP, "ready", "hold_ready", "next")
    BY <2>2 DEF Acquire, TypeOK, SetupInv, SetupOf, AfterSetup, Building, IdleReady, BothReady,
         BootSteps, SetupSteps, ClockSteps
  <2>3. CASE NextAP
    BY <2>3 DEF NextAP, TypeOK, SetupInv, SetupOf, AfterSetup, Building, IdleReady, BothReady,
         BootSteps, SetupSteps, ClockSteps
  <2>4. CASE AllStarted
    BY <2>4 DEF AllStarted, TypeOK, SetupInv, SetupOf, AfterSetup, Building, IdleReady,
         BothReady, BootSteps, SetupSteps, ClockSteps
  <2>5. CASE WriteArgument("ss", "write_ss", "write_stack")
    BY <2>5 DEF WriteArgument, TypeOK, SetupInv, SetupOf, AfterSetup, Building, IdleReady,
         BothReady, BootSteps, SetupSteps, ClockSteps
  <2>6. CASE WriteArgument("stack", "write_stack", "sipi")
    BY <2>6 DEF WriteArgument, TypeOK, SetupInv, SetupOf, AfterSetup, Building, IdleReady,
         BothReady, BootSteps, SetupSteps, ClockSteps
  <2>7. CASE processor_startup
    BY <2>7 DEF processor_startup, TypeOK, SetupInv, SetupOf, AfterSetup, Building, IdleReady,
         BothReady, BootSteps, SetupSteps, ClockSteps
  <2>8. CASE Acquire(BSP, "ready", "await_ap", "next")
    BY <2>8 DEF Acquire, TypeOK, SetupInv, SetupOf, AfterSetup, Building, IdleReady, BothReady,
         BootSteps, SetupSteps, ClockSteps
  <2>9. CASE process_init
    BY <2>9 DEF process_init, TypeOK, SetupInv, SetupOf, AfterSetup, Building, IdleReady,
         BothReady, BootSteps, SetupSteps, ClockSteps
  <2>10. CASE Release(BSP, "process_ready", "publish", "final_acquire")
    BY <2>10 DEF Release, TypeOK, SetupInv, SetupOf, AfterSetup, Building, IdleReady, BothReady,
         BootSteps, SetupSteps, ClockSteps
  <2>11. CASE mailbox_init
    <3>1. pc[BSP] = "mailbox_init" /\ \A c \in Enabled : pc[c] \notin InUse
      BY <2>11 DEF mailbox_init, Goto, TablesInv, BootSteps
    <3>2. /\ pc' = [pc EXCEPT ![BSP] = "process_create"]
          /\ mailbox' = [m \in MailboxIds |-> Null]
      BY <2>11 DEF mailbox_init, Goto
    <3>3. \A c \in Enabled :
             pc'[c] \notin AfterSetup \cup Building /\ mailbox'[c] = Null
      BY <3>1, <3>2 DEF TypeOK, InUse, AfterSetup, Building, SetupSteps, ClockSteps
    <3> QED
      BY <3>3 DEF SetupInv, SetupOf, AfterSetup, Building, SetupSteps
  <2>12. CASE process_create_static
    <3> /\ pc[BSP] = "process_create" /\ pc' = [pc EXCEPT ![BSP] = "publish"]
        /\ UNCHANGED <<slot, mailbox, current_thread, ready>>
      BY <2>12 DEF process_create_static, Goto, slot_vars, sched_vars
    <3> QED
      BY DEF TypeOK, SetupInv, SetupOf, AfterSetup, Building, IdleReady, BothReady, BootSteps,
         SetupSteps, ClockSteps
  <2> QED BY <1>1, <2>1, <2>2, <2>3, <2>4, <2>5, <2>6, <2>7, <2>8, <2>9, <2>10, <2>11,
       <2>12 DEF BootStep
<1>2. ASSUME NEW c \in Enabled, c # BSP, TrampolineStep(c) PROVE SetupInv'
  <2>1. CASE ReadStack(c)
    BY <2>1 DEF ReadStack, TypeOK, SetupInv, SetupOf, AfterSetup, Building, IdleReady, BothReady,
         BootSteps, SetupSteps, ClockSteps
  <2>2. CASE ReadSegment(c)
    BY <2>2 DEF ReadSegment, TypeOK, SetupInv, SetupOf, AfterSetup, Building, IdleReady,
         BothReady, BootSteps, SetupSteps, ClockSteps
  <2>3. CASE Calibrate(c)
    BY <2>3 DEF Calibrate, TypeOK, SetupInv, SetupOf, AfterSetup, Building, IdleReady, BothReady,
         BootSteps, SetupSteps, ClockSteps
  <2>4. CASE Release(c, "ready", "give_ready", "final_acquire")
    BY <2>4 DEF Release, TypeOK, SetupInv, SetupOf, AfterSetup, Building, IdleReady, BothReady,
         BootSteps, SetupSteps, ClockSteps
  <2> QED BY <1>2, <2>1, <2>2, <2>3, <2>4 DEF TrampolineStep
<1>3. ASSUME NEW c \in Enabled, final_processor_setup(c) PROVE SetupInv'
  <2>1. CASE Acquire(c, "process_ready", "final_acquire", "final_release")
    BY <2>1 DEF Acquire, TypeOK, SetupInv, SetupOf, AfterSetup, Building, IdleReady, BothReady,
         BootSteps, SetupSteps, ClockSteps
  <2>2. CASE Release(c, "process_ready", "final_release", "setup_cpu")
    BY <2>2 DEF Release, TypeOK, SetupInv, SetupOf, AfterSetup, Building, IdleReady, BothReady,
         BootSteps, SetupSteps, ClockSteps
  <2>3. CASE Acquire(c, "ts_lock", "ts_acquire", "ts_test")
    BY <2>3 DEF Acquire, TypeOK, SetupInv, SetupOf, AfterSetup, Building, IdleReady, BothReady,
         BootSteps, SetupSteps, ClockSteps
  <2>4. CASE SkipSlot(c)
    BY <2>4 DEF SkipSlot, TypeOK, SetupInv, SetupOf, AfterSetup, Building, IdleReady, BothReady,
         BootSteps, SetupSteps, ClockSteps
  <2>5. CASE FindSlot(c)
    BY <2>5 DEF FindSlot, TypeOK, SetupInv, SetupOf, AfterSetup, Building, IdleReady, BothReady,
         BootSteps, SetupSteps, ClockSteps
  <2>6. CASE MarkSlot(c)
    BY <2>6 DEF MarkSlot, TypeOK, SetupInv, SetupOf, AfterSetup, Building, IdleReady, BothReady,
         BootSteps, SetupSteps, ClockSteps
  <2>7. CASE SetUpCpu(c)
    <3>1. /\ pc[c] = "setup_cpu" /\ pc' = [pc EXCEPT ![c] = "ts_acquire"]
          /\ CreateMailbox(c, c)
          /\ ready' = [ready EXCEPT ![c] = NoneReady]
          /\ current_thread' = [current_thread EXCEPT ![c] = Null]
          /\ slot' = slot
      BY <2>7 DEF SetUpCpu, Goto, slot_vars, NoneReady
    <3>2. pc[BSP] \notin BootSteps /\ pc'[BSP] \notin BootSteps
      BY <3>1 DEF TablesInv, TypeOK, InUse, SetupSteps, BootSteps
    <3>3. mailbox[c] = Null
      BY <3>1, <3>2 DEF SetupInv, SetupOf, AfterSetup, ClockSteps
    <3>4. mailbox' = [mailbox EXCEPT ![c] = c]
      BY <3>1, <3>3 DEF CreateMailbox
    <3> QED
      BY <3>1, <3>2, <3>4 DEF TypeOK, SetupInv, SetupOf, AfterSetup, Building, IdleReady, BothReady,
           SetupSteps, ClockSteps
  <2>8. CASE FillSlot(c)
    <3>1. /\ pc[c] = "ts_fields"
          /\ pc' = [pc EXCEPT ![c] =
                       IF making[c] = "clock" THEN "ts_acquire" ELSE "add_ready"]
          /\ slot' = [slot EXCEPT ![c][making[c]] = scan[c]]
          /\ UNCHANGED <<mailbox, current_thread, ready>>
      BY <2>8 DEF FillSlot, Goto, sched_vars
    <3>2. \A d \in Enabled \ {c} : slot'[d] = slot[d] /\ pc'[d] = pc[d]
      BY <3>1 DEF TypeOK
    <3>3. \A d \in Enabled \ {c} : BothReady(d)' = BothReady(d) /\ IdleReady(d)' = IdleReady(d)
      BY <3>2 DEF BothReady, IdleReady
    <3>4. pc'[c] \in {"ts_acquire", "add_ready"} /\ pc'[c] \notin BootSteps
      BY <3>1 DEF TypeOK, BootSteps
    <3>5. pc'[BSP] \in BootSteps <=> pc[BSP] \in BootSteps
      BY <3>1, <3>2, <3>4 DEF BootSteps
    <3>6. pc'[BSP] \notin BootSteps \/ pc'[BSP] = pc[BSP]
      BY <3>2, <3>4
    <3>7. ASSUME NEW d \in Enabled \ {c} PROVE SetupOf(d)'
      <4>1. SetupOf(d) /\ pc'[d] = pc[d] /\ slot'[d] = slot[d]
        BY <3>2 DEF SetupInv
      <4>2. mailbox' = mailbox /\ current_thread' = current_thread /\ ready' = ready
        BY <3>1
      <4>3. BothReady(d)' = BothReady(d) /\ IdleReady(d)' = IdleReady(d)
        BY <3>3
      <4>4. (pc'[BSP] \in {"process_create", "publish"} \/ pc'[BSP] \notin BootSteps) =>
            (pc[BSP] \in {"process_create", "publish"} \/ pc[BSP] \notin BootSteps)
        BY <3>5, <3>6
      <4>5. /\ (pc[d] \in AfterSetup => mailbox[d] = d)'
            /\ (pc[d] \notin AfterSetup
                  /\ (pc[BSP] \in {"process_create", "publish"} \/ pc[BSP] \notin BootSteps) =>
                     mailbox[d] = Null)'
        BY <4>1, <4>2, <4>4 DEF SetupOf
      <4>6. /\ (pc[d] \in (Building \ {"setup_cpu"}) \cup {"add_ready"} => ready[d] = NoneReady)'
            /\ (pc[d] = "current_start" => ready[d] = BothReady(d))'
        BY <4>1, <4>2, <4>3 DEF SetupOf
      <4>7. (pc[d] \in ClockSteps =>
               current_thread[d] = slot[d]["clock"] /\ ready[d] = IdleReady(d))'
        BY <4>1, <4>2, <4>3 DEF SetupOf
      <4> QED BY <4>5, <4>6, <4>7 DEF SetupOf
    <3>8. SetupOf(c)'
      BY <3>1, <3>4, <3>6 DEF SetupInv, SetupOf, AfterSetup, Building, SetupSteps, ClockSteps
    <3> QED BY <3>7, <3>8 DEF SetupInv
  <2>9. CASE AddThreads(c)
    <3>1. /\ pc[c] = "add_ready" /\ pc' = [pc EXCEPT ![c] = "current_start"]
          /\ CreateMailbox(processor_count + c, slot[c]["clock"])
          /\ UNCHANGED <<slot, current_thread>>
      BY <2>9 DEF AddThreads, Goto, slot_vars
    <3>2. ready' = [ready EXCEPT ![c] = BothReady(c)]
      BY <2>9, AddThreadsEffect
    <3>3. \A d \in Enabled : mailbox'[d] = mailbox[d]
      BY <3>1 DEF CreateMailbox, TypeOK
    <3>4. /\ pc'[c] = "current_start" /\ ready'[c] = BothReady(c)
          /\ \A d \in Enabled \ {c} : pc'[d] = pc[d] /\ ready'[d] = ready[d]
      BY <3>1, <3>2 DEF TypeOK
    <3>5. \A d \in Enabled : BothReady(d)' = BothReady(d) /\ IdleReady(d)' = IdleReady(d)
      BY <3>1 DEF BothReady, IdleReady
    <3> QED
      BY <3>1, <3>3, <3>4, <3>5
         DEF SetupInv, SetupOf, AfterSetup, Building, BootSteps, SetupSteps, ClockSteps
  <2>10. CASE scheduler_current_start(c)
    <3>1. /\ pc[c] = "current_start" /\ pc' = [pc EXCEPT ![c] = "print_acquire"]
          /\ UNCHANGED <<slot, mailbox>>
      BY <2>10 DEF scheduler_current_start, Goto, slot_vars
    <3>2. /\ current_thread' = [current_thread EXCEPT ![c] = slot[c]["clock"]]
          /\ ready' = [ready EXCEPT ![c] = IdleReady(c)]
      BY <2>10, CurrentStartEffect
    <3> QED
      BY <3>1, <3>2 DEF TypeOK, SetupInv, SetupOf, AfterSetup, Building, IdleReady, BothReady,
           BootSteps, SetupSteps, ClockSteps
  <2> QED BY <1>3, <2>1, <2>2, <2>3, <2>4, <2>5, <2>6, <2>7, <2>8, <2>9, <2>10 DEF
       final_processor_setup, thread_create
<1>4. ASSUME NEW c \in Enabled, clock_task_entry_point(c) PROVE SetupInv'
  <2>1. CASE Acquire(c, "print", "print_acquire", "print_release")
    BY <2>1 DEF Acquire, TypeOK, SetupInv, SetupOf, AfterSetup, Building, IdleReady, BothReady,
         BootSteps, SetupSteps, ClockSteps
  <2>2. CASE Release(c, "print", "print_release", "count_load")
    BY <2>2 DEF Release, TypeOK, SetupInv, SetupOf, AfterSetup, Building, IdleReady, BothReady,
         BootSteps, SetupSteps, ClockSteps
  <2>3. CASE LoadCount(c)
    BY <2>3 DEF LoadCount, TypeOK, SetupInv, SetupOf, AfterSetup, Building, IdleReady, BothReady,
         BootSteps, SetupSteps, ClockSteps
  <2>4. CASE StoreCount(c)
    BY <2>4 DEF StoreCount, TypeOK, SetupInv, SetupOf, AfterSetup, Building, IdleReady,
         BothReady, BootSteps, SetupSteps, ClockSteps
  <2>5. CASE c = BSP /\ AwaitAll
    BY <2>5 DEF AwaitAll, TypeOK, SetupInv, SetupOf, AfterSetup, Building, IdleReady, BothReady,
         BootSteps, SetupSteps, ClockSteps
  <2>6. CASE c = BSP /\ RegisterTimer
    BY <2>6 DEF RegisterTimer, TypeOK, SetupInv, SetupOf, AfterSetup, Building, IdleReady,
         BothReady, BootSteps, SetupSteps, ClockSteps
  <2>7. CASE Acquire(c, "print", "loop", "loop_release")
    BY <2>7 DEF Acquire, TypeOK, SetupInv, SetupOf, AfterSetup, Building, IdleReady, BothReady,
         BootSteps, SetupSteps, ClockSteps
  <2>8. CASE Release(c, "print", "loop_release", "loop")
    BY <2>8 DEF Release, TypeOK, SetupInv, SetupOf, AfterSetup, Building, IdleReady, BothReady,
         BootSteps, SetupSteps, ClockSteps
  <2> QED BY <1>4, <2>1, <2>2, <2>3, <2>4, <2>5, <2>6, <2>7, <2>8 DEF
       clock_task_entry_point
<1> QED BY <1>1, <1>2, <1>3, <1>4 DEF Next, CpuStep

\* A step that neither counts a processor nor reads the count.
LEMMA NotCounting ==
    ASSUME TypeOK, CountInv, UNCHANGED clk_entered,
           timer_isr' = timer_isr \/ timer_isr' = "count",
           \A c \in Enabled :
              \/ pc'[c] = pc[c] /\ register'[c] = register[c]
              \/ /\ pc[c] \in CountedSteps <=> pc'[c] \in CountedSteps
                 /\ pc'[c] \notin {"count_store", "register"}
    PROVE  CountInv'
<1>1. Counted' = Counted
  BY DEF Counted
<1>2. pc'[BSP] = "register" => pc[BSP] = "register"
  BY Basics
<1> QED BY <1>1, <1>2 DEF CountInv

\* Every step keeps the count behind the processors that were counted.
LEMMA CountStep ==
    ASSUME TypeOK, ReadyInv, CountInv, Next
    PROVE  CountInv'
<1> USE Basics
<1>1. ASSUME BootStep PROVE CountInv'
  <2>1. UNCHANGED <<clk_entered, register, timer_isr>>
    BY <1>1 DEF BootStep, Acquire, Release, NextAP, AllStarted, WriteArgument,
         processor_startup, process_init, mailbox_init, process_create_static, clock_vars
  <2>2. CASE processor_startup
    <3>1. pc[BSP] = "sipi" /\ next_ap \in APs /\ pc[next_ap] = "off"
          /\ pc' = [pc EXCEPT ![BSP] = "await_ap", ![next_ap] = "read_stack"]
      BY <2>2 DEF processor_startup, ReadyInv
    <3>2. \A c \in Enabled :
             \/ pc'[c] = pc[c]
             \/ pc[c] \in {"sipi", "off"} /\ pc'[c] \in {"await_ap", "read_stack"}
      BY <3>1 DEF TypeOK, APs
    <3> QED BY <2>1, <3>2, NotCounting DEF CountedSteps
  <2>3. CASE ~processor_startup
    <3>1. \E from \in BootSteps, to \in BootSteps \cup {"final_acquire"} : Goto(BSP, from, to)
      BY <1>1, <2>3 DEF BootStep, Acquire, Release, NextAP, AllStarted, WriteArgument,
           process_init, mailbox_init, process_create_static, BootSteps
    <3>2. pc[BSP] \in BootSteps /\ pc'[BSP] \in BootSteps \cup {"final_acquire"}
          /\ \A c \in Enabled \ {BSP} : pc'[c] = pc[c]
      BY <3>1 DEF Goto, TypeOK
    <3> QED BY <2>1, <3>2, NotCounting DEF CountedSteps, BootSteps
  <2> QED BY <2>2, <2>3
<1>2. ASSUME NEW c \in Enabled, c # BSP, TrampolineStep(c) PROVE CountInv'
  <2>1. UNCHANGED <<clk_entered, register>> /\ timer_isr' \in {timer_isr, "count"}
    BY <1>2 DEF TrampolineStep, ReadStack, ReadSegment, Calibrate, Release, clock_vars
  <2>2. \E from \in TrampolineSteps, to \in TrampolineSteps \cup {"final_acquire"} :
           Goto(c, from, to)
    BY <1>2 DEF TrampolineStep, ReadStack, ReadSegment, Calibrate, Release, TrampolineSteps
  <2>3. pc[c] \in TrampolineSteps /\ pc'[c] \in TrampolineSteps \cup {"final_acquire"}
        /\ \A d \in Enabled \ {c} : pc'[d] = pc[d]
    BY <2>2 DEF Goto, TypeOK
  <2> QED BY <2>1, <2>3, NotCounting DEF CountedSteps, TrampolineSteps
<1>3. ASSUME NEW c \in Enabled, final_processor_setup(c) PROVE CountInv'
  <2> DEFINE S == {"final_acquire", "final_release"} \cup SetupSteps
  <2>1. UNCHANGED <<clk_entered, register, timer_isr>>
    BY <1>3 DEF final_processor_setup, thread_create, Acquire, Release, SetUpCpu, SkipSlot,
         FindSlot, MarkSlot, FillSlot, AddThreads, scheduler_current_start, clock_vars
  <2>2. \E from \in S, to \in S \cup {"print_acquire"} : Goto(c, from, to)
    BY <1>3 DEF final_processor_setup, thread_create, Acquire, Release, SetUpCpu, SkipSlot,
         FindSlot, MarkSlot, FillSlot, AddThreads, scheduler_current_start, SetupSteps
  <2>3. pc[c] \in S /\ pc'[c] \in S \cup {"print_acquire"}
        /\ \A d \in Enabled \ {c} : pc'[d] = pc[d]
    BY <2>2 DEF Goto, TypeOK
  <2> QED BY <2>1, <2>3, NotCounting DEF CountedSteps, SetupSteps
<1>4. ASSUME NEW c \in Enabled, clock_task_entry_point(c) PROVE CountInv'
  <2>1. CASE LoadCount(c)
    <3>1. /\ pc[c] = "count_load" /\ pc' = [pc EXCEPT ![c] = "count_store"]
          /\ register' = [register EXCEPT ![c] = clk_entered]
          /\ UNCHANGED <<clk_entered, timer_isr>>
      BY <2>1 DEF LoadCount, Goto
    <3>2. Counted' = Counted
      BY <3>1 DEF TypeOK, Counted, CountedSteps
    <3> QED BY <3>1, <3>2 DEF TypeOK, CountInv
  <2>2. CASE StoreCount(c)
    <3>1. /\ pc[c] = "count_store"
          /\ pc' = [pc EXCEPT ![c] = IF c = BSP THEN "await_all" ELSE "loop"]
          /\ clk_entered' = register[c] + 1
          /\ UNCHANGED <<register, timer_isr>>
      BY <2>2 DEF StoreCount, Goto
    <3>2. c \in Enabled \ Counted /\ Counted' = Counted \cup {c}
      BY <3>1 DEF TypeOK, Counted, CountedSteps
    <3>3. Cardinality(Counted') = Cardinality(Counted) + 1 /\ Cardinality(Counted) \in Nat
      BY <3>2, CountedFacts
    <3>4. /\ \A d \in Enabled : register[d] \in Int
          /\ \A d \in Enabled : pc'[d] = "count_store" => pc[d] = "count_store"
          /\ pc'[BSP] = "register" => pc[BSP] = "register"
      BY <3>1 DEF TypeOK
    <3>5. /\ \A d \in Enabled : pc[d] = "count_store" => register[d] <= Cardinality(Counted)
          /\ pc[BSP] = "register" \/ timer_isr = "preempt" => Counted = Enabled
      BY DEF CountInv
    <3>6. clk_entered' <= Cardinality(Counted')
      BY <3>1, <3>3, <3>4, <3>5
    <3>7. \A d \in Enabled : pc'[d] = "count_store" => register'[d] <= Cardinality(Counted')
      BY <3>1, <3>3, <3>4, <3>5
    <3>8. ~(pc'[BSP] = "register" \/ timer_isr' = "preempt")
      BY <3>1, <3>2, <3>4, <3>5
    <3> QED BY <3>6, <3>7, <3>8 DEF CountInv
  <2>3. CASE c = BSP /\ AwaitAll
    <3>1. /\ pc[BSP] = "await_all" /\ pc' = [pc EXCEPT ![BSP] = "register"]
          /\ clk_entered = processor_count
          /\ UNCHANGED <<clk_entered, register, timer_isr>>
      BY <2>3 DEF AwaitAll, Goto, clock_vars
    <3>2. Counted = Enabled
      BY <3>1, CountedFacts DEF CountInv
    <3>3. Counted' = Counted
      BY <3>1 DEF TypeOK, Counted, CountedSteps
    <3> QED BY <3>1, <3>2, <3>3 DEF TypeOK, CountInv
  <2>4. CASE c = BSP /\ RegisterTimer
    <3>1. /\ pc[BSP] = "register" /\ pc' = [pc EXCEPT ![BSP] = "loop"]
          /\ UNCHANGED <<clk_entered, register>>
      BY <2>4 DEF RegisterTimer, Goto
    <3>2. Counted' = Counted
      BY <3>1 DEF TypeOK, Counted, CountedSteps
    <3> QED BY <3>1, <3>2 DEF TypeOK, CountInv
  <2>5. CASE \/ Acquire(c, "print", "print_acquire", "print_release")
             \/ Release(c, "print", "print_release", "count_load")
             \/ Acquire(c, "print", "loop", "loop_release")
             \/ Release(c, "print", "loop_release", "loop")
    <3>1. UNCHANGED <<clk_entered, register, timer_isr>>
      BY <2>5 DEF Acquire, Release, clock_vars
    <3>2. /\ \A d \in Enabled \ {c} : pc'[d] = pc[d]
          /\ pc[c] \in CountedSteps <=> pc'[c] \in CountedSteps
          /\ pc'[c] \notin {"count_store", "register"}
      BY <2>5 DEF Acquire, Release, Goto, TypeOK, CountedSteps
    <3> QED BY <3>1, <3>2, NotCounting
  <2> QED
    BY <1>4, <2>1, <2>2, <2>3, <2>4, <2>5 DEF clock_task_entry_point
<1> QED BY <1>1, <1>2, <1>3, <1>4 DEF Next, CpuStep

LEMMA FirstOfBootReady ==
    ASSUME NEW c
    PROVE  /\ Core!FirstNonEmpty(BootReady(c)) = 0
           /\ BootReady(c)[0] = <<<<c, "clock">>>>
           /\ [BootReady(c) EXCEPT ![0] = <<>>]
                = [p \in Priorities |-> IF p = 5 THEN <<<<c, "idle">>>> ELSE <<>>]
<1>1. /\ priority["clock"] = 0 /\ priority["idle"] = 5
      /\ 0 \in Priorities /\ \A p \in Priorities : p \in Nat
      /\ Core!Priorities = Priorities
  BY DEF priority, Roles, Priorities, Core!Priorities
<1>2. BootReady(c)[0] = <<<<c, "clock">>>> /\ BootReady(c)[0] # <<>>
  BY <1>1 DEF BootReady
<1>3. \A p \in Priorities :
         BootReady(c)[p] # <<>> /\ (\A r \in Priorities : r < p => BootReady(c)[r] = <<>>)
            <=> p = 0
  <2>1. \A p \in Priorities : p = 0 \/ 0 < p
    BY <1>1
  <2>2. \A p \in Priorities : p < 0 => FALSE
    BY <1>1
  <2> QED BY <1>1, <1>2, <2>1, <2>2
<1>4. Core!FirstNonEmpty(BootReady(c)) = 0
  BY <1>1, <1>3 DEF Core!FirstNonEmpty
<1>5. [BootReady(c) EXCEPT ![0] = <<>>]
        = [p \in Priorities |-> IF p = 5 THEN <<<<c, "idle">>>> ELSE <<>>]
  <2>1. BootReady(c) = [p \in Priorities |-> IF p = 0 THEN <<<<c, "clock">>>>
                          ELSE IF p = 5 THEN <<<<c, "idle">>>> ELSE <<>>]
    BY <1>1 DEF BootReady
  <2> QED BY <1>1, <2>1
<1> QED BY <1>2, <1>4, <1>5

\* When the timer begins to preempt, every processor has been counted, and so has
\* set up what KernelCore starts from.
LEMMA CountedAreSetUp == BootInv => HandOver
<1> SUFFICES ASSUME BootInv, timer_isr = "preempt" PROVE Core!Init
  BY DEF HandOver
<1> DEFINE b == [d \in Enabled |-> BootReady(d)]
<1>1. ASSUME NEW c \in Enabled
      PROVE  /\ mailbox[c] = c /\ Named(current_thread[c]) = <<c, "clock">>
             /\ Named(slot[c]["idle"]) = <<c, "idle">> /\ ready[c] = IdleReady(c)
  <2>1. pc[c] \in ClockSteps
    BY DEF BootInv, CountInv, Counted, CountedSteps, ClockSteps
  <2>2. /\ mailbox[c] = c /\ ready[c] = IdleReady(c)
        /\ current_thread[c] = slot[c]["clock"]
        /\ slot[c]["clock"] # Null /\ slot[c]["idle"] # Null
    BY <2>1 DEF BootInv, SetupInv, SetupOf, AfterSetup, SlotInv, MadeInv
  <2>3. tcb[slot[c]["clock"]] = [cpu |-> c, role |-> "clock"]
        /\ tcb[slot[c]["idle"]] = [cpu |-> c, role |-> "idle"]
    BY <2>2 DEF BootInv, SlotInv, OwnerInv, Roles
  <2> QED BY <2>2, <2>3 DEF Named
<1>2. [c \in Enabled |-> Named(current_thread[c])]
        = [c \in Enabled |-> Head(b[c][Core!FirstNonEmpty(b[c])])]
  <2> SUFFICES ASSUME NEW c \in Enabled
               PROVE  Named(current_thread[c]) = Head(b[c][Core!FirstNonEmpty(b[c])])
    OBVIOUS
  <2>1. b[c] = BootReady(c)
    OBVIOUS
  <2>2. BootReady(c)[Core!FirstNonEmpty(BootReady(c))] = <<<<c, "clock">>>>
    BY FirstOfBootReady
  <2> QED BY <1>1, <2>1, <2>2
<1>3. ASSUME NEW c \in Enabled
      PROVE  [p \in Priorities |-> [i \in DOMAIN ready[c][p] |-> Named(ready[c][p][i])]]
               = [b[c] EXCEPT ![Core!FirstNonEmpty(b[c])] = Tail(@)]
  <2> DEFINE k == slot[c]["idle"]
  <2>1. \A p \in Priorities : ready[c][p] = IF p = 5 THEN <<k>> ELSE <<>>
    BY ZenonT(30), <1>1 DEF IdleReady
  <2>2. [i \in DOMAIN <<k>> |-> Named(<<k>>[i])] = <<<<c, "idle">>>>
    BY <1>1
  <2>3. [i \in DOMAIN <<>> |-> Named(<<>>[i])] = <<>>
    OBVIOUS
  <2>4. [p \in Priorities |-> [i \in DOMAIN ready[c][p] |-> Named(ready[c][p][i])]]
          = [p \in Priorities |-> IF p = 5 THEN <<<<c, "idle">>>> ELSE <<>>]
    BY <2>1, <2>2, <2>3
  <2>5. Tail(<<<<c, "clock">>>>) = <<>>
    OBVIOUS
  <2>6. b[c] = BootReady(c)
    OBVIOUS
  <2>7. Core!FirstNonEmpty(b[c]) = 0
    BY <2>6, FirstOfBootReady
  <2>8. [b[c] EXCEPT ![Core!FirstNonEmpty(b[c])] = Tail(@)] = [BootReady(c) EXCEPT ![0] = <<>>]
    <3>1. Tail(BootReady(c)[0]) = <<>>
      BY <2>5, FirstOfBootReady
    <3> HIDE DEF b
    <3> QED BY <2>6, <2>7, <3>1
  <2> QED BY <2>4, <2>8, FirstOfBootReady
<1>4. [c \in Enabled |->
         [p \in Priorities |-> [i \in DOMAIN ready[c][p] |-> Named(ready[c][p][i])]]]
        = [c \in Enabled |-> [b[c] EXCEPT ![Core!FirstNonEmpty(b[c])] = Tail(@)]]
  BY <1>3
<1>5. {c \in Enabled : mailbox[c] = c} = Enabled
  BY <1>1
<1>6. [c \in Enabled |-> BSP] \in [Enabled -> Enabled]
  BY Basics
<1> QED BY <1>2, <1>4, <1>5, <1>6 DEF Core!Init, Core!NoMessage

-----------------------------------------------------------------------------
(* The theorems.                                                           *)

LEMMA BootInvInit == Init => BootInv
<1> SUFFICES ASSUME Init PROVE BootInv
  OBVIOUS
<1> USE Basics
<1>1. pc = [c \in Enabled |-> IF c = BSP THEN "start" ELSE "off"]
  BY DEF Init
<1>2. /\ \A c \in Enabled \ {BSP} : pc[c] = "off"
      /\ pc[BSP] = "start"
  BY <1>1
<1>3. TypeOK
  <2>1. tcb \in [Slots -> [cpu : Enabled, role : Roles] \cup {NoThread}]
    BY DEF Init
  <2>2. mailbox \in [MailboxIds -> Slots \cup Cpus \cup {Null}]
    BY DEF Init
  <2>3. pc \in [Enabled -> Steps]
    BY <1>1 DEF Steps, BootSteps, TrampolineSteps
  <2>4. /\ args \in [{"ss", "stack"} -> Cpus \cup {Null}]
        /\ slot \in [Enabled -> [Roles -> Slots \cup {Null}]]
        /\ ready \in [Enabled -> [Priorities -> Seq(Slots)]]
        /\ making \in [Enabled -> Roles]
    BY DEF Init, Roles
  <2>5. /\ segment \in [Enabled -> Cpus \cup {Null}] /\ stack \in [Enabled -> Cpus \cup {Null}]
        /\ used \in [Slots -> BOOLEAN] /\ lock \in [Locks -> BOOLEAN]
        /\ register \in [Enabled -> 0 .. processor_count]
    BY DEF Init
  <2> QED
    BY <2>1, <2>2, <2>3, <2>4, <2>5 DEF Init, TypeOK
<1>4. OwnArguments
  BY <1>2 DEF Init, OwnArguments
<1>5. ReadyInv
  BY <1>2 DEF Init, ReadyInv, APs, BootSteps, TrampolineSteps, Starting
<1>6. TablesInv
  BY <1>2 DEF TablesInv, BootSteps, InUse, SetupSteps, ClockSteps
<1>7. SlotInv
  BY <1>2 DEF Init, SlotInv, SearchInv, ClaimInv, OwnerInv, MadeInv, Searching, InUse,
     SetupSteps, ClockSteps
<1>8. SetupInv
  BY <1>2 DEF SetupInv, SetupOf, AfterSetup, Building, BootSteps, SetupSteps, ClockSteps
<1>9. CountInv
  BY <1>2, CountedFacts DEF Init, CountInv
<1> QED BY <1>3, <1>4, <1>5, <1>6, <1>7, <1>8, <1>9 DEF BootInv

LEMMA BootInvStep == BootInv /\ [Next]_vars => BootInv'
<1> SUFFICES ASSUME BootInv, [Next]_vars PROVE BootInv'
  OBVIOUS
<1> USE DEF BootInv
<1>1. CASE Next
  BY <1>1, TypeStep, ArgumentsStep, ReadyStep, TablesStep, SlotStep, SetupStep, CountStep
<1>2. CASE UNCHANGED vars
  BY <1>2 DEF vars, boot_vars, slot_vars, sched_vars, clock_vars, TypeOK, OwnArguments,
     ReadyInv, TablesInv, SlotInv, SearchInv, ClaimInv, OwnerInv, MadeInv, SetupInv, SetupOf,
     NoneReady, IdleReady, BothReady, CountInv, Counted
<1> QED BY <1>1, <1>2

LEMMA BootInvAlways == Spec => []BootInv
BY BootInvInit, BootInvStep, PTL DEF Spec

\* The locks, tables and locals of the boot code keep their types, whichever
\* processors are enabled; the count stays within the number of processors.
THEOREM TypeCorrect == Spec => []TypeOK
<1>1. BootInv => TypeOK
  BY DEF BootInv
<1> QED BY <1>1, BootInvAlways, PTL

\* No processor starts with the stack or segment that ap_boot.fasm was to give
\* to another: startup_all_AP changes them only when "ready" was given back.
THEOREM ArgumentsAreOwn == Spec => []OwnArguments
<1>1. BootInv => OwnArguments
  BY DEF BootInv
<1> QED BY <1>1, BootInvAlways, PTL

\* process_ready keeps every processor out of final_processor_setup until
\* kernel_entry has created the tables that it uses.
THEOREM TablesComplete == Spec => []TablesBeforeUse
<1>1. BootInv => TablesBeforeUse
  <2> SUFFICES ASSUME BootInv, NEW c \in Enabled, pc[c] \in InUse
               PROVE  tables = {"threads", "mailboxes", "kernel_process"}
    BY DEF TablesBeforeUse, InUse
  <2> QED BY DEF BootInv, TablesInv
<1> QED BY <1>1, BootInvAlways, PTL

\* thread_create never gives one slot to two threads, however many processors
\* search the table at once.
THEOREM SlotsAreOwned == Spec => []SlotsHaveOneOwner
<1>1. BootInv => SlotsHaveOneOwner
  BY SlotsAreOwn DEF BootInv, SlotInv
<1> QED BY <1>1, BootInvAlways, PTL

\* The processors that begin to be preempted are as KernelCore assumes: on each the
\* clock task runs, the idle thread is ready and the mailbox is empty and free,
\* even though the increments of clk_entered may be lost.
THEOREM ReadyForCore == Spec => []HandOver
BY CountedAreSetUp, BootInvAlways, PTL
=============================================================================
