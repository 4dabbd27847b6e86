# A verification of RadixOS in TLA+

RadixOS is a small 32-bit x86 kernel for several processors: it boots them
through ACPI and the local APIC, gives each one a scheduler with a clock task
and an idle thread, and lets threads synchronise with semaphores and messages.
This directory holds the TLA+ specifications written from its source (`src/kernel`),
the TLC configurations that check them, and proofs for TLAPS.

    tlc -workers 2 -config core_smp.cfg MCKernelCore   # one run; see "Runs"
    tlapm KernelCoreProofs.tla                         # one of eight modules of proofs; see "Theorems"

## 1. Inventory of the system

| component | source | state it keeps | operations |
|---|---|---|---|
| scheduler | `thread_sched.c` | per cpu: `current_thread`, ready lists by priority (0 highest) | add ready, evict, preempt, schedule, execute |
| semaphore | `sync/semaphore.c` | `lock`, `count`, list of waiting threads | init, wait, signal |
| spinlock | `sync/_spinlock.asm` | one bit | acquire, release |
| cpu messages | `ipc/cpu_messages.c` | none (works on the scheduler and a semaphore) | reschedule, block on semaphore, awaken |
| ipc | `ipc/ipc.c` | a mailbox holds one message and a lock (cpu) or two semaphores (thread) | send, receive, acknowledge |
| mailbox slots | `ipc/mailbox.c` | table of mailboxes, `ms_lock` | create, create static, look up |
| local APIC | `lapic.c` | ICR (two registers), pending interrupts | send interrupt, end of interrupt, timer |
| interrupt entry | `idtr.asm`, `idt.c`, `isr.c` | handler table | dispatch with interrupts disabled |
| clock | `clock/clock.c` | system time, `clk_entered` | timer callback, clock task |
| processes, threads | `process/process.c` | slot tables, `ps_lock`, `ts_lock` | create, create static, look up |
| physical memory | `mem_manager_phys.c` | frame bitmap, used count, lock | reserve / free region, allocate, release |
| virtual memory | `mem_manager_virt.c`, `mem_alloc.c` | page directory and tables, cursor `mem_current` | clone, map, unmap, allocate, free, `alloc_perm` |
| boot | `kernel.c`, `processor_startup.c` | locks `ready`, `process_ready`, trampoline arguments | start processors, build threads, start scheduling |
| heap | `heap_manager.c` | list of blocks | allocate (aligned), free, defragment |
| memory areas | `vm_contract.c`, `vm_area.c` | AVL tree of address intervals, on the heap | add, find, remove |
| time | `time.c`, `rtc.c`, `clock/clock.c` | `ktime_t` | read the clock chip, weekday, count ticks |
| platform tables | `acpi.c`, `gst.c`, `gdt.c`, `tss.c`, `ioapic.c`, `pic.c` | tables, on the heap | parsed or written once |
| library | `libk/` | the cursor and the memory of the screen | print, convert numbers, copy and fill memory |
| elf | `elf.c` | none | load segments |

How they interact.  A thread calls `semaphore_wait` or `semaphore_signal`,
which take the semaphore's spinlock.  A wait that finds no unit sends the
message `CM_SEM_WAIT` to the thread's own cpu *with the lock held*; a signal
that finds a waiter takes it off the list, releases the lock, and sends
`CM_AWAKEN_THREAD` to the cpu the waiter is bound to.  Sending takes the
spinlock of the target cpu's mailbox, copies the message and writes two
registers of the local APIC; the target cpu is interrupted, copies the message,
works on its scheduler (for a wait it also appends the thread to the
semaphore's list and releases the semaphore's lock), releases the mailbox's
lock and executes the thread it picked.  The timer interrupt preempts whatever
runs.  Threads never migrate.  A mailbox of a thread is a message between two
semaphores.  Page tables take their frames from the frame allocator and are
reached through a recursive entry of the directory; the platform tables and the
areas of a process take memory from a heap.

What is hard.  Locks are held with preemption enabled.  A lock is handed from a
thread to an interrupt handler.  A thread in transit is known only to a message
in a one-place mailbox.  Ready queues have no lock and rely on every cpu
touching only its own.  The interrupt controller is programmed in two steps.  Page
tables and `mem_current` are changed by all cpus with no lock at all.  Slots are
visible before they are filled in.  All processors print at one cursor.  The clock
chip goes on while it is read.
`PROJECT.json` lists each hazard at its line, with the properties that cover it.

What makes each component correct:

- scheduler: a thread is in one place; the ready thread of the highest priority
  runs; there is always a thread to run; queues are touched by their cpu only.
- semaphore: it refines counting semaphores with first-come first-served
  waiters; no wake-up is lost; its lock has one holder through the hand-over.
- cpu mailboxes: one user at a time; nothing overwritten, merged or left locked.
- thread mailboxes: a one-place channel that loses and repeats nothing, and
  delivers to whoever keeps receiving.
- slot tables: a slot has one owner, and nobody uses it unfinished.
- physical memory: a frame has one owner and comes from memory that may be used;
  the used count follows the bitmap; the lock is released on every path.
- virtual memory: one page table per slot, one frame per page, no stray
  translation, no frame lost, address spaces that share the kernel.
- boot: every enabled processor starts with its own arguments, no table is used
  before it exists, and preemption begins, when all schedulers are ready for it.
- heap: blocks tile it, every object has a block, a refusal is justified.
- memory areas: the tree is a set of intervals that never overlap.
- platform: every processor has its own data and descriptors.
- time: what is read is one instant, and the clock follows the ticks.
- library: messages and clocks do not disturb one another; a text stands for its
  number; a copy changes the bytes asked for and no others.

## 2. Modules

| module | models | instantiates |
|---|---|---|
| `SemaphoreSpec` | what `include/sync/semaphore.h` promises: a wait returns only with a unit of its own, waiters are served in order of arrival, a signal never adds to the count while somebody is parked.  No lock, no scheduler | |
| `KernelCore` | scheduler, semaphores, spinlocks, cpu messages, ICR writes and timer together | `SemaphoreSpec`, as what it implements |
| `ChannelSpec` | what `include/ipc/ipc.h` promises of the mailbox of a thread | |
| `ThreadMail` | the mailbox table, send and receive between threads | `SemaphoreSpec`, for its semaphores; `ChannelSpec`, as what it implements |
| `FrameSpec` | what `include/mem_manager_phys.h` promises: a frame has one owner, and a thread is refused only while no frame that a search can find is free | |
| `PhysMem` | the frame allocator: region calls at boot, then threads of several cpus | `FrameSpec`, as what it implements |
| `AddressSpace` | what `include/mem_manager_virt.h` and `mem_alloc.h` promise: a page has one owner and a frame of its own until it is freed | |
| `VirtMem` | directories and page tables, `alloc_perm` on every cpu | `AddressSpace`, as what it implements |
| `Boot` | the start of all processors, up to the first preemption | `KernelCore`: what boot leaves is what that starts from |
| `Heap` | `heap_manager.c`, as operators on a heap | |
| `AreaSpec` | what `include/vm_contract.h` promises: a set of disjoint intervals | |
| `Areas` | the tree of areas on the kernel heap | extends `Heap`; `AreaSpec`, as what it implements |
| `Platform` | firmware tables, per-processor data, descriptors | extends `Heap` |
| `TimeOfDay` | the clock chip, its reading, and the clock that counts ticks | |
| `ConsoleSpec` | what users of the screen see: messages that run on, a row for each clock | |
| `Console` | `screen.c`, and what processors print at their start and in their clock tasks | `ConsoleSpec`, as what it implements |
| `Library` | numbers and texts, `memset` and `memcpy` of `libk/utility.c` | |
| `MCKernelCore`, `MCBoot`, `MCMachine`, `MCThreadMail`, `MCServices` | instances for TLC | |
| `KernelCoreProofs`, `PhysMemProofs`, `BootProofs`, `ThreadMailProofs`, `VirtMemProofs`, `ConsoleProofs`, `TimeOfDayProofs` | theorems about one module each | |
| `MachineProofs` | the theorems about `VirtMem`, `Console` and `TimeOfDay` for `MCMachine` | extends `MCMachine`, instantiates the modules of those theorems |

`MCMachine` runs `PhysMem`, `VirtMem`, `Console` or `TimeOfDay`, and `MCServices` runs `Areas`,
`Platform` or `Library`: each behaviour chooses one (`part`) and leaves the others where they
begin.  The parts share no state, so every property of one of them
is about the behaviours of its own part.

The chain semaphore to channel: `KernelCore` implements `SemaphoreSpec`,
`ThreadMail` takes every wait and signal from `SemaphoreSpec` and implements
`ChannelSpec`.  The chain of memory: `PhysMem` implements `FrameSpec`; `VirtMem` takes and
returns frames one at a time, as `FrameSpec` allows, and implements `AddressSpace`.  All four
refinements are checked by runs and proved (section 5), as is that of `ConsoleSpec`.

### KernelCore and the code

| variable | code |
|---|---|
| `current_thread`, `ready` | `thread_sched_t`; a ready queue is the sequence its `next` pointers spell |
| `sem_count`, `sem_lock`, `sem_waiting` | `semaphore_t`, the waiting list as a sequence |
| `msg_lock`, `message` | the mailbox of a cpu |
| `icr_high`, `ipi` | the local APIC: destination register; message interrupts sent to a cpu and not yet taken (the set of their senders, so that merging shows) |
| `mode`, `hmsg` | the stage a cpu's handler is in, and the message on its stack |
| `pc`, `op`, `sem`, `out` | where a thread is in its kernel call, which call, on what, and the message on its stack |

Every access to shared memory in `semaphore.c` and `ipc.c` is a step of its own
unless a lock that is held makes it invisible to others: the test of the count
and what follows under the semaphore's lock is one step; acquiring, releasing,
copying the message and each ICR write are separate ones.  `release_spinlock`
is an unlocked `btr`; the only concurrent access is a `lock bts` that finds the
bit set and leaves it set, so release is atomic in effect.

A handler runs with interrupts disabled.  Each touches the queues of its own cpu
and one semaphore whose lock is held on its behalf, so it is split only where
another cpu may go on because of it: at `release_spinlock(&sem->lock)` and at
`acknowledge`.  `scheduler_schedule_thread` and `acknowledge` are one step,
because only the cpu itself reads what the former writes.

Three hardware matters are parameters:

- `IcrPreemptible` - may an interrupt land between the two ICR writes?  Nothing
  in `lapic_send_ipi` prevents it, so TRUE is what the code does.  FALSE is used
  where the consequence (run `core_icr`) would hide every other property.
- `SelfIpiLag` - may a cpu execute on before it takes the interrupt it sent
  itself?  The register write is posted, so the architecture allows it; most
  implementations take it at once, and the runs have FALSE.  With TRUE the thread
  returns from `semaphore_wait` (`semaphore.c:25`) without having been parked, and
  the late message parks whichever thread is running: `WaitersCalledWait` is
  then violated, on one cpu with two workers.
- The pending bit of the message vector is one bit: `Receive` takes every
  message interrupt that is pending on the cpu.

A message with function `CM_NONE` (an interrupt to a mailbox nobody has filled)
has no action.  An interrupt goes to the wrong cpu only when another sender of
the same cpu wrote its own destination over the first one, and that sender had
filled the mailbox of that destination before: `Receive` always finds a message,
if perhaps one that was served already.  `PANIC` in `scheduler_schedule_thread`
halts the cpu and has no step either; `SchedulerFindsThread` shows that it is not
reached.

Which thread calls what, and when, is left open: every non-idle thread may wait
on or signal any semaphore at any time, and threads in `Reschedulers` may send
`CM_RESCHEDULE` to any cpu, theirs included.  Idle threads only loop, as `idle()`.

### PhysMem and the code

| variable | code |
|---|---|
| `bitmap`, `used_blocks`, `lock` | `phys_mem_bitmap`, `phys_mem_used_blocks`, `phys_mem_lock` |
| `booted` | how far `kernel_entry` is with its region calls |
| `pc`, `frame` | where a thread is in `phys_mem_alloc_above_1mb` or `phys_mem_dealloc`, and its local `frame` |
| `held` | the blocks a thread was given and has not released: what its page tables refer to |

A block is a number; addresses are left out.  The test of the free count, which
is made without the lock, the acquisition, the search, the marking and counting
of a block, and the release are steps of their own.  A block's bit and the count
change in one step: under the lock only the count is visible to others, as one
word that is stored once.  A region call is one step: the boot processor runs alone then.

Three widths matter and are constants: the bitmap is initialised in whole bytes
(`Managed`), searched in whole words from the first that begins above the mark
(`Reach`), while the count takes every block.  Bits behind the bitmap start with
any value, as `phys_mem_init` leaves them.  A region call changes blocks up to
the first one that is already as wanted (`Changed`), because the loop moves on
only when it changed a bit.  `phys_mem_alloc_above` is called with 1 MB only.
Threads release only what they hold; that the kernel does so too is
`FrameHasOneUse` of `VirtMem`, whose `virt_mem_free_page` is the caller.

### VirtMem and the code

| variable | code |
|---|---|
| `mem` | physical memory seen as tables: frame to entries (frame, present bit) |
| `free` | the frames the allocator has |
| `cr3`, `spaces` | `BSP_dir`; the directories `virt_mem_create_address_space` returned |
| `started` | `process_ready` was released: all processors call `alloc_perm` |
| `mem_current` | the cursor of `alloc_perm`, as a page number |
| `pc`, `page`, `loaded`, `frame`, `table` | where a processor is in `alloc_perm`, its `temp`, the register of the increment, `phys`, `table_phys` |
| `owned`, `overlapped` | history: the pages each was given; whether two calls were ever in progress at once |

An access to a page table goes through the directory's entry for itself, as in
`mem_manager_virt_aux.c`: `virt_mem_get_page_table` looks up which frame that is.
The memory of a new table holds junk entries until it is cleared.  `virt_mem_init`,
the calls for address spaces and `virt_mem_free_page` are one step each: the boot
processor runs alone then.  In `alloc_perm`, on all processors, every access to
shared memory is a step: reading the cursor, its load and store, the two
allocations, the test of the directory entry, its frame, its present bit, the
clearing of the table and the entry itself.  (That the entry's bits are set one
by one is not kept apart: the frame and the present bit are.)  A processor that finds no frame
halts, with what it has.  `owned` and `overlapped` have no counterpart in the code.
The translation buffer is left out.

`SizeAssumption` says what `kernel_init.c` and the linker provide: present tables at the start,
outside the two entries of the recursive mapping, whose frames are not given out; a kernel
(`KernelPages`) that these tables map and that ends below `FirstPage`, where `alloc_perm`
begins; and no call that begins within the pages of the recursive mapping.  The kernel is
linked above them (0xC0800000), so the last is asked of the pages from `FirstPage` on only.

### ThreadMail and the code

| variable | code |
|---|---|
| `type`, `owner`, `message` | the fields of a mailbox; a message is known by its sender |
| `mailbox` | the field of the thread, what `receive_current` uses |
| `count`, `waiting`, `phase`, `target` | the semaphores `sem_rdy` and `sem_recv`, as `SemaphoreSpec` has them |
| `pc`, `mbox`, `msg` | where a thread is in `mailbox_create(_static)`, `send` or `receive`, about which mailbox, and the message it got |
| `initialised`, `early` | history: mailboxes whose creation is complete; whether one was found before |

The test and the claim of a slot are one step under `ms_lock`; the rest of the
creation follows without it, and `get_mailbox` finds the slot meanwhile.  That is
the hazard of `mailbox.c:36`: the sender then waits on a semaphore that
`semaphore_init` resets under it.  `early` records it, and the properties are
about behaviours without it.  Copying a message is a step of its own between
the two semaphores.  `FillSlot` sets both semaphores to their initial state, which no
action of `SemaphoreSpec` does.  A process task of `process_task.c` is a server.

### Areas, Heap and the code

A heap is `heap_t` with its blocks in the order of their `next` pointers; a block's
size is what lies up to the next one.  `heap_alloc`, `heap_free`, `heap_alloc_a`,
`heap_free_a` and `heap_defrag` return the heap they leave and their answer.  What
a walk merged in vain stays merged.

A tree is a nested record: the pointers of `vm_area_node_t` with `height`, `max` and
the area, and in `at` the node's address on the heap.  A removal that copies a child
over its parent (`vm_contract.c`) keeps the parent's address and frees the child's.
`fault` says that a null pointer was followed.  One operation is one step, since
nothing calls them concurrently.  `other` is one object of another user of the
heap, plain or aligned, so that holes appear between the nodes.

### Platform, TimeOfDay and the code

`Platform` has a step for each stage of `kernel_entry` between the first use of the heap
and the load of the descriptor table, and one for each entry of the MADT.  `gst` is
the global system table, `cpu_data` the per-processor area by index, `gdt` what each
descriptor describes.  A panic is a stage of its own.

`TimeOfDay`: `chip`, `updating` and `format` are the device, whose calendar is the reference
(`NextSecond`, `Weekday`); `stage`, `next`, `new` and `old` are `rtc_read_time`, one step
for each register; `system_time` is what `update_system_time` counts on.
The chip may advance before each read, at most `MaxUpdates` times, and `TimeAssumption` says
that this is within a minute.

### Console, Library and the code

| variable | code |
|---|---|
| `cursorX`, `cursorY`, `vidmem` | `screen.c`; of a cell the model keeps whether it is blank, part of a message, or of the time of which processor |
| `lock` | the print lock of `clock.c` |
| `pc`, `printed` | where a processor is: its message "starting processor", its message in the clock task, or its loop; and how many characters it has printed there |
| `inside`, `reg` | where a processor is inside `Printch`, `NewLineCheck` and `ClearScreen`, and what it has loaded to compute with |
| `temp` | `tempX`, `tempY` |
| `mixed` | history: a message printed without the lock has overlapped with what another processor prints, and since then nobody found the cursor in order as it took the lock |

Every load and every store of `cursorX` and `cursorY` is a step: those of the index of the
cell, of `cursorX++`, the test against the width, `cursorX = 0`, `cursorY++`, the test of
`NewLineCheck`, the two stores of `ClearScreen` and of `SetPointer`.  Only the loop that clears the
cells is one step, and the two bytes of a cell are one.  So processors that print at once
overwrite characters, lose increments, and can push the cursor to column `SCREEN_WIDTH` or
row `SCREEN_HEIGHT` and beyond: the runs reach states in which a character is written behind the
screen.  `mixed` marks these states from the moment two of them overlap, one without the lock;
it is cleared when the lock is taken with the cursor on the screen and nobody printing.  What processor 0 prints during boot only decides the row in which `Console` begins.
The clock's row is the one of the processor's number, twice, from the bottom.

`Library`: a text is a sequence of digits and signs, built backwards and reversed
as the code does; `memset` and `memcpy` run over single bytes and then over words,
each word read before it is written.  The least signed number and copies onto a
later part of their source have their own, other results, which `CallIsRight` excepts.

### Boot and the code

| variable | code |
|---|---|
| `pc` | where a processor is: `kernel_entry`, `ap_boot.fasm`, `setup_processor`, `final_processor_setup` or its clock task |
| `lock` | the spinlocks `ready`, `process_ready`, `ts_lock` and the print lock `lock` |
| `args`, `segment`, `stack` | the words at 0x800C and 0x800E; what a processor read there, as the number of the processor it was meant for |
| `next_ap` | `i` of `startup_all_AP` |
| `tables` | which of the tables and the kernel process exist |
| `used`, `tcb`, `slot`, `scan`, `making` | `thread_slots` (flags; processor and role), what `thread_create` returned and is looking at |
| `mailbox`, `current_thread`, `ready` | owners of `mailbox_slots`; `thread_sched_t` of each processor |
| `clk_entered`, `register`, `timer_isr` | `clock.c:73`, the register of `clk_entered++`, `isr_handlers[64]` |

A processor is one sequence of steps: its timer interrupt only counts until
`timer_callback` is registered.  The search for a slot is split at the lock, the
test and the mark; `clk_entered++` is a load and a store, as `-O0` compiles it.
The mailboxes have ids that nobody else asks for, so `ms_lock` has no step.  What
a processor does with its own scheduler and mailbox alone is one step.  Memory of
the tables starts with any content (all slots taken or free, any owner), because
nothing clears it before `process_init` and `mailbox_init`.  The pages that
`alloc_perm` gives are left out; `VirtMem` has them.

## 3. Runs

| run | instance | distinct states | shows |
|---|---|---|---|
| `core_smp` | 2 cpus (workers a, b / worker d, which also reschedules), 1 semaphore with 1 unit | 457,200 | all safety properties, and refinement of `SemaphoreSpec` |
| `core_live` | 1 cpu, 3 workers of equal priority, `IcrPreemptible`, fair | 88,432 | locks are freed, signalled threads run |
| `core_icr` | as `core_smp`, `IcrPreemptible` | | **violated**: an interrupt between the two ICR writes misdirects the message interrupt |
| `core_inversion` | 2 cpus, workers of different priority on one, fair | | **violated**: a preempted lock holder never runs again |
| `machine` | frames: 2 threads; 16 blocks in words of 4, a hole, a reserved kernel and bitmap, a last partial word; 4 frames in reach.  Pages: 2 processors, 7 frames, tables of 4 entries.  Screen: 2 processors, 2 by 4 cells.  Time: 28 start times, 4 formats | 1,152,727 | all safety properties of the four, and refinement of `FrameSpec`, `AddressSpace` and `ConsoleSpec` |
| `phys_leak` | as `machine` | | **violated**: the failing path keeps the lock |
| `virt_race` | as `machine` | | **violated**: two processors are given one page for their stacks |
| `boot` | 3 processors, fair; deadlock checked | 256,578 | all safety properties, the hand-over to `KernelCore`, and every processor gets to its clock task |
| `boot_rendezvous` | 2 processors, fair | | **violated**: an increment of `clk_entered` is lost and preemption never starts |
| `mail` | 3 threads, one of them a server with a static mailbox; 2 slots; fair | 171,542 | the mailbox table is sound, refinement of `ChannelSpec`, delivery to a server |
| `services` | areas: 9 requests over 6 pages, a heap for 5 nodes; platform: 36 firmwares; library: numbers of 8 bits, 9 bytes of memory | 189,504 | heap, tree, platform tables and library against what they are to compute, and refinement of `AreaSpec` |
| `areas_rl` | as `services` | | **violated**: a removal follows a null pointer |

Bounds of `core_*`.  Two workers on one cpu and one on another are the least in which a
preempted critical section, a remote signal, a remote lock holder and a queue of
two waiters all occur.  One semaphore suffices because no operation touches two.
Two priorities stand for eight: workers and, below, the idle thread
(`core_inversion` uses three).  `MaxCount` bounds the count from above: a signal
begins only below it; several begun signals may exceed it.  The count's 32-bit
width is not modelled: 2^32 surplus signals are out of reach.  `core_live` has
one cpu, so a signal from another cpu is in the safety runs only.

Bounds of `machine`, frames.  Words of four blocks and bytes of two keep the three
roundings apart; fifteen counted blocks of sixteen leave a last block that is
neither counted nor initialised, and a partial word that is counted and never
found.  Two threads are enough for every race, since only one is inside the lock;
four frames let both hold some when memory runs out.  The threads do the same, so
states that differ by an exchange of the two are checked once (`ThreadSymmetry`); no
liveness property is checked there.

Bounds of `machine`, pages.  Tables of four entries: the kernel's table has room for two
more pages, so the third page needs a new table, which both processors may find
absent at once (`MaxPage` ends the second table half full).  Seven frames, two of them for the first directory and
its table, run out in the middle of a mapping.  `KERNEL_END` is no multiple of the
page size.  Deadlock is not checked: memory runs out,
processors halt, and the lock that is never released stops everyone.

Bounds of `machine`, screen and time.  Two processors with rows 2 and 0 of four lines: a message of one
character fills a line of two when another has been printed into it without its newline, reaches
every row, clears the screen, and runs through the rows of the clocks; a time of one character
leaves the last column free, as on 80.  Start times lie
one or two seconds before each carry, and in each month of a leap year and of another.
Two updates of the chip can fall into either pass of the reading; four ticks of half a
second let every carry happen.

Bounds of `boot`.  Three processors are the least at which the arguments of one
that starts could meet those of the next, and at which two others are in their
setup while a third is late.  Six slots are as many as there are threads, so
the search ends at the last one.  The skip over processors that are not enabled is
part of `NextAP`; the instance has none, as the clock tasks would then wait for ever.

Bounds of `mail`.  Two senders and a server are the least with which senders queue
and one is served twice; three threads for two slots leave one without a mailbox, and make
the creation of two race for the slot they both find free.  Deadlock is not
checked: threads that only receive wait for ever.

Bounds of `services`.  Five nodes reach every case of insertion, and every case of removal
up to the wrong rotation of `vm_contract.c:188`, which with so few meets a null
pointer only (with about ten nodes it loses areas instead).  The heap holds
exactly five nodes; with the object of the other user something is refused, and
blocks are merged and split.
Firmwares: one to four processors, in order and not, of which four exhaust
the heap, and each of the reasons to panic.  Numbers
of 8 bits are all tried in bases 2, 10 and 16; nine bytes hold two words of four and
one byte over, at every offset.  Deadlock is not checked: most of these programs end.

Fairness of `Boot`: each processor takes steps, and gets a lock that is free again
and again.  Only the print lock is asked for without end, by loops that sleep
between two rounds "to allow the other processor to acquire the lock" (`clock.c:127`).

Fairness of `ThreadMail`: a thread inside a call takes its next step when it can (what
`core_live` shows of the semaphores below); a server calls `receive` again and again, as
the loop of `process_task.c` does.  That anybody ever sends, or that a thread that is no
server receives, is not assumed.  `MailIsDelivered` needs no strong fairness because
`SemaphoreSpec` serves waiters in order.

Fairness of `KernelCore` (`FairSpec`).  The timer of each cpu is periodic and a message
interrupt stays pending until taken, so both and the handlers they start are
fair.  For a thread: a slice of 10 ms holds millions of instructions, so a thread
scheduled again and again takes its next step when it can; a spinning thread
samples its lock throughout its slices.  Hence strong fairness of the steps of
each thread other than the idle ones.  It is *not* assumed that a given thread
ever wins a contended spinlock, and that is not claimed: the lock has no queue.
`LocksAreFreed` says that whoever holds a lock gives it back.

## 4. Findings

1. `lapic.c:61` - `lapic_send_ipi` is not atomic against the timer (`core_icr`).
   A message interrupt can go to the wrong cpu; the mailbox it was meant for
   stays locked and every later sender to it spins for ever.
2. `sync/semaphore.c:36` - spinlocks are held with preemption enabled, so
   threads of different priorities that share a semaphore can block each other
   for ever (`core_inversion`).
3. `mem_manager_phys.c:157` - an allocation that finds nothing returns with
   `phys_mem_lock` held (`phys_leak`).  The test of the free count does not shield
   it: the free blocks below 1 MB and in the last partial word are counted and
   never found.  `LockKeptOnlyWhenExhausted` of `machine` shows that this is the only
   path that keeps it.
4. `clock/clock.c:78` - `clk_entered++` is not atomic: when an increment is lost,
   processor 0 waits for ever and the timer never preempts (`boot_rendezvous`).
5. `mem_alloc.c:12` - the cursor of `alloc_perm` has no lock: two processors that set
   up their clock tasks at the same time can share a stack (`virt_race`).  What else
   overlapping calls can do is bounded by `FrameHasOneUse` and `NoStrayEntries`, which hold
   throughout: frames are lost, but never shared between pages.
6. `vm_contract.c:188` - one case of `avl_remove` rotates the left child where the node
   itself is meant, as in `avl_insert` (`areas_rl`).

Seen while modelling; the models have them, and the properties that hold say how
far they go:

- `heap_manager.c:218`: `heap_alloc_a` does not test what `heap_alloc` answers, and
  `kernel.c:132` tests a result that is never null.  `StorageIsOwn` excepts it (`Refused`).
- `gst.c:23`: `get_cpu_storage` indexes by id, `gst_add_processor` (`gst.c:15`) stores in the order
  in which the firmware lists processors.  `StorageIsOwn` has both.
- `rtc.c:83`: on a chip with twelve hours, 12 at night is read as 12 and noon as 0;
  `TimeIsWhole` says which hours are wrong.
- `time.c`: the weekday is wrong in January and February of 2000, where the year
  before is 2^32 - 1.  `TimeIsWhole` excepts them.
- `clock/clock.c:42`: at midnight day and weekday grow without a limit: day 32,
  weekday 7.  `ClockFollowsTicks` counts days only.
- `clock/clock.c:82`: a listed processor that is not enabled is counted in
  `processor_count` and never started, so the rendezvous never ends.
- `processor_startup.c:138`: "starting processor" is printed without the lock the clock
  tasks print under.  When it overlaps with other printing it can land in a clock's row or over
  another message, and two processors between lines 104 and 113 of `screen.c` push the cursor past
  the last column or row, where the next character is written behind the visible
  screen and from where a clock may save it.  `MessagesGoOn` excepts what overlaps (`mixed`).
- `clock/clock.c:119`: from the thirteenth processor on, the row of a clock is below 0
  and wraps; `ConsoleAssumption` excludes it.
- `libk/utility.c:67`: `-val` of the least number is that number; its remainders index
  `hexes` below its start (`Junk` in `Library`).
- `libk/include/utility.h:29` says of `uitoalpha` "1 -> a | 2 -> b | 25 -> aa"; the code
  (`utility.c:37`) has 0 for a, and 26 gives "ba".  Nothing calls it.
- `ipc/mailbox.c:36`: a mailbox is found before its semaphores are initialised; `early` in
  `ThreadMail`.

## 5. Theorems

What is proved holds for every choice of the constants that satisfies the named assumptions
of the module; hypotheses beyond these are written in the theorem.

`KernelCoreProofs` first proves the types and the mailboxes of the cpus:

- `TypeCorrect == Spec => []TypeOK`.  `TypeOK` is inductive as stated: besides
  the types it says that a cpu executes a thread exactly outside a handler, a
  handler has a message, and a call in progress has its semaphore and message.
  The step that needs work is `Schedule`: `FirstNonEmpty` chooses a minimum, which
  exists by well-foundedness of the naturals.
- `MailboxExclusive == IcrSafe => (Spec => []MailboxHasOneUser)`, where `IcrSafe`
  says that no interrupt lands between the ICR writes, or there is one cpu, or
  each cpu has one thread that is not idle.  `MailboxHasOneUser` is not inductive:
  `MailInv` adds that a thread between its two ICR writes finds in the register
  the destination it wrote, which is what the run `core_icr` shows can fail, and
  that the handler's message carries its own cpu as destination, so that
  `acknowledge` unlocks the right mailbox.

then, about the ready queues, which have no lock:

- `HighestPriority == Spec => []HighestPriorityRuns`, whatever the interrupt controller does.
  `HomeInv` says that each cpu executes and queues its own threads, each at its priority,
  and that a wake-up is addressed to the cpu its thread is bound to, so that no handler
  makes a better thread ready under one that runs.
- `PlaceIsUnique == IcrSafe => (Spec => []ThreadInOnePlace)`.  A thread runs, is ready, waits at
  a semaphore, or is on its way in a wake-up, whose message may still be with the
  signaller, in the mailbox of a cpu, or with its handler; the property says it is in one
  of these places, `PlaceInv` also that it is there once (`NoRepetition`), and that between
  copy and interrupt the mailbox has what the sender has.  Without `MailInv` a message could be served twice.
- `QueuesAreOwn == IcrSafe => (Spec => QueuesChangeWithDispatch)`, an action property that
  follows from the above: a queue that changed has lost or got the thread that runs.

and at last, about the semaphores, under `Prompt`: `IcrSafe`, and a cpu takes the interrupt it sent itself before
it goes on.  `semaphore_wait` relies on the second when it blocks; section 2 says what
happens without it.

- `LockHasHolder == Prompt => (Spec => []SemLockHasOneHolder)`, `NoWakeupIsLost` and
  `SchedulerNeverPanics` (of `NoLostWakeup` and `SchedulerFindsThread`) from one
  inductive invariant, `SemInv`, as they need each other.  `WaitersCalledWait` is a part of it; it is
  no result of its own, as `Prompt` excludes the late self-interrupt that breaks it.  Its own parts are
  `RequestInv`: a `CM_SEM_WAIT` in the mailbox of a cpu, with its interrupt on the way, was sent
  by the thread the cpu executes, so the handler evicts the one that asked; `NothingToTake`: a wait that is
  about to block holds the lock and found no unit; and `IdleInv`: idle threads never leave their
  cpu, so a dispatch finds one.  `CallInv` says what a call in progress knows.
- `SemaphoresKeepPromise == Prompt => (Spec => KeepsPromise)`: the refinement of `SemaphoreSpec`,
  one lemma for each step of a thread or a handler.

`PhysMemProofs` proves for every number of threads, size of memory, word and byte
(a word being whole bytes), and every sequence of region calls inside the map:

- `TypeCorrect`, `LockIsExclusive`, `FramesHaveOneUser` from one inductive
  invariant, `PhysInv`: the two safety properties need each other and
  `CallsConsistent`, which says that a block found by the search is still free
  when it is taken and that a block being given back is held by nobody.
- `CountIsExact == Spec => CountFollowsBitmap`, an action property: every step sets clear
  blocks or clears set ones and counts them (`Counted`), which for region calls
  rests on `Changed` and for `phys_mem_dealloc` on `FrameHasOneUser`.
- `CountMayBeTrusted == Spec => []CountCoversReach` with `CountInv`: the number of
  free blocks is at least the number of clear bits that `phys_mem_init` set.
  Bits behind the bitmap, when freed, only add to it.  It needs that the search
  stays inside the initialised bits (`ReachIsManaged`).
- `AllocatorKeepsPromise == Spec => KeepsPromise`: the refinement of `FrameSpec`,
  step by step.  A thread refused by the count alone is a `Deny` because of
  `CountCoversReach`.
- `LockIsKeptByFailure == Spec => []LockKeptOnlyWhenExhausted`: from `PhysInv` and that the lock
  is free during boot.  Once a lock is left behind nobody gets in to release a block.
- `FramesComeFromTheMap == OrderlyMap => (Spec => []FramesAreUsable)`.  `OrderlyMap` says of the
  region calls what firmware and linker make true: available regions do not overlap, the
  kernel and the bitmap lie in them and are set aside after they were freed.  It is
  needed because a region call stops at the first block that is already as
  wanted.  `MapInv` says which blocks are clear after `booted` of the calls, and
  afterwards that a clear or used block is available.

`BootProofs` proves for every number of processors and thread slots, and whichever
processors are enabled, from one inductive invariant (`BootInv`):

- `ArgumentsAreOwn == Spec => []OwnArguments` with `ReadyInv`: the one processor that
  is started is `next_ap`, processor 0 waits for it, and "ready" is locked until it
  gives it back.  What is written while nobody starts is `args.ss` before
  `args.stack`; the invariant follows them through `write_ss`, `write_stack`, `sipi`.
- `TablesComplete == Spec => []TablesBeforeUse` with `TablesInv`: "process_ready" is
  locked from the first step of processor 0 to the publication of the tables.
- `SlotsAreOwned == Spec => []SlotsHaveOneOwner`.  By itself it is not inductive: a
  slot is claimed (`MarkSlot`) before it is filled in without the lock.  `SearchInv`
  says who searches is alone, `ClaimInv` that a claimed slot is nobody else's yet,
  `OwnerInv` that a slot that was returned holds its thread, `MadeInv` which
  threads a processor has made.
- `ReadyForCore == Spec => []HandOver`: what boot leaves satisfies the initial
  condition of `KernelCore`.  `SetupInv` says what each processor has set up;
  `CountInv` that `clk_entered`, and every value about to be stored in it, is at most the
  number of processors counted.  Lost increments only make it smaller, so when it
  equals `processor_count` all were counted.
- `TypeCorrect == Spec => []TypeOK`; `clk_entered <= processor_count` needs `CountInv`.

`ThreadMailProofs` proves for every number of threads and slots:

- `MailboxesKeepTheirToken == Spec => []MailboxesAreSound`.  `BaseInv` says which mailboxes a call in
  progress may be about (`SlotInv`, `CallInv`) and that who is in a list is parked there, once
  (`WaitInv`).  `TokenInv` counts: units of either semaphore and threads inside make one; threads are not
  bounded, so that those inside can be counted is part of it.
- `MailboxesAreChannels == Spec => KeepsPromise`: the refinement of `ChannelSpec`, for behaviours
  in which no mailbox was found before its creation was complete (`early`).  `MessageInv` says
  that a full mailbox has a message.

`VirtMemProofs` proves, under `SizeAssumption`, for every number of processors, set of frames, size
of tables, kernel and map of the kernel:

- `InvHolds == SizeAssumption => (Spec => [](Inv /\ NoStrayEntries))`.  `Inv` has one part for each data
  structure.  `CallInv`: what a processor holds at each step of `alloc_perm`.  `DirectoryInv`: the
  directory is never replaced, keeps the kernel's tables, and has an entry where a
  processor is past its installation.  `UseInv`: a frame has at most one use.  `CleanInv`: what may
  become a table holds junk, so that only a table in the making can translate it.  `SpaceInv`:
  nobody creates a table where another address space has one.  `CallsInv`: while calls do not
  overlap, the cursor is ahead of all pages given, a table is created only where there
  is none, and a page is given once, in a table that is present.
- From it `OneUseForEveryFrame`, `TablesAreCleared`, `SpacesSeeTheKernel` (of `FrameHasOneUse`,
  `NoStrayEntries`, `SpacesShareKernel`), which hold however calls overlap.
- `FramesAreAccounted == SizeAssumption => (Spec => []NoFrameLost)` with `LostInv`, and
  `SpaceIsKept == SizeAssumption => (Spec => KeepsPromise)`, the refinement of `AddressSpace`,
  both while calls do not overlap.  The refinement needs that a free step changes one
  translation (`UseInv`), and that the kernel's never change (`DirectoryInv`).

`ConsoleProofs` proves, under `ConsoleAssumption`, for every number of processors (with a row
for each clock), every size of the screen and length of a message:

- `TypeCorrect == Spec => []TypeOK`, which says nothing of how far the cursor may go.
- `CursorStaysOnScreen == Spec => []CursorOnScreen`: while no message printed without the lock overlaps
  with other printing (`mixed`), each character is written to a cell of the screen, and between two characters the
  cursor is on it, although it stands on column `SCREEN_WIDTH` and row `SCREEN_HEIGHT` inside
  `Printch` and a clock puts back what it found.
- `ConsoleIsShared == Spec => KeepsPromise`: the refinement of `ConsoleSpec`, with the same exception.

  The invariant: the print lock has one holder (`LockInv`); what a processor has left to print, and
  which accesses of `Printch` it can be at (`Progress`); and, unless `mixed`, `OwnerInv`: one
  processor is busy with the cursor (`OneBusy`), what it has loaded is what the cursor still is, and how far the cursor is
  from the screen at each access (`Moves`); a clock that prints has the cursor in its own row, as many cells in
  as it has printed, and in `temp` a place on the screen (`Lends`).  So a time never wraps into the
  next row, and where messages go on (`Place`) changes only as a character is printed.  The step of
  `cursorX` and the steps up to the clearing leave it where it is (`End` looks ahead).

`TimeOfDayProofs` proves, under `TimeAssumption`, for every date and time from 2000 to 2098 that the chip
may start with, every set of formats, and every tick that divides a second:

- `TimeStaysRight == Spec => []TimeIsRight` (and `TimeTypes`).  That two equal passes are one
  instant (`TimeIsWhole`) needs the invariant over both passes.  Within a minute the
  chip carries at most once into the fields above the seconds (`CarryInv`).  While it has not,
  both passes read these fields as they are (`ReadInv`).  After that, the time whose seconds the second
  pass has read agrees with what was read of the other fields in the first pass, or with what has
  been read in the second (`WholeInv`).  As the passes are equal, it is the time read.
- The conversion gives back what the chip encoded (`ConvertIsRight`, of all four formats), and the method of
  `time.c` the weekday of the calendar (`SchwerdtfegerMethod`, `WeekdayIsRight`).  The days before a year and a
  month are put in closed form (`DaysBeforeYearIs`, `DaysBeforeMonthIs`): the recursive functions
  satisfy their equations because the closed form does; there is no least year in which
  they differ (`WFMin`, which has no operator parameter), and the months are gone through one by one.
- `ClockFollowsTicks` with `TickInv`: milliseconds, seconds, minutes and hours are a mixed
  radix number to which each tick adds the same, as a tick divides a second; one lemma for each carry.

`MachineProofs` carries the results on `VirtMem`, `Console` and `TimeOfDay` to the specification of
`MCMachine`: its behaviours, seen through the variables of one of them, are behaviours of that module (`MemoryIsVirtual`,
`ScreenIsConsole`, `TimeIsTimeOfDay`), since a step of another part
changes nothing there.  `MachineAssumption` is the assumption TLC evaluates.

`LockIsExclusive` and the case of one cpu in `MailboxExclusive` have no run of
their own: the theorems cover every instance.

What is checked by TLC only: `Areas` (`HeapIsSound`, `FindIsExact`, the refinement of `AreaSpec`),
`Platform` (`StorageIsOwn`) and `Library` (`CallIsRight`), whose recursive operators on heaps, trees and
texts keep the prover from their modules.  Liveness (`core_live`, `boot`,
`MailIsDelivered`) is out of the prover's reach and stays with TLC.  Every other property of a
passing run is the property of a theorem.  The inductive invariants of the proofs are no
properties of runs; the theorems they serve are.

## 6. Not modelled, and the plan

Not modelled:

- `process_create`, `process_task.c` beyond the receive loop, and the reading of thread and process
  slots while they are filled in: nothing calls them, and `handle_fork` is marked as to be fixed.
- `elf.c`: its only call is commented out (`processor_startup.c:130`).
- Of `libk`: strings, the directives of `printf`, tabs, backspaces, colours and scrolling,
  which nothing uses while processors share the screen; `uitoalpha`, `memcmp`, `system.c`.
- Timer calibration and `lapic_sleep` (they busy-wait on device counters), the register
  writes of `pit.c`, `ioapic.c` and `pic.c`, the contents of descriptors and gates, the
  frames that `idtr.asm` pushes: data without control.
- `virt_mem_ptable_clear` and `virt_mem_pdirectory_clear`, which have no caller and are
  marked as to be fixed; the translation buffer; the page fault handler, which halts.
- 2^32 signals (`semaphore.c:67`), and what lies between the kernel's linked sections
  (`kernel.c:90`): hazards without a property, with their reasons in `PROJECT.json`.  Without one
  are also those that the code runs into and the properties except: a mailbox used before it is ready
  (`mailbox.c:36`), a heap that is full (`heap_manager.c:218`), a frame kept when mapping fails
  (`mem_manager_virt.c:175`), and the wait for processors that are not enabled (`clock.c:82`).

What can come next:

1. The heap with its blocks as a function of their places instead of a recursive walk, so that
   `HeapIsSound` can be proved as well as checked.
2. The count of a semaphore as a number of 32 bits, once a bound on signals without waits is known.
3. `process_create` and the slots of processes, when something calls them.
