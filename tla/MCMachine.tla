----------------------------- MODULE MCMachine -----------------------------
(* Instances for TLC of what the kernel makes of the machine: PhysMem and   *)
(* VirtMem of its memory, Console of its screen, TimeOfDay of its clocks.   *)
(* VirtMem takes its frames from any allocator that keeps the promise of    *)
(* FrameSpec, as PhysMem does; beyond that the four share no state.  Side   *)
(* by side their states would only multiply; so each behaviour runs one of  *)
(* them, named by `part`, and leaves the others where they begin.           *)
EXTENDS PhysMem, TLC

CONSTANTS
    t1, t2, b, x,
    Callers,          \* VirtMem's Threads; the other constants have their names there
    Bsp, Frames, PER_TABLE, Self, Foreign, KERNEL_END, PAGE_SIZE, InitialTables, KernelPages,
    MaxPage,
    processor_count, SCREEN_WIDTH, SCREEN_HEIGHT, MessageLength, TimeLength, Blank, Text,
    StartTimes, Formats, MSEC_PER_TICK, MaxUpdates, MaxTicks

VARIABLES
    part,
    mem, free, cr3, spaces, started, mem_current, step, page, loaded, phys, table,
    owned, overlapped,
    cursorX, cursorY, vidmem, print_lock, printer, printed, inside, reg, temp, mixed,
    chip, updating, updates, format, stage, next, new, old, shown, system_time, start, ticks

virt_vars == <<mem, free, cr3, spaces, started, mem_current, step, page, loaded, phys,
               table, owned, overlapped>>
screen_vars == <<cursorX, cursorY, vidmem, print_lock, printer, printed, inside, reg, temp, mixed>>
time_vars == <<chip, updating, updates, format, stage, next, new, old, shown,
               system_time, start, ticks>>
all_vars == <<part, vars, virt_vars, screen_vars, time_vars>>

-----------------------------------------------------------------------------
\* Memory in words of four blocks.  Blocks 0 to 2 stand for the memory below
\* 640 KB, 3 for the hole below 1 MB.
Call(kind, base, size) == [kind |-> kind, base |-> base, size |-> size]

\* As kernel.c: the available regions, then the kernel at 1 MB and the bitmap.
\* The hole makes the map end behind the last block that is counted.
Kernel == <<Call("free", 0, 3), Call("free", 4, 12),
            Call("reserve", 4, 2), Call("reserve", 7, 1)>>

\* The threads that allocate frames do the same.
ThreadSymmetry == Permutations(Threads)

\* Tables of four entries.  The kernel's pages 0 and 1 are the frames 100 and 101
\* in the first table, which has room for two more pages.  Two processors, seven
\* frames, of which two go to the first directory and its table.
TwoKernelPages ==
    0 :> [i \in 0 .. PER_TABLE - 1 |-> [frame |-> IF i < 2 THEN 100 + i ELSE 0, present |-> i < 2]]

Virt == INSTANCE VirtMem WITH pc <- step, frame <- phys, Threads <- Callers

\* Two columns and messages of one character, so that those printed at once run over
\* a line, and two messages over the screen.
Screen == INSTANCE Console WITH lock <- print_lock, pc <- printer

\* Instants before which every field carries, and one in every month of two years;
\* both ways to write a number and both ways to count the hours.
At(year, month, day, hour, min, sec) ==
    [year |-> year, month |-> month, day |-> day, hour |-> hour, min |-> min, sec |-> sec]

BoundaryTimes ==
    {At(98, 12, 31, 23, 59, 59), At(24, 2, 28, 23, 59, 58),
     At(18, 9, 7, 11, 59, 59), At(18, 9, 30, 9, 59, 59)}
        \cup {At(year, month, 28, 12, 59, 58) : year \in {0, 23}, month \in 1 .. 12}

AllFormats == BOOLEAN \X BOOLEAN

Time == INSTANCE TimeOfDay

ASSUME MachineAssumption ==
    /\ OrderlyMap
    /\ Virt!SizeAssumption
    /\ Screen!ConsoleAssumption
    /\ Time!TimeAssumption

-----------------------------------------------------------------------------
\* What the parts that a behaviour does not run begin with.
Resting ==
    /\ part # "physical" => \A block \in Blocks : bitmap[block]
    /\ part # "screen" => cursorY = 0
    /\ part # "time" => chip = (CHOOSE t \in StartTimes : TRUE)
                            /\ format = (CHOOSE f \in Formats : TRUE)

MachineInit ==
    /\ part \in {"physical", "virtual", "screen", "time"}
    /\ Init
    /\ Resting
    /\ Virt!Init
    /\ Screen!Init
    /\ Time!Init

MachineNext ==
    \/ part = "physical" /\ Next /\ UNCHANGED <<part, virt_vars, screen_vars, time_vars>>
    \/ part = "virtual" /\ Virt!Next /\ UNCHANGED <<part, vars, screen_vars, time_vars>>
    \/ part = "screen" /\ Screen!Next /\ UNCHANGED <<part, vars, virt_vars, time_vars>>
    \/ part = "time" /\ Time!Next /\ UNCHANGED <<part, vars, virt_vars, screen_vars>>

MachineSpec == MachineInit /\ [][MachineNext]_all_vars

-----------------------------------------------------------------------------
(* The properties of the other modules, by names of this one.               *)

\* No frame stands behind two pages or tables, however alloc_perm overlaps, and a
\* directory names frames only.
FrameHasOneUse == part = "virtual" => Virt!TypeOK /\ Virt!FrameHasOneUse

\* A new page table translates nothing that nobody mapped.
NoStrayEntries == part = "virtual" => Virt!NoStrayEntries

\* While calls do not overlap, no frame is lost by mapping and unmapping.
NoFrameLost == part = "virtual" => Virt!NoFrameLost

\* A cloned address space is its own and has the kernel's tables.
SpacesShareKernel == part = "virtual" => Virt!SpacesShareKernel

\* While calls do not overlap, VirtMem implements AddressSpace.
SpaceKeepsPromise == Virt!KeepsPromise

\* Console: unless a message printed without the lock overlaps with what another
\* processor prints, Console implements ConsoleSpec and every character is written on
\* the screen.  (With an overlap the code does write behind it.)
MessagesGoOn == Screen!KeepsPromise /\ []Screen!TypeOK /\ []Screen!CursorOnScreen

\* TimeOfDay: the time read from the chip is whole, and the clock follows the ticks.
TimeIsRight == part = "time" => Time!TypeOK /\ Time!TimeIsRight

\* processor_startup.c:94: "setup usermode kernel stack (one per processor)".
StackHasOneOwner == Virt!StackHasOneOwner
=============================================================================
