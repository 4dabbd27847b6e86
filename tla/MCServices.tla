----------------------------- MODULE MCServices -----------------------------
(* Instances for TLC of three modules that share no state with one another: *)
(* Areas (on Heap), Platform (on another Heap) and Library.  As in          *)
(* MCMachine, each behaviour runs one of them, named by `part`, and leaves  *)
(* the others where they begin.                                             *)
EXTENDS Areas, TLC

CONSTANT None

VARIABLES
    part,
    firmware, boot_heap, boot_stage, entry, cpu_index, gst, cpu_data, gdt,
    call, result

boot_vars == <<firmware, boot_heap, boot_stage, entry, cpu_index, gst, cpu_data, gdt>>
library_vars == <<call, result>>
all_vars == <<part, vars, boot_vars, library_vars>>

-----------------------------------------------------------------------------
\* A heap for five nodes.  Areas of pages 0 to 5: five that lie side by side, one
\* that overlaps with most of them, three with bad bounds.
FiveAreas ==
    {<<0, 1>>, <<2, 3>>, <<4, 5>>, <<6, 7>>, <<8, 11>>, <<2, 11>>, <<1, 2>>, <<4, 4>>, <<6, 1>>}

\* Firmware for one to four processors, in several orders; with four of them the
\* heap is too small.  Machines without root pointer, of another revision, with
\* too many interrupt controllers and with ids that differ stop early.
Lapic(id) == [type |-> "LAPIC", processor_id |-> id, apic_id |-> id]
Ioapic == [type |-> "IOAPIC", ioapic_addr |-> 7]
Override == [type |-> "INTERRUPT_OVERRIDE", irq_source |-> 0, global_system_int |-> 2]

Madts ==
    {<<Lapic(0), Ioapic>>,
     <<Lapic(0), Lapic(1), Ioapic, Override>>,
     <<Lapic(1), Override, Lapic(0), Ioapic>>,
     <<Ioapic, Lapic(0), Lapic(2), Lapic(1)>>,
     <<Override, Lapic(2), Lapic(0), Lapic(1), Ioapic>>,
     <<Lapic(0), Lapic(1), Lapic(2), Lapic(3), Ioapic>>,
     <<Lapic(0), Lapic(1)>>,
     <<Lapic(0), Ioapic, Ioapic>>,
     <<Lapic(0), Ioapic, [Lapic(1) EXCEPT !.apic_id = 2]>>}

Firmwares ==
    {[rsdp |-> f[1], ebda |-> f[2], revision |-> f[3], madt |-> madt] :
        f \in {<<"bios", FALSE, 0>>, <<"bios", TRUE, 2>>, <<"ebda", TRUE, 0>>, <<"ebda", FALSE, 0>>},
        madt \in Madts}

Boot == INSTANCE Platform WITH
    stage <- boot_stage, HEAP_START <- 12, HEAP_SIZE <- 96, HEADER <- 8, WORD <- 4,
    CPU_DATA_SIZE <- 8, GDT_ENTRY_SIZE <- 2, GDT_GENERAL_ENTRIES <- 5,
    GDT_ENTRIES_PER_CPU <- 3, MAX_CPUS <- 4

\* Words of eight bits for numbers, of four bytes for memory.
Lib == INSTANCE Library WITH WIDTH <- 8, WORD_BYTES <- 4, MEMORY <- 9

ASSUME Boot!PlatformAssumption /\ Lib!LibraryAssumption

-----------------------------------------------------------------------------
\* What the parts that a behaviour does not run begin with.
Resting ==
    /\ part # "platform" => firmware = CHOOSE f \in Firmwares : TRUE
    /\ part # "library" => call = CHOOSE c \in Lib!Calls : TRUE

ServicesInit ==
    /\ part \in {"areas", "platform", "library"}
    /\ Resting
    /\ Init
    /\ Boot!Init
    /\ Lib!Init

ServicesNext ==
    \/ part = "areas" /\ Next /\ UNCHANGED <<part, boot_vars, library_vars>>
    \/ part = "platform" /\ Boot!Next /\ UNCHANGED <<part, vars, library_vars>>
    \/ part = "library" /\ Lib!Next /\ UNCHANGED <<part, vars, boot_vars>>

ServicesSpec == ServicesInit /\ [][ServicesNext]_all_vars

-----------------------------------------------------------------------------
(* The properties of the other modules, by names of this one.               *)

\* Platform, from the first use of the heap to the load of the descriptor table:
\* every processor has its own data and descriptors, in memory of their own.
StorageIsOwn == part = "platform" => Boot!TypeOK /\ Boot!StorageIsOwn

\* Library: numbers and their texts, and copies of memory.
CallIsRight == part = "library" => Lib!CallIsRight
=============================================================================
