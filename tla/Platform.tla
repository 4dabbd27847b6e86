------------------------------ MODULE Platform ------------------------------
(***************************************************************************)
(* kernel_entry from the first use of the kernel heap to the load of the   *)
(* descriptor tables: acpi.c finds and parses the firmware's tables, gst.c *)
(* keeps what they say of each processor, kernel.c allocates the data area *)
(* of the processors and the table of descriptors and fills the latter.    *)
(*                                                                         *)
(* The boot processor runs alone.  What varies is the firmware: the order, *)
(* number and contents of its entries, and whether the memory suffices.    *)
(***************************************************************************)
EXTENDS Heap

CONSTANTS
    Firmwares,          \* the states of firmware memory, see Firmware
    HEAP_START,
    HEAP_SIZE,
    CPU_DATA_SIZE,      \* sizeof(per_cpu_data_t)
    GDT_ENTRY_SIZE,     \* sizeof(gdt_entry_t)
    GDT_GENERAL_ENTRIES,
    GDT_ENTRIES_PER_CPU,
    MAX_CPUS,
    None

VARIABLES
    firmware,           \* firmware memory
    boot_heap,          \* kheap
    stage,              \* how far kernel_entry is
    entry,              \* the entry of the MADT that comes next
    cpu_index,          \* madt_parse's index of the next processor
    gst,                \* global_system_table_struct_t
    cpu_data,           \* the processors' data area: index to the id there
    gdt                 \* the descriptors: number to what it describes

vars == <<firmware, boot_heap, stage, entry, cpu_index, gst, cpu_data, gdt>>

-----------------------------------------------------------------------------
(* Firmware tables                                                         *)

\* acpi.h, as far as the kernel reads it.  rsdp: the area that holds the root
\* pointer, with the right checksum; ebda: the pointer to the second area is set.
Entry ==
    [type : {"LAPIC"}, processor_id : Nat, apic_id : Nat]
        \cup [type : {"IOAPIC"}, ioapic_addr : Nat]
        \cup [type : {"INTERRUPT_OVERRIDE"}, irq_source : 0 .. 15, global_system_int : Nat]

Firmware ==
    [rsdp : {"bios", "ebda", "none"}, ebda : BOOLEAN, revision : Nat, madt : Seq(Entry)]

PlatformAssumption ==
    /\ \A f \in Firmwares : f \in Firmware
    /\ {HEAP_START, HEAP_SIZE, CPU_DATA_SIZE, GDT_ENTRY_SIZE, GDT_GENERAL_ENTRIES,
        GDT_ENTRIES_PER_CPU, MAX_CPUS} \subseteq Nat \ {0}

\* The high BIOS area is searched first, the other one only if there is a pointer to it.
rsdp_find == firmware.rsdp = "bios" \/ (firmware.rsdp = "ebda" /\ firmware.ebda)

EntriesOf(type) == SelectSeq(firmware.madt, LAMBDA e : e.type = type)

\* Descriptor numbers, gdt.h.
GDT_SS_ENTRY(id) == GDT_GENERAL_ENTRIES + GDT_ENTRIES_PER_CPU * id
GDT_GS_ENTRY(id) == GDT_GENERAL_ENTRIES + GDT_ENTRIES_PER_CPU * id + 1
\* Faulty variant: the same number as the one before.
TssEntryOfGs(id) == GDT_GENERAL_ENTRIES + GDT_ENTRIES_PER_CPU * id + 1
GDT_TSS_ENTRY(id) == GDT_GENERAL_ENTRIES + GDT_ENTRIES_PER_CPU * id + 2

GdtCount == GDT_GENERAL_ENTRIES + GDT_ENTRIES_PER_CPU * gst.processor_count

-----------------------------------------------------------------------------
(* The steps                                                               *)

Init ==
    /\ firmware \in Firmwares
    /\ boot_heap = heap_create(HEAP_START, HEAP_SIZE)
    /\ stage = "find"
    /\ entry = 1
    /\ cpu_index = 0
    /\ gst = [processor_count |-> 0, ioapic_count |-> 0, ioapic_base |-> None,
              ioapic_overrides |-> [irq \in 0 .. 15 |-> 0],
              per_cpu_ptrs |-> [id \in 0 .. MAX_CPUS - 1 |-> None],
              per_cpu_data_base |-> [at |-> 0, padding |-> 0],
              gdt_entries |-> [at |-> 0, padding |-> 0]]
    /\ cpu_data = <<>>
    /\ gdt = <<>>

\* stage moves on, or PANIC halts the machine.
Advance(from, ok, to) == stage = from /\ stage' = IF ok THEN to ELSE "PANIC"

\* rsdp_find and rsdp_first_parse, which counts the entries of each type.
FirstParse ==
    /\ Advance("find", rsdp_find /\ firmware.revision = 0, "allocate data")
    /\ gst' = IF rsdp_find /\ firmware.revision = 0
              THEN [gst EXCEPT !.processor_count = Len(EntriesOf("LAPIC")),
                               !.ioapic_count = Len(EntriesOf("IOAPIC"))]
              ELSE gst
    /\ UNCHANGED <<firmware, boot_heap, entry, cpu_index, cpu_data, gdt>>

\* The address heap_alloc_a answers is never 0: neither test of it fails.
AllocData ==
    LET mem == heap_alloc_a(boot_heap, gst.processor_count * CPU_DATA_SIZE, 4) IN
    /\ Advance("allocate data", mem.at # 0, "allocate gdt")
    /\ boot_heap' = mem.heap
    /\ gst' = [gst EXCEPT !.per_cpu_data_base = [at |-> mem.at, padding |-> mem.padding]]
    /\ UNCHANGED <<firmware, entry, cpu_index, cpu_data, gdt>>

AllocGdt ==
    LET mem == heap_alloc_a(boot_heap, GdtCount * GDT_ENTRY_SIZE, 4) IN
    /\ Advance("allocate gdt", mem.at # 0 /\ gst.ioapic_count = 1, "parse")
    /\ boot_heap' = mem.heap
    /\ gst' = [gst EXCEPT !.gdt_entries = [at |-> mem.at, padding |-> mem.padding]]
    /\ UNCHANGED <<firmware, entry, cpu_index, cpu_data, gdt>>

\* gst_add_processor, for a processor that madt_parse meets.
AddProcessor(e) ==
    /\ e.type = "LAPIC"
    /\ Advance("parse", e.processor_id = e.apic_id, "parse")
    /\ IF e.processor_id = e.apic_id /\ cpu_index < gst.processor_count /\ e.processor_id < MAX_CPUS
       THEN /\ gst' = [gst EXCEPT !.per_cpu_ptrs[e.processor_id] = cpu_index]
            /\ cpu_data' = [i \in DOMAIN cpu_data \cup {cpu_index} |->
                                IF i = cpu_index THEN e.processor_id ELSE cpu_data[i]]
       ELSE UNCHANGED <<gst, cpu_data>>
    /\ cpu_index' = cpu_index + 1

SetIoapic(e) ==
    /\ e.type = "IOAPIC"
    /\ gst' = [gst EXCEPT !.ioapic_base = e.ioapic_addr]
    /\ UNCHANGED <<stage, cpu_index, cpu_data>>

gst_set_int_override(e) ==
    /\ e.type = "INTERRUPT_OVERRIDE"
    /\ gst' = [gst EXCEPT !.ioapic_overrides[e.irq_source] = e.global_system_int]
    /\ UNCHANGED <<stage, cpu_index, cpu_data>>

\* madt_parse, one entry.
ParseEntry ==
    /\ stage = "parse"
    /\ entry \in DOMAIN firmware.madt
    /\ LET e == firmware.madt[entry]
       IN  AddProcessor(e) \/ SetIoapic(e) \/ gst_set_int_override(e)
    /\ entry' = entry + 1
    /\ UNCHANGED <<firmware, boot_heap, gdt>>

\* The general descriptors, then three for each processor, written in the order
\* of the loop: of two that fall on one number the later one stays.
FillGdt ==
    LET Describes(n) ==
            LET of == {i \in 0 .. gst.processor_count - 1 :
                          n \in {GDT_SS_ENTRY(i), GDT_GS_ENTRY(i), GDT_TSS_ENTRY(i)}}
                last == CHOOSE i \in of : \A j \in of : j <= i
            IN  IF of = {} THEN <<"general", n>>
                ELSE IF n = GDT_TSS_ENTRY(last) THEN <<"tss", last>>
                ELSE IF n = GDT_GS_ENTRY(last) THEN <<"gs", last>>
                ELSE <<"ss", last>>
    IN  /\ entry \notin DOMAIN firmware.madt
        /\ Advance("parse", TRUE, "done")
        /\ gdt' = [n \in 0 .. GdtCount - 1 |-> Describes(n)]
        /\ UNCHANGED <<firmware, boot_heap, entry, cpu_index, gst, cpu_data>>

Next == FirstParse \/ AllocData \/ AllocGdt \/ ParseEntry \/ FillGdt

Spec == Init /\ [][Next]_vars

-----------------------------------------------------------------------------
(* Properties.                                                             *)

Processors == 0 .. gst.processor_count - 1

TypeOK ==
    /\ firmware \in Firmwares
    /\ stage \in {"find", "allocate data", "allocate gdt", "parse", "done", "PANIC"}
    /\ gst.processor_count <= Len(firmware.madt)
    /\ cpu_index <= gst.processor_count
    /\ DOMAIN cpu_data \subseteq Processors
    /\ \A i \in DOMAIN gst.per_cpu_ptrs : gst.per_cpu_ptrs[i] \in Processors \cup {None}

\* heap_alloc_a made an address of the 0 it was answered.
Refused == gst.per_cpu_data_base.at < HEAP_START \/ gst.gdt_entries.at < HEAP_START

Objects ==
    {[block |-> mem.at - mem.padding - WORD, at |-> mem.at, size |-> 0] :
        mem \in {gst.per_cpu_data_base, gst.gdt_entries}}

\* Where get_cpu_storage looks for the data of a processor.
get_cpu_storage(id) == id

InOrder == \A i \in DOMAIN cpu_data : cpu_data[i] = i

\* When the tables are set up, unless the heap refused and nobody noticed: each
\* has a heap block that holds it whole; every processor the firmware lists has
\* data of its own, per_cpu_ptrs finds it, its descriptors are its own, and
\* get_cpu_storage finds it too if the firmware lists processors in order of id.
StorageIsOwn ==
    stage = "done" /\ ~Refused =>
        /\ BlocksTile(boot_heap)
        /\ ObjectsHaveBlocks(boot_heap,
               {[o EXCEPT !.size = IF o.at = gst.gdt_entries.at
                                   THEN GdtCount * GDT_ENTRY_SIZE
                                   ELSE gst.processor_count * CPU_DATA_SIZE] : o \in Objects})
        /\ \A k \in DOMAIN EntriesOf("LAPIC") :
               LET id == EntriesOf("LAPIC")[k].processor_id
                   index == gst.per_cpu_ptrs[id]
               IN  /\ index \in Processors
                   /\ cpu_data[index] = id
                   /\ InOrder => get_cpu_storage(id) = index
        /\ \A i \in Processors :
               /\ gdt[GDT_SS_ENTRY(i)] = <<"ss", i>>
               /\ gdt[GDT_GS_ENTRY(i)] = <<"gs", i>>
               /\ gdt[GDT_TSS_ENTRY(i)] = <<"tss", i>>
        /\ \A n \in 0 .. GDT_GENERAL_ENTRIES - 1 : gdt[n] = <<"general", n>>
=============================================================================
