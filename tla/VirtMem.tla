------------------------------ MODULE VirtMem ------------------------------
(***************************************************************************)
(* Virtual memory, mem_manager_virt.c and mem_alloc.c: the boot processor  *)
(* clones the page directory it was started with, allocates the kernel's   *)
(* tables, and later all processors allocate the pages of their stacks     *)
(* through alloc_perm, in one address space and with no lock.              *)
(*                                                                         *)
(* A directory and a page table are frames with the same shape: an entry   *)
(* names a frame and may be present.  The directory's entry Self names the *)
(* directory itself, so that tables are reached as pages (the recursive    *)
(* mapping of mem_manager_virt_aux.c).  Frames come from an allocator that *)
(* keeps the promise of FrameSpec and, as PhysMem, hands out the first.    *)
(***************************************************************************)
EXTENDS Integers, FiniteSets

CONSTANTS
    Threads,         \* one thread per processor
    Bsp,             \* the one of the boot processor
    Frames,          \* the frames that can be allocated
    PER_TABLE,       \* VIRT_MEM_PAGES_PER_DIR, entries of a table; 1024
    Self, Foreign,   \* the directory entries of 0xC0000000 and 0xC0400000
    KERNEL_END,      \* the address behind the kernel
    PAGE_SIZE,       \* bytes of a page
    InitialTables,   \* the tables present in the directory of kernel_init.c
    KernelPages,     \* the pages they map, up to the end of the kernel
    MaxPage          \* a bound of the model: no call begins at or after this page

Index == 0 .. PER_TABLE - 1
Pages == 0 .. PER_TABLE * PER_TABLE - 1

Junk == -1     \* an entry in memory nobody has set
NoFrame == 0

Entry(f) == [frame |-> f, present |-> TRUE]
NoEntry == [frame |-> NoFrame, present |-> FALSE]
JunkEntry == Entry(Junk)
KernelFrames == {InitialTables[d][i].frame : d \in DOMAIN InitialTables, i \in Index}

virt_mem_get_page_table_index(v) == v \div PER_TABLE
virt_mem_get_page_index(v) == v % PER_TABLE

ceil_division(value, divisor) ==
    (value \div divisor) + (IF value % divisor # 0 THEN 1 ELSE 0)
FirstPage == ceil_division(KERNEL_END, PAGE_SIZE)

\* alloc_perm gives the pages behind the kernel, which is mapped above the tables.
SizeAssumption ==
    /\ Bsp \in Threads
    /\ Frames \subseteq Nat \ {NoFrame}
    /\ PER_TABLE \in Nat \ {0} /\ KERNEL_END \in Nat /\ PAGE_SIZE \in Nat \ {0}
    /\ Self \in Index /\ Foreign \in Index \ {Self}
    /\ DOMAIN InitialTables # {} /\ DOMAIN InitialTables \subseteq Index \ {Self, Foreign}
    /\ \A d \in DOMAIN InitialTables :
          InitialTables[d] \in [Index -> [frame : Nat, present : BOOLEAN]]
    /\ KernelFrames \cap Frames = {}
    /\ KernelPages \subseteq 0 .. FirstPage - 1
    /\ \A v \in KernelPages :
          /\ virt_mem_get_page_table_index(v) \in DOMAIN InitialTables
          /\ InitialTables[virt_mem_get_page_table_index(v)][virt_mem_get_page_index(v)].present
    /\ MaxPage \in Nat
    /\ \A v \in FirstPage .. MaxPage - 1 :
          virt_mem_get_page_table_index(v) \in Index \ {Self, Foreign}

VARIABLES
    mem,           \* mem[f]: frame f seen as a table
    free,          \* the frames the allocator has
    cr3,           \* the directory in use, get_gst()->BSP_dir
    spaces,        \* the directories virt_mem_create_address_space returned
    started,       \* process_ready was released: all processors run
    mem_current,   \* the cursor of alloc_perm, a page number
    pc,            \* pc[t]: the next step of thread t
    page,          \* page[t]: temp of alloc_perm
    loaded,        \* loaded[t]: what the increment of the cursor has read
    frame,         \* frame[t]: phys of virt_mem_alloc_page_f
    table,         \* table[t]: table_phys of virt_mem_create_table
    owned,         \* owned[t]: the pages t was given
    overlapped     \* history: two calls of alloc_perm were in progress at once

locals == <<page, loaded, frame, table>>
shared == <<mem, free, cr3, spaces, started, mem_current, overlapped>>
vars == <<shared, pc, locals, owned>>

\* The frame a table access ends at: virt_mem_get_page_table(base, .) is a page
\* whose own table is the directory that entry `base` names.
virt_mem_get_page_table(m, base, d) == m[m[cr3][base].frame][d].frame
virt_mem_get_directory(m, base) == virt_mem_get_page_table(m, base, base)

Init ==
    /\ mem = [f \in Frames |-> [i \in Index |-> JunkEntry]]
    /\ free = Frames
    /\ cr3 = NoFrame
    /\ spaces = {}
    /\ started = FALSE
    /\ mem_current = 0
    /\ pc = [t \in Threads |-> IF t = Bsp THEN "init" ELSE "idle"]
    /\ page = [t \in Threads |-> 0]
    /\ loaded = [t \in Threads |-> 0]
    /\ frame = [t \in Threads |-> NoFrame]
    /\ table = [t \in Threads |-> NoFrame]
    /\ owned = [t \in Threads |-> {}]
    /\ overlapped = FALSE

Goto(t, step) == pc' = [pc EXCEPT ![t] = step]

\* phys_mem_alloc_above_1mb, when it succeeds
FirstFree == CHOOSE f \in free : \A g \in free : f <= g

-----------------------------------------------------------------------------
(* The boot processor alone.                                               *)

\* virt_mem_init with virt_mem_deep_clone_directory: a new directory with new
\* copies of the tables, and the recursive entry.
virt_mem_init ==
    /\ pc[Bsp] = "init"
    /\ LET dir == FirstFree IN
       \E copy \in [DOMAIN InitialTables -> free \ {dir}] :
          LET used == {copy[d] : d \in DOMAIN copy} \cup {dir} IN
          /\ \A d, e \in DOMAIN copy : d < e <=> copy[d] < copy[e]
          /\ \A f \in used, g \in free \ used : f < g
          /\ free' = free \ used
          /\ mem' = [f \in Frames |->
                IF f = dir THEN [i \in Index |->
                    IF i = Self THEN Entry(dir)
                    ELSE IF i \in DOMAIN copy THEN Entry(copy[i]) ELSE NoEntry]
                ELSE IF f \in used
                     THEN InitialTables[CHOOSE d \in DOMAIN copy : copy[d] = f]
                     ELSE mem[f]]
          /\ cr3' = dir
    /\ Goto(Bsp, "idle")
    /\ UNCHANGED <<spaces, started, mem_current, overlapped, locals, owned>>

BspAlone == ~started /\ pc[Bsp] = "idle"

virt_mem_set_recursive_table(m, current, target, pdir) ==
    [m EXCEPT ![virt_mem_get_directory(m, current)][target] = Entry(pdir)]

\* Faulty variant: the copy keeps the recursive entry of its original.
CreateSpaceUnfixed ==
    /\ BspAlone
    /\ free # {}
    /\ LET m == virt_mem_set_recursive_table(mem, Self, Foreign, FirstFree)
       IN  mem' = [m EXCEPT ![FirstFree] = m[cr3]]
    /\ free' = free \ {FirstFree}
    /\ spaces' = spaces \cup {FirstFree}
    /\ UNCHANGED <<cr3, started, mem_current, overlapped, pc, locals, owned>>

\* The new directory is reached through the entry Foreign: it gets a copy of
\* the one in use, and the copy's own entry Foreign, which names it by then, is
\* the way to its entry Self.
virt_mem_create_address_space ==
    /\ BspAlone
    /\ free # {}
    /\ LET dir == FirstFree
           m == virt_mem_set_recursive_table(mem, Self, Foreign, dir)
           copied == [m EXCEPT ![virt_mem_get_page_table(m, Self, Foreign)] =
                          m[virt_mem_get_directory(m, Self)]]
       IN  /\ mem' = virt_mem_set_recursive_table(copied, Foreign, Self, dir)
           /\ spaces' = spaces \cup {dir}
           /\ free' = free \ {dir}
    /\ UNCHANGED <<cr3, started, mem_current, overlapped, pc, locals, owned>>

TableOf(v) ==
    virt_mem_get_page_table(mem, Self, virt_mem_get_page_table_index(v))

\* Faulty variant: the page stays mapped to the frame it gives back.
FreePageMapped(v) ==
    /\ BspAlone
    /\ v \in owned[Bsp]
    /\ free' = free \cup {mem[TableOf(v)][virt_mem_get_page_index(v)].frame}
    /\ owned' = [owned EXCEPT ![Bsp] = @ \ {v}]
    /\ UNCHANGED <<mem, cr3, spaces, started, mem_current, overlapped, pc, locals>>

\* Faulty variant: the frame is not given back.
FreePageKeepsFrame(v) ==
    /\ BspAlone
    /\ v \in owned[Bsp]
    /\ mem' = [mem EXCEPT ![TableOf(v)][virt_mem_get_page_index(v)] = NoEntry]
    /\ owned' = [owned EXCEPT ![Bsp] = @ \ {v}]
    /\ UNCHANGED <<free, cr3, spaces, started, mem_current, overlapped, pc, locals>>

\* virt_mem_get_phys_addr, virt_mem_unmap_page and phys_mem_dealloc
virt_mem_free_page(v) ==
    /\ BspAlone
    /\ v \in owned[Bsp]
    /\ mem' = [mem EXCEPT ![TableOf(v)][virt_mem_get_page_index(v)] = NoEntry]
    /\ free' = free \cup {mem[TableOf(v)][virt_mem_get_page_index(v)].frame}
    /\ owned' = [owned EXCEPT ![Bsp] = @ \ {v}]
    /\ UNCHANGED <<cr3, spaces, started, mem_current, overlapped, pc, locals>>

\* The tables of processes, threads and mailboxes exist: process_ready.
Start ==
    /\ BspAlone
    /\ owned[Bsp] # {}
    /\ started' = TRUE
    /\ UNCHANGED <<mem, free, cr3, spaces, mem_current, overlapped, pc, locals, owned>>

-----------------------------------------------------------------------------
(* alloc_perm, on every processor.                                         *)

InCall(t) == pc[t] \notin {"init", "idle", "halted"}

\* The first call sets the cursor to the first page behind the kernel.
ReadCursor(t) ==
    LET current == IF mem_current = 0 THEN FirstPage ELSE mem_current IN
    /\ pc[t] = "idle"
    /\ current < MaxPage
    /\ started \/ t = Bsp
    /\ page' = [page EXCEPT ![t] = current]
    /\ mem_current' = current
    /\ overlapped' = (overlapped \/ \E u \in Threads : InCall(u))
    /\ Goto(t, "load")
    /\ UNCHANGED <<mem, free, cr3, spaces, started, loaded, frame, table, owned>>

\* mem_current += page size is a load and a store.
LoadCursor(t) ==
    /\ pc[t] = "load"
    /\ loaded' = [loaded EXCEPT ![t] = mem_current]
    /\ Goto(t, "store")
    /\ UNCHANGED <<shared, page, frame, table, owned>>

StoreCursor(t) ==
    /\ pc[t] = "store"
    /\ mem_current' = loaded[t] + 1
    /\ Goto(t, "alloc")
    /\ UNCHANGED <<mem, free, cr3, spaces, started, overlapped, locals, owned>>

\* Without a frame alloc_perm halts the processor.
AllocFrame(t) ==
    /\ pc[t] = "alloc"
    /\ IF free = {}
       THEN Goto(t, "halted") /\ UNCHANGED <<free, frame>>
       ELSE /\ frame' = [frame EXCEPT ![t] = FirstFree]
            /\ free' = free \ {FirstFree}
            /\ Goto(t, "find")
    /\ UNCHANGED <<mem, cr3, spaces, started, mem_current, overlapped, page, loaded,
                   table, owned>>

DirEntry(t) == mem[cr3][virt_mem_get_page_table_index(page[t])]

\* Faulty variant: a table is created although there is one.
FindTableNever(t) ==
    /\ pc[t] = "find"
    /\ Goto(t, "table")
    /\ UNCHANGED <<shared, locals, owned>>

\* virt_mem_map_page: is the page's table present?
FindTable(t) ==
    /\ pc[t] = "find"
    /\ Goto(t, IF DirEntry(t).present THEN "write" ELSE "table")
    /\ UNCHANGED <<shared, locals, owned>>

\* virt_mem_create_table.  When it fails, the frame for the page is not
\* returned, and alloc_perm halts the processor.
AllocTable(t) ==
    /\ pc[t] = "table"
    /\ IF free = {}
       THEN Goto(t, "halted") /\ UNCHANGED <<free, table>>
       ELSE /\ table' = [table EXCEPT ![t] = FirstFree]
            /\ free' = free \ {FirstFree}
            /\ Goto(t, "install")
    /\ UNCHANGED <<mem, cr3, spaces, started, mem_current, overlapped, page, loaded,
                   frame, owned>>

InstallTable(t) ==
    /\ pc[t] = "install"
    /\ mem' = [mem EXCEPT ![cr3][virt_mem_get_page_table_index(page[t])].frame = table[t]]
    /\ Goto(t, "mark")
    /\ UNCHANGED <<free, cr3, spaces, started, mem_current, overlapped, locals, owned>>

MarkPresent(t) ==
    /\ pc[t] = "mark"
    /\ mem' = [mem EXCEPT ![cr3][virt_mem_get_page_table_index(page[t])].present = TRUE]
    /\ Goto(t, "clear")
    /\ UNCHANGED <<free, cr3, spaces, started, mem_current, overlapped, locals, owned>>

\* Faulty variant: the new table is not cleared.
ClearTableNever(t) ==
    /\ pc[t] = "clear"
    /\ Goto(t, "write")
    /\ UNCHANGED <<shared, locals, owned>>

\* memset through the recursive mapping: it clears whichever table the
\* directory names by now.
ClearTable(t) ==
    /\ pc[t] = "clear"
    /\ mem' = [mem EXCEPT ![TableOf(page[t])] = [i \in Index |-> NoEntry]]
    /\ Goto(t, "write")
    /\ UNCHANGED <<free, cr3, spaces, started, mem_current, overlapped, locals, owned>>

\* The page's entry is set, whatever it held, and alloc_perm returns.
WriteEntry(t) ==
    /\ pc[t] = "write"
    /\ mem' = [mem EXCEPT ![TableOf(page[t])][virt_mem_get_page_index(page[t])] =
                              Entry(frame[t])]
    /\ owned' = [owned EXCEPT ![t] = @ \cup {page[t]}]
    /\ frame' = [frame EXCEPT ![t] = NoFrame]
    /\ table' = [table EXCEPT ![t] = NoFrame]
    /\ Goto(t, "idle")
    /\ UNCHANGED <<free, cr3, spaces, started, mem_current, overlapped, page, loaded>>

alloc_perm(t) ==
    \/ ReadCursor(t) \/ LoadCursor(t) \/ StoreCursor(t) \/ AllocFrame(t)
    \/ FindTable(t) \/ AllocTable(t) \/ InstallTable(t) \/ MarkPresent(t)
    \/ ClearTable(t) \/ WriteEntry(t)

Next ==
    \/ virt_mem_init
    \/ virt_mem_create_address_space
    \/ \E v \in Pages : virt_mem_free_page(v)
    \/ Start
    \/ \E t \in Threads : alloc_perm(t)

Spec == Init /\ [][Next]_vars

-----------------------------------------------------------------------------
(* Properties.                                                             *)

EntryType == [frame : Frames \cup KernelFrames \cup {NoFrame, Junk}, present : BOOLEAN]
Steps == {"init", "idle", "load", "store", "alloc", "find", "table", "install", "mark",
          "clear", "write", "halted"}

\* Tables, cursor and locals keep their types.  A directory that is in use names
\* frames only, never the 0 that stands for a failed allocation.
TypeOK ==
    /\ mem \in [Frames -> [Index -> EntryType]]
    /\ free \subseteq Frames
    /\ cr3 \in Frames \cup {NoFrame}
    /\ spaces \subseteq Frames
    /\ started \in BOOLEAN /\ overlapped \in BOOLEAN
    /\ mem_current \in Nat
    /\ pc \in [Threads -> Steps]
    /\ page \in [Threads -> Nat] /\ loaded \in [Threads -> Nat]
    /\ frame \in [Threads -> Frames \cup {NoFrame}]
    /\ table \in [Threads -> Frames \cup {NoFrame}]
    /\ owned \in [Threads -> SUBSET Nat]
    /\ cr3 # NoFrame =>
          \A i \in Index : mem[cr3][i].present => mem[cr3][i].frame \in Frames

\* The directory entries behind which there are page tables
TableSlots == {d \in Index \ {Self, Foreign} : mem[cr3][d].frame \in Frames}

\* Everything that stands for frame f, once the directory exists.
Uses(f) ==
    {"directory"} \X {s \in spaces \cup {cr3} : s = f} \cup
    {"table"} \X {d \in TableSlots : mem[cr3][d].frame = f} \cup
    {"page"} \X {p \in TableSlots \X Index : mem[mem[cr3][p[1]].frame][p[2]].frame = f} \cup
    {"phys"} \X {t \in Threads : frame[t] = f} \cup
    {"table_phys"} \X {t \in Threads : table[t] = f /\ pc[t] = "install"}

\* A frame stands behind one page, is one table or one directory, and is then
\* not with the allocator: however the calls of several processors overlap, two
\* pages never share a frame and no mapped frame can be handed out again.
FrameHasOneUse ==
    cr3 # NoFrame => \A f \in Frames :
        /\ Cardinality(Uses(f)) <= 1
        /\ f \in free => Uses(f) = {}

\* What was in the memory of a new table is never left behind as a translation:
\* only while virt_mem_create_table is about to clear it can there be any.
NoStrayEntries ==
    cr3 # NoFrame => \A d \in TableSlots, i \in Index :
        mem[mem[cr3][d].frame][i].frame = Junk =>
            \E t \in Threads : pc[t] \in {"mark", "clear"}
                               /\ virt_mem_get_page_table_index(page[t]) = d

\* While calls of alloc_perm do not overlap no frame is lost: each is free or
\* has its use.  A failed mapping keeps its frame, and halts the processor.
NoFrameLost ==
    cr3 # NoFrame /\ ~overlapped =>
        \A f \in Frames : f \in free \/ Uses(f) # {}

\* An address space created by virt_mem_create_address_space names itself in
\* its recursive entry and sees the kernel through the tables of the one it was
\* copied from.
SpacesShareKernel ==
    \A s \in spaces :
        /\ mem[s][Self] = Entry(s)
        /\ \A d \in Index \ {Self, Foreign} : mem[s][d].present => mem[s][d] = mem[cr3][d]

\* The walk of the processor: from the directory to a table to a frame.
Translation(v) ==
    LET d == virt_mem_get_page_table_index(v)
        i == virt_mem_get_page_index(v)
        in(t) == IF t[i].present THEN t[i].frame ELSE NoFrame
    IN  IF cr3 = NoFrame
        THEN IF d \in DOMAIN InitialTables THEN in(InitialTables[d]) ELSE NoFrame
        ELSE IF mem[cr3][d].present THEN in(mem[mem[cr3][d].frame]) ELSE NoFrame

AllOwned == UNION {owned[t] : t \in Threads}

Promise == INSTANCE AddressSpace WITH
    Kernel <- KernelPages,
    mapping <- [v \in Pages |->
        IF v \in KernelPages \cup AllOwned THEN Translation(v) ELSE NoFrame]

\* While calls of alloc_perm do not overlap, every page belongs to one thread
\* and has a frame of its own until it is freed, and the kernel's pages keep the
\* frames they had before virt_mem_init: VirtMem implements AddressSpace.
KeepsPromise == Promise!Init /\ [][overlapped' \/ Promise!Next]_(Promise!vars)

\* processor_startup.c:94: "setup usermode kernel stack (one per processor)".
\* A page that alloc_perm returned belongs to one processor.
StackHasOneOwner == \A t, u \in Threads : t # u => owned[t] \cap owned[u] = {}
=============================================================================
